------------------------- MODULE BroadcastMonitor -------------------------
(***************************************************************************)
(* The advertisement monitor of a config entry (broadcast.py), from the    *)
(* lock that broadcasts to the entities that show what was received.       *)
(*                                                                         *)
(* Around the monitor, as its code uses them: the locks, whose payloads    *)
(* reach the receivers late, twice, in another order or not at all; the    *)
(* Bluetooth manager, which keeps the last advertisement of every address  *)
(* and calls back only when its payload differs from the one before; the   *)
(* event loop, which runs due timers and scheduled entity writes before    *)
(* time goes on.  A tick is RSSI_REFRESH_INTERVAL.                         *)
(***************************************************************************)
EXTENDS DeviceState, Sequences, FiniteSets

CONSTANTS Serials,     \* the configured devices
          Unavailable, \* the state an entity shows when it is not available
          StaleEvery,  \* STALE_CHECK_INTERVAL, in ticks
          FirstGen,    \* what the lock's counter is when the monitor starts
          Window,      \* how many superseded payloads may still be received
          MaxLead,     \* bound on how far a lock gets ahead of its report
          MaxGen       \* bound on the payload generations

ASSUME MonitorAssumption ==
  /\ StaleEvery \in Nat \ {0}
  /\ MaxAge = Timeout + StaleEvery
  /\ {FirstGen, Window, MaxLead, MaxGen} \subseteq Nat

ASSUME UnavailableAssumption == Unavailable \notin BOOLEAN \cup Int \cup {None}

\* Half the counter's range apart, older and newer cannot be told.
ASSUME GateAssumption == Window <= MaxLead /\ MaxLead < Modulus \div 2

VARIABLES air,          \* the payloads of each lock still in the air, newest last
          history,      \* the manager's last advertisement of each lock
          newInfo,      \* whether that is another object than state.last_info
          keys,         \* the shared key cache: the broadcast key of each serial
          state,        \* DanalockBroadcastMonitor.states
          notified,     \* _notified
          unavailable,  \* _unavailable
          uptime,       \* ticks since _monitor_started_at, up to MaxAge
          phase,        \* "running" from start to stop
          sinceCheck,   \* ticks since _check_stale ran
          sincePoll,    \* ticks since _refresh_states ran
          writes,       \* whether the listeners of a device are scheduled
          shown,        \* the states the entities have written
          validAge,     \* history: ticks since a valid advertisement was received
          revived,      \* history: whether it was the poll that made it fresh again
          undecoded     \* history: whether an advertisement came after the last
                        \* accepted one that the key did not decode

timers == <<sinceCheck, sincePoll>>
past == <<validAge, revived, undecoded>>
vars == <<air, history, newInfo, keys, state, notified, unavailable, uptime, phase,
          timers, writes, shown, past>>

\* What the entities show: the lock and the signal sensor, the binary sensors and
\* the counter sensor, and the calibration buttons, which need an address only.
LockView(st) == IF IsFresh(st) THEN IsLocked(st) ELSE Unavailable
SignalView(st) ==
  IF ~IsFresh(st) THEN Unavailable
  ELSE IF st.rssi = None THEN None ELSE RssiToPercent(st.rssi)
ReportView(st) ==
  IF ~IsFresh(st) THEN Unavailable
  ELSE IF st.report = None THEN None
  ELSE [unlocked |-> ~st.report.locked, flags |-> st.report.flags,
        counter |-> Counter(st.report)]
ButtonView(st) == IF st.address THEN None ELSE Unavailable
View(st) == [lock |-> LockView(st), signal |-> SignalView(st),
             report |-> ReportView(st), button |-> ButtonView(st)]

Views ==
  [lock: BOOLEAN \cup {None, Unavailable},
   signal: (0 .. 100) \cup {None, Unavailable},
   report: [unlocked: BOOLEAN, flags: SUBSET SettingNames, counter: 0 .. Modulus - 1]
           \cup {None, Unavailable},
   button: {None, Unavailable}]

Ages == (0 .. MaxAge) \cup {None}

TypeOK ==
  /\ air \in [Serials -> Seq(Payloads)]
  /\ \A s \in Serials : Len(air[s]) \in 1 .. Window + 1
  /\ history \in [Serials -> Advertisements \cup {None}]
  /\ newInfo \in [Serials -> BOOLEAN]
  /\ keys \in [Serials -> Keys]
  /\ state \in [Serials -> States]
  /\ notified \in [Serials -> BOOLEAN]
  /\ unavailable \in [Serials -> BOOLEAN]
  /\ uptime \in Ages
  /\ phase \in {"running", "stopped"}
  /\ sinceCheck \in 0 .. StaleEvery
  /\ sincePoll \in 0 .. 1
  /\ writes \in [Serials -> BOOLEAN]
  /\ shown \in [Serials -> Views]
  /\ validAge \in [Serials -> Ages]
  /\ revived \in [Serials -> BOOLEAN]
  /\ undecoded \in [Serials -> BOOLEAN]

\* The monitor as start leaves it; the registration with the Bluetooth
\* machinery succeeds or raises.
Init ==
  /\ \E locked \in [Serials -> BOOLEAN], key \in [Serials -> Keys] :
       /\ air = [s \in Serials |->
                   <<[gen |-> FirstGen, locked |-> locked[s], flags |-> {}, key |-> key[s]]>>]
       /\ keys = key
  /\ history = [s \in Serials |-> None]
  /\ newInfo = [s \in Serials |-> FALSE]
  /\ state = [s \in Serials |-> NewState]
  /\ notified = [s \in Serials |-> FALSE]
  /\ unavailable = [s \in Serials |-> FALSE]
  /\ uptime \in {0, None}
  /\ phase = "running"
  /\ sinceCheck = 0
  /\ sincePoll = 0
  /\ writes = [s \in Serials |-> FALSE]
  /\ shown = [s \in Serials |-> View(NewState)]
  /\ validAge = [s \in Serials |-> None]
  /\ revived = [s \in Serials |-> FALSE]
  /\ undecoded = [s \in Serials |-> FALSE]

Running == phase = "running"
Registered == Running /\ uptime # None    \* the property "active"

-----------------------------------------------------------------------------
(* The lock.                                                               *)

Newest(s) == air[s][Len(air[s])]

\* The lock regenerates its payload: it moved, or a setting flag changed.
\* At most Window older payloads remain to be received.
Broadcast(s, payload) ==
  /\ air' = [air EXCEPT ![s] =
               Append(IF Len(@) > Window THEN Tail(@) ELSE @, payload)]
  /\ UNCHANGED <<history, newInfo, keys, state, notified, unavailable, uptime,
                 phase, timers, writes, shown, past>>

\* The bounds under which the lock goes on.
MayRegenerate(s) ==
  /\ Newest(s).gen < MaxGen
  /\ state[s].report # None => Newest(s).gen < state[s].report.gen + MaxLead

Regenerate(s) ==
  /\ MayRegenerate(s)
  /\ \E locked \in BOOLEAN, flags \in SUBSET SettingNames :
       Broadcast(s, [gen |-> Newest(s).gen + 1, locked |-> locked, flags |-> flags,
                     key |-> Newest(s).key])

\* The lock's keys are replaced, as on another enrolment.
Rekey(s) ==
  /\ MayRegenerate(s)
  /\ \E key \in Keys \ {Newest(s).key} :
       Broadcast(s, [Newest(s) EXCEPT !.gen = @ + 1, !.key = key])

\* The key manager's refresh stores the lock's key in the shared cache.
RefreshKey(s) ==
  /\ Running
  /\ keys' = [keys EXCEPT ![s] = Newest(s).key]
  /\ UNCHANGED <<air, history, newInfo, state, notified, unavailable, uptime,
                 phase, timers, writes, shown, past>>

-----------------------------------------------------------------------------
(* The monitor's handlers.                                                 *)

Valid(s, ad) == ad.payload.key = keys[s]

\* Mutant: a device never seen is never reported.
SyncedAvailabilitySeen(s, st) == ~IsFresh(st) /\ (unavailable[s] \/ st.age # None)

\* _sync_availability: the flag behind the two log lines, for the state st.
SyncedAvailability(s, st) ==
  /\ ~IsFresh(st)
  /\ \/ unavailable[s]
     \/ st.age # None
     \/ uptime # None /\ uptime >= Timeout

\* _accept: the report follows the counter gate, the signal every advertisement.
Accept(s, ad) ==
  /\ state' = [state EXCEPT ![s] = Accepted(@, ad)]
  /\ newInfo' = [newInfo EXCEPT ![s] = FALSE]
  /\ unavailable' = [unavailable EXCEPT ![s] = SyncedAvailability(s, state'[s])]
  /\ revived' = [revived EXCEPT ![s] = @ /\ IsFresh(state[s])]
  /\ undecoded' = [undecoded EXCEPT ![s] = FALSE]
  /\ IF ReportChanged(state[s], ad.payload) \/ SignalChanged(state[s], ad)
     THEN /\ notified' = [notified EXCEPT ![s] = TRUE]
          /\ writes' = [writes EXCEPT ![s] = TRUE]
     ELSE UNCHANGED <<notified, writes>>

\* The manager already has this payload and does not call back.
Suppressed(s, ad) == history[s] # None /\ history[s].payload = ad.payload

\* The manager receives an advertisement and calls _handle_advertisement, which
\* ignores a payload that the key does not decode.
Receive(s, ad) ==
  /\ Registered
  /\ history' = [history EXCEPT ![s] = ad]
  /\ validAge' = IF Valid(s, ad) THEN [validAge EXCEPT ![s] = 0] ELSE validAge
  /\ IF Valid(s, ad) /\ ~Suppressed(s, ad)
     THEN Accept(s, ad)
     ELSE /\ newInfo' = [newInfo EXCEPT ![s] = TRUE]
          /\ undecoded' = [undecoded EXCEPT ![s] = @ \/ ~Valid(s, ad)]
          /\ UNCHANGED <<state, notified, unavailable, writes, revived>>
  /\ UNCHANGED <<air, keys, uptime, phase, timers, shown>>

ReceiveAny(s) ==
  \E i \in 1 .. Len(air[s]), rssi \in Rssis :
    Receive(s, [payload |-> air[s][i], rssi |-> rssi])

\* The manager drops the history of an address it has not heard for long.
Forget(s) ==
  /\ Running
  /\ history[s] # None
  /\ history' = [history EXCEPT ![s] = None]
  /\ newInfo' = [newInfo EXCEPT ![s] = FALSE]
  /\ UNCHANGED <<air, keys, state, notified, unavailable, uptime, phase, timers,
                 writes, shown, past>>

\* Mutant: the same history entry is taken for a new advertisement every time.
RefreshStatesAlways ==
  LET polled == {s \in Serials : state[s].address /\ history[s] # None}
  IN /\ Running
     /\ sincePoll = 1
     /\ sincePoll' = 0
     /\ state' = [s \in Serials |->
                    IF s \in polled THEN Seen(state[s], history[s]) ELSE state[s]]
     /\ newInfo' = [s \in Serials |-> newInfo[s] /\ s \notin polled]
     /\ unavailable' = [s \in Serials |->
                          IF s \in polled THEN SyncedAvailability(s, state'[s])
                          ELSE unavailable[s]]
     /\ writes' = [s \in Serials |->
                     writes[s] \/ (s \in polled /\ SignalChanged(state[s], history[s]))]
     /\ revived' = [s \in Serials |->
                      revived[s] \/ (s \in polled /\ ~IsFresh(state[s]))]
     /\ UNCHANGED <<air, history, keys, notified, uptime, phase, sinceCheck, shown,
                    validAge, undecoded>>

\* _refresh_states: the devices whose history entry the monitor has not seen.
RefreshStates ==
  LET polled == {s \in Serials : state[s].address /\ newInfo[s]}
  IN /\ Running
     /\ sincePoll = 1
     /\ sincePoll' = 0
     /\ state' = [s \in Serials |->
                    IF s \in polled THEN Seen(state[s], history[s]) ELSE state[s]]
     /\ newInfo' = [s \in Serials |-> newInfo[s] /\ s \notin polled]
     /\ unavailable' = [s \in Serials |->
                          IF s \in polled THEN SyncedAvailability(s, state'[s])
                          ELSE unavailable[s]]
     /\ writes' = [s \in Serials |->
                     writes[s] \/ (s \in polled /\ SignalChanged(state[s], history[s]))]
     /\ revived' = [s \in Serials |->
                      revived[s] \/ (s \in polled /\ ~IsFresh(state[s]))]
     /\ UNCHANGED <<air, history, keys, notified, uptime, phase, sinceCheck, shown,
                    validAge, undecoded>>

\* Mutant: a device is written only in the check that finds it fresh no longer,
\* which the log flag, set just before, denies.
CheckStaleAfterLog ==
  LET stale == {s \in Serials : notified[s] /\ ~IsFresh(state[s])
                                  /\ ~SyncedAvailability(s, state[s])}
  IN /\ Running
     /\ sinceCheck = StaleEvery
     /\ sinceCheck' = 0
     /\ unavailable' = [s \in Serials |-> SyncedAvailability(s, state[s])]
     /\ notified' = [s \in Serials |-> notified[s] /\ s \notin stale]
     /\ writes' = [s \in Serials |-> writes[s] \/ s \in stale]
     /\ UNCHANGED <<air, history, newInfo, keys, state, uptime, phase, sincePoll,
                    shown, past>>

\* _check_stale: log, and write the entities of devices that just went stale.
CheckStale ==
  LET stale == {s \in Serials : notified[s] /\ ~IsFresh(state[s])}
  IN /\ Running
     /\ sinceCheck = StaleEvery
     /\ sinceCheck' = 0
     /\ unavailable' = [s \in Serials |-> SyncedAvailability(s, state[s])]
     /\ notified' = [s \in Serials |-> notified[s] /\ s \notin stale]
     /\ writes' = [s \in Serials |-> writes[s] \/ s \in stale]
     /\ UNCHANGED <<air, history, newInfo, keys, state, uptime, phase, sincePoll,
                    shown, past>>

\* The scheduled listeners run: the entities of s write what the state is now.
WriteEntities(s) ==
  /\ writes[s]
  /\ writes' = [writes EXCEPT ![s] = FALSE]
  /\ shown' = [shown EXCEPT ![s] = View(state[s])]
  /\ UNCHANGED <<air, history, newInfo, keys, state, notified, unavailable, uptime,
                 phase, timers, past>>

\* A lock or unlock call has succeeded (lock.py): the lock entity shows it.
CommandSucceeded(s, locked) ==
  /\ Running
  /\ state' = [state EXCEPT ![s].pending = locked]
  /\ shown' = [shown EXCEPT ![s].lock = LockView(state'[s])]
  /\ UNCHANGED <<air, history, newInfo, keys, notified, unavailable, uptime, phase,
                 timers, writes, past>>

\* The control returned the settings the lock read back (select.py).
SettingsVerified(s, values) ==
  /\ Running
  /\ state' = [state EXCEPT ![s] = ApplySettings(@, values)]
  /\ UNCHANGED <<air, history, newInfo, keys, notified, unavailable, uptime, phase,
                 timers, writes, shown, past>>

-----------------------------------------------------------------------------
(* Time.  Due timers and scheduled writes run before it goes on.           *)

OlderAge(age) == IF age = None \/ age = MaxAge THEN age ELSE age + 1

Tick ==
  /\ Running
  /\ sinceCheck < StaleEvery
  /\ sincePoll < 1
  /\ \A s \in Serials : ~writes[s]
  /\ sinceCheck' = sinceCheck + 1
  /\ sincePoll' = sincePoll + 1
  /\ uptime' = OlderAge(uptime)
  /\ state' = [s \in Serials |-> [state[s] EXCEPT !.age = OlderAge(@)]]
  /\ validAge' = [s \in Serials |-> OlderAge(validAge[s])]
  /\ UNCHANGED <<air, history, newInfo, keys, notified, unavailable, phase, writes,
                 shown, revived, undecoded>>

\* The entry unloads: the callback and the timers are cancelled.
Stop ==
  /\ Running
  /\ phase' = "stopped"
  /\ UNCHANGED <<air, history, newInfo, keys, state, notified, unavailable, uptime,
                 timers, writes, shown, past>>

Stopped == ~Running /\ UNCHANGED vars

MonitorStep ==
  \/ RefreshStates
  \/ CheckStale
  \/ \E s \in Serials : WriteEntities(s)

Next ==
  \/ \E s \in Serials : \/ Regenerate(s) \/ Rekey(s) \/ RefreshKey(s)
                          \/ ReceiveAny(s) \/ Forget(s)
  \/ \E s \in Serials, locked \in BOOLEAN : CommandSucceeded(s, locked)
  \/ \E s \in Serials, values \in [SettingNames -> SettingValues] :
       SettingsVerified(s, values)
  \/ MonitorStep
  \/ Tick
  \/ Stop
  \/ Stopped

Spec == Init /\ [][Next]_vars

\* The newest payload of every lock keeps being received.
ReceiveNewest(s) ==
  \E rssi \in Rssis : Receive(s, [payload |-> Newest(s), rssi |-> rssi])

FairSpec == Spec /\ \A s \in Serials : SF_vars(ReceiveNewest(s))

-----------------------------------------------------------------------------
(* Properties.                                                             *)

\* Whatever order advertisements arrive in, and across the wrap of the counter, a
\* report is replaced by newer ones only, and the state the lock entity shows changes
\* with the report or a command: no old payload undoes what a command did.
LatestReport == INSTANCE LatestReport WITH
  onAir <- [s \in Serials |-> {air[s][i] : i \in 1 .. Len(air[s])}],
  report <- [s \in Serials |-> state[s].report],
  position <- [s \in Serials |-> IsLocked(state[s])]
ReportIsLatest == LatestReport!Spec

\* The gate never rejects news: the report is at least as new as the last
\* advertisement received.  Not so after one that the cached key did not decode: when
\* the key has been refreshed, the manager does not call back for the same payload.
ReceivedIsReported ==
  \A s \in Serials :
    history[s] # None /\ ~undecoded[s] =>
      /\ state[s].report # None
      /\ state[s].report.gen >= history[s].payload.gen

\* Between the handlers the entities show the monitor's state: every path
\* that changes the report, the signal, the address or the freshness schedules a
\* write.
ShownIsCurrent ==
  \A s \in Serials :
    ~writes[s] => /\ IsFresh(state[s]) => shown[s] = View(state[s])
                  /\ shown[s].button = ButtonView(state[s])

\* A device is fresh only while valid advertisements of it are received, give
\* or take the poll that notices those the manager did not dispatch.  The poll does
\* not decode: after an advertisement that the key does not fit, any is a sign of life.
FreshIsHeard ==
  \A s \in Serials :
    IsFresh(state[s]) /\ ~undecoded[s] => validAge[s] # None /\ validAge[s] <= Timeout

\* The log tells the truth: a device marked unavailable is not fresh and had
\* its chance to be heard; one silent for the timeout is marked by the next check.
AvailabilityLogged ==
  \A s \in Serials :
    /\ unavailable[s] => /\ ~IsFresh(state[s])
                         /\ state[s].age = None => uptime # None /\ uptime >= Timeout
    /\ state[s].age = MaxAge => unavailable[s]
    /\ (state[s].age = None /\ uptime = MaxAge) => unavailable[s]

\* Entities of a device silent for the timeout and one check interval show it
\* unavailable, unless it was the poll that had last made the device fresh.
OverdueShownOnlyAfterPoll ==
  \A s \in Serials :
    (state[s].age = MaxAge /\ ~writes[s] /\ ~revived[s]) => shown[s] = View(state[s])

\* A lock in range whose payload stays and decodes is reported: nothing wedges the gate.
ReportConverges ==
  \A s \in Serials :
    []<>(Registered /\ ~undecoded[s] =>
           state[s].report # None /\ state[s].report.gen = Newest(s).gen)

(* What the documents say and the code does not do.                        *)

\* "A staleness check runs every minute and writes affected entities".
StaleIsShown ==
  \A s \in Serials :
    (Running /\ state[s].age = MaxAge /\ ~writes[s]) => shown[s].signal = Unavailable
=============================================================================
