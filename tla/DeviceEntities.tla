--------------------------- MODULE DeviceEntities ---------------------------
(***************************************************************************)
(* The lock entity and the setting selects of one device (lock.py,         *)
(* select.py) between the commands of the control, which tell what the     *)
(* lock did, and the broadcasts of the monitor, which tell what it was.    *)
(*                                                                         *)
(* Of a command of the control this module keeps what the entities can     *)
(* tell apart: whether and when the lock carries it out, and how and when  *)
(* the call ends.  The facade runs one session at a time, and the calls    *)
(* end in the order of their sessions.  PARALLEL_UPDATES lets one call at  *)
(* a time through to the lock entities and one to the selects; the         *)
(* settings are also read when the selects are added, once for all.  A     *)
(* call may be cancelled at any await, with or without the lock's acting.  *)
(*                                                                         *)
(* The lock regenerates its payload when it moves, with the setting flags  *)
(* of that moment; a write of a setting does not regenerate it.            *)
(***************************************************************************)
EXTENDS DeviceState, Sequences, SequencesExt

CONSTANTS Operator,  \* the call to the lock entity
          Writer,    \* the call to a select
          Reader,    \* the shared settings read of the added selects
          MaxGen     \* bound on the payload generations

Callers == {Operator, Writer, Reader}
Configs == [SettingNames -> SettingValues]

\* The settings a session read back, with their history.
Readings == [values: Configs, gen: Nat, sound: BOOLEAN]

ASSUME CallersAssumption ==
  /\ Operator # Writer /\ Operator # Reader /\ Writer # Reader
  /\ None \notin Readings

VARIABLES locked,      \* the position of the lock
          config,      \* its settings
          payload,     \* what it broadcasts now
          state,       \* DanalockDeviceState
          pc,          \* "idle", in a "call", or with the session over: "closing"
          target,      \* what a call asks for: a position, a setting, nothing
          answer,      \* what the lock answered in its session; None for a failure
          order,       \* the callers whose session is over
          inProgress,  \* _attr_is_locking, _attr_is_unlocking
          overtaken,   \* history: whether the optimistic state was set after a report
                       \* newer than the session of its call
          answeredGen, \* history: generation of the payload on the air when the lock
                       \* gave the settings last applied
          disturbed,   \* history: whether something the cache does not learn of has
                       \* happened to the settings since then
          cut          \* history: whether the last call to the lock was cancelled

calls == <<pc, target, answer, order, inProgress>>
history == <<overtaken, answeredGen, disturbed, cut>>
vars == <<locked, config, payload, state, calls, history>>

Rssi == CHOOSE r \in Rssis : TRUE
InProgress == {"none", "locking", "unlocking"}

TypeOK ==
  /\ locked \in BOOLEAN
  /\ config \in Configs
  /\ payload \in Payloads
  /\ state \in States
  /\ pc \in [Callers -> {"idle", "call", "closing"}]
  /\ target[Operator] \in BOOLEAN \cup {None}
  /\ target[Writer] \in (SettingNames \X SettingValues) \cup {None}
  /\ target[Reader] = None
  /\ answer[Operator] \in Nat \cup {None}
  /\ {answer[Writer], answer[Reader]} \subseteq Readings \cup {None}
  /\ order \in Seq(Callers)
  /\ inProgress \in InProgress
  /\ overtaken \in BOOLEAN
  /\ answeredGen \in Nat
  /\ disturbed \in BOOLEAN
  /\ cut \in BOOLEAN

FlagsOf(settings) == {name \in SettingNames : settings[name] # 0}

Init ==
  /\ locked \in BOOLEAN
  /\ config \in Configs
  /\ \E key \in Keys, flags \in SUBSET SettingNames :
       payload = [gen |-> 0, locked |-> locked, flags |-> flags, key |-> key]
  /\ state = NewState
  /\ pc = [c \in Callers |-> "idle"]
  /\ target = [c \in Callers |-> None]
  /\ answer = [c \in Callers |-> None]
  /\ order = <<>>
  /\ inProgress = "none"
  /\ overtaken = FALSE
  /\ answeredGen = 0
  /\ disturbed = FALSE
  /\ cut = FALSE

-----------------------------------------------------------------------------
(* The lock.                                                               *)

\* The lock is at a position: if it has moved there, it regenerates its payload.
MoveTo(position) ==
  /\ locked' = position
  /\ payload' = IF position = locked THEN payload
                ELSE [payload EXCEPT !.gen = @ + 1, !.locked = position,
                                     !.flags = FlagsOf(config)]

\* Somebody turns the lock by hand.
Turn ==
  /\ payload.gen < MaxGen
  /\ MoveTo(~locked)
  /\ UNCHANGED <<config, state, calls, history>>

\* The settings changed and no answer on its way tells (`sound' is history).
Unnoticed ==
  /\ disturbed' = TRUE
  /\ answer' = [c \in Callers |->
                 IF c = Operator \/ answer[c] = None THEN answer[c]
                 ELSE [answer[c] EXCEPT !.sound = FALSE]]

\* Somebody changes a setting with the vendor's application.
Reconfigure ==
  /\ config' \in Configs \ {config}
  /\ Unnoticed
  /\ UNCHANGED <<locked, payload, state, pc, target, order, inProgress, overtaken,
                 answeredGen, cut>>

\* A value the lock itself answered is replaced on the word of a payload that
\* is no newer than the answer.
Outdated(old, new) ==
  \E name \in SettingNames :
    old.values[name] \notin {0, None} /\ new.values[name] = 0 /\ payload.gen <= answeredGen

\* The monitor decodes the payload on the air, now or, when it misses it, later.
Receive ==
  /\ state' = Accepted(state, [payload |-> payload, rssi |-> Rssi])
  /\ overtaken' = (overtaken /\ ~ReportChanged(state, payload))
  /\ disturbed' = (disturbed \/ Outdated(state, state'))
  /\ UNCHANGED <<locked, config, payload, calls, answeredGen, cut>>

-----------------------------------------------------------------------------
(* The calls.                                                              *)

Call(c, what) ==
  /\ pc[c] = "idle"
  /\ pc' = [pc EXCEPT ![c] = "call"]
  /\ target' = [target EXCEPT ![c] = what]
  /\ answer' = [answer EXCEPT ![c] = None]

\* async_lock, async_unlock.
CallLock ==
  /\ \E position \in BOOLEAN :
       /\ Call(Operator, position)
       /\ inProgress' = IF position THEN "locking" ELSE "unlocking"
  /\ cut' = FALSE
  /\ UNCHANGED <<locked, config, payload, state, order, overtaken, answeredGen,
                 disturbed>>

\* async_select_option.
CallSelect ==
  /\ \E setting \in SettingNames \X SettingValues : Call(Writer, setting)
  /\ UNCHANGED <<locked, config, payload, state, order, inProgress, history>>

\* async_added_to_hass of the selects: one read for all, if a value is unknown.
CallRead ==
  /\ ~SettingsKnown(state)
  /\ Call(Reader, None)
  /\ UNCHANGED <<locked, config, payload, state, order, inProgress, history>>

\* The session of c is over.
Close(c) ==
  /\ pc[c] = "call"
  /\ pc' = [pc EXCEPT ![c] = "closing"]
  /\ order' = Append(order, c)
  /\ UNCHANGED <<state, target, inProgress, overtaken, answeredGen, cut>>

Answer(c, what) == answer' = [answer EXCEPT ![c] = what]
Settings(values) == [values |-> values, gen |-> payload.gen, sound |-> TRUE]

\* The lock moves; or was there already, which counts as success.
Operate ==
  /\ payload.gen < MaxGen
  /\ Close(Operator)
  /\ MoveTo(target[Operator])
  /\ Answer(Operator, payload'.gen)
  /\ UNCHANGED <<config, disturbed>>

SetTo(setting) == config' = [config EXCEPT ![setting[1]] = setting[2]]

\* The lock stores a setting and reports all of them.
Write ==
  /\ Close(Writer)
  /\ SetTo(target[Writer])
  /\ Answer(Writer, Settings(config'))
  /\ UNCHANGED <<locked, payload, disturbed>>

Read ==
  /\ Close(Reader)
  /\ Answer(Reader, Settings(config))
  /\ UNCHANGED <<locked, config, payload, disturbed>>

\* The session fails, before the lock has acted or after.
Fail(c) ==
  /\ Close(c)
  /\ \/ UNCHANGED <<locked, config, payload, answer, disturbed>>
     \/ /\ c = Operator
        /\ payload.gen < MaxGen
        /\ MoveTo(target[c])
        /\ UNCHANGED <<config, answer, disturbed>>
     \/ /\ c = Writer
        /\ SetTo(target[c])
        /\ Unnoticed
        /\ UNCHANGED <<locked, payload>>

\* The disconnect of c's attempt is over and its call ends.
End(c) ==
  /\ order # <<>>
  /\ Head(order) = c
  /\ order' = Tail(order)
  /\ pc' = [pc EXCEPT ![c] = "idle"]
  /\ target' = [target EXCEPT ![c] = None]
  /\ answer' = [answer EXCEPT ![c] = None]

\* The call of c is cancelled before its session or while it disconnects (in its
\* session it fails first): what the lock answered is lost, and a write with it.
Cancel(c) ==
  /\ \/ pc[c] = "call" /\ UNCHANGED order
     \/ \E i \in 1 .. Len(order) : order[i] = c /\ order' = RemoveAt(order, i)
  /\ pc' = [pc EXCEPT ![c] = "idle"]
  /\ target' = [target EXCEPT ![c] = None]
  /\ IF c = Writer /\ answer[c] # None
     THEN /\ disturbed' = TRUE
          /\ answer' = [d \in Callers |->
                         IF d = Reader /\ answer[d] # None
                         THEN [answer[d] EXCEPT !.sound = FALSE]
                         ELSE IF d = Writer THEN None ELSE answer[d]]
     ELSE /\ answer' = [answer EXCEPT ![c] = None]
          /\ UNCHANGED disturbed
  /\ cut' = (cut \/ c = Operator)
  /\ UNCHANGED <<locked, config, payload, state, inProgress, overtaken, answeredGen>>

\* Mutant: the optimistic state is set whether or not the call succeeded.
EndLockAnyway ==
  /\ End(Operator)
  /\ inProgress' = "none"
  /\ state' = [state EXCEPT !.pending = target[Operator]]
  /\ UNCHANGED <<locked, config, payload, history>>

\* Mutant: a call that fails leaves the entity in progress.
EndLockInProgress ==
  /\ End(Operator)
  /\ IF answer[Operator] = None
     THEN UNCHANGED <<state, inProgress, overtaken>>
     ELSE /\ inProgress' = "none"
          /\ state' = [state EXCEPT !.pending = target[Operator]]
          /\ overtaken' = (state.report # None /\ state.report.gen > answer[Operator])
  /\ UNCHANGED <<locked, config, payload, answeredGen, disturbed, cut>>

\* _operate: the optimistic state, after a success.
EndLock ==
  /\ End(Operator)
  /\ inProgress' = "none"
  /\ IF answer[Operator] = None
     THEN UNCHANGED <<state, overtaken>>
     ELSE /\ state' = [state EXCEPT !.pending = target[Operator]]
          /\ overtaken' = (state.report # None /\ state.report.gen > answer[Operator])
  /\ UNCHANGED <<locked, config, payload, answeredGen, disturbed, cut>>

\* Mutant: the option asked for is shown, even when the write failed.
ApplyRequested(c) ==
  IF answer[c] = None
  THEN /\ state' = IF c = Writer
                   THEN [state EXCEPT !.values[target[c][1]] = target[c][2]] ELSE state
       /\ UNCHANGED <<answeredGen, disturbed>>
  ELSE /\ state' = ApplySettings(state, answer[c].values)
       /\ answeredGen' = answer[c].gen
       /\ disturbed' = ~answer[c].sound

\* The verified settings, if any, go to the cache.
Apply(c) ==
  IF answer[c] = None
  THEN UNCHANGED <<state, answeredGen, disturbed>>
  ELSE /\ state' = ApplySettings(state, answer[c].values)
       /\ answeredGen' = answer[c].gen
       /\ disturbed' = ~answer[c].sound

\* async_select_option after the write, _async_read_settings after the read.
EndSettings ==
  /\ \E c \in {Writer, Reader} : End(c) /\ Apply(c)
  /\ UNCHANGED <<locked, config, payload, inProgress, overtaken, cut>>

Next ==
  \/ Turn \/ Reconfigure \/ Receive
  \/ CallLock \/ CallSelect \/ CallRead
  \/ Operate \/ Write \/ Read
  \/ \E c \in Callers : Fail(c) \/ Cancel(c)
  \/ EndLock \/ EndSettings

Spec == Init /\ [][Next]_vars

-----------------------------------------------------------------------------
(* Properties.                                                             *)

\* The lock entity is behind the lock only while there is news on the air: what
\* it shows differs from the lock's position only until the newest payload is
\* received, or if a call recorded its success after a report newer than it.
OnlyLagsBehind ==
  \/ IsLocked(state) \in {None, locked}
  \/ state.report = None
  \/ state.report.gen < payload.gen
  \/ overtaken

\* The selects show the lock's settings: a known value is the lock's, unless a
\* write is still to be applied, or the cache had no way to know: another
\* authority changed it, a write that failed or was cancelled took effect, a late
\* payload zeroed it.
SettingsShownAreSet ==
  \A name \in SettingNames :
    \/ state.values[name] \in {None, config[name]}
    \/ pc[Writer] = "closing" /\ answer[Writer] # None
    \/ disturbed

\* The entity is locking or unlocking as the call in flight asks, and is neither
\* without one, unless the last call was cancelled: until the next one ends.
InProgressIsCalled ==
  IF pc[Operator] = "idle" THEN inProgress = "none" \/ cut
  ELSE inProgress = IF target[Operator] THEN "locking" ELSE "unlocking"

(* What a comment says and the code does not do.                           *)

\* "a stale flag snapshot must not zero a value written over the GATT".
StaleFlagNeverZeroes ==
  [][state'.report # state.report => ~Outdated(state, state')]_vars
=============================================================================
