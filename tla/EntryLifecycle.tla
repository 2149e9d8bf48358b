--------------------------- MODULE EntryLifecycle ---------------------------
(***************************************************************************)
(* A config entry from setup to unload and reload (__init__.py) and the    *)
(* background cycle that refreshes all its keys (keymanager.py).           *)
(*                                                                         *)
(* Every load of the entry builds a client, a monitor, controls and a key  *)
(* manager of its own; a cycle of an unloaded manager may still run while  *)
(* the entry is loaded again.  Home Assistant sets up and unloads an entry *)
(* one after the other.  What a refresh does to the key of a serial is     *)
(* DanalockControl's subject.  Of the options it is the refresh period     *)
(* that is followed.  The number of Loads bounds how many cycles of        *)
(* earlier loads may still run.                                            *)
(***************************************************************************)
EXTENDS Naturals, FiniteSets

CONSTANTS Loads,    \* names for loads of the entry, reused when a load has left no trace
          Serials,  \* supported devices the account may have
          Hours,    \* refresh periods the options flow accepts
          Minutes,  \* legacy refresh periods that may still be stored
          Default,  \* DEFAULT_REFRESH_PERIOD_HOURS
          None      \* no load, no serial, an option that is not stored

ASSUME NoneAssumption == None \notin Loads \cup Serials \cup Hours \cup Minutes
ASSUME HoursAssumption == Hours \subseteq Nat /\ Minutes \subseteq Nat /\ Default \in Nat

VARIABLES entry,      \* where the entry is between setup and unload
          current,    \* the last load
          devices,    \* serials of a load: the keys of its shared cache
          options,    \* the stored options
          reload,     \* whether their update listener has a reload to carry out
          period,     \* the refresh period of a load's manager (_period)
          fetched,    \* keys the running setup has fetched
          open,       \* loads whose cloud client is open
          listening,  \* loads whose monitor has started and not stopped
          armed,      \* loads whose manager has a timer (_cancel_timer)
          stopped,    \* loads whose manager has been stopped (_stopped)
          cycling,    \* loads whose _run_cycle runs
          todo,       \* serials the cycle of a load has not tried
          busy,       \* the serial the cycle of a load refreshes
          connected,  \* controls the running unload has not disconnected
          reauth,     \* whether a reauthentication has been asked for
          tried,      \* history: serials the last cycle of a load has tried
          broken      \* history: loads whose last cycle has been aborted

cycles == <<cycling, todo, busy, tried, broken>>
vars == <<entry, current, devices, options, reload, period, fetched, open, listening,
          armed, stopped, cycles, connected, reauth>>

Options == [hours: Hours \cup {None}, minutes: Minutes \cup {None}]

\* Hours win, legacy minutes are converted, without either the default applies.
option_refresh_hours(o) ==
  IF o.hours # None THEN o.hours
  ELSE IF o.minutes # None THEN o.minutes \div 60
  ELSE Default

TypeOK ==
  /\ entry \in {"not_loaded", "setup", "loaded", "failed_unload", "unloading"}
  /\ current \in Loads \cup {None}
  /\ devices \in [Loads -> SUBSET Serials]
  /\ options \in Options
  /\ reload \in BOOLEAN
  /\ period \in [Loads -> Nat]
  /\ fetched \in SUBSET (IF current = None THEN {} ELSE devices[current])
  /\ open \in SUBSET Loads
  /\ listening \in SUBSET Loads
  /\ armed \in SUBSET Loads
  /\ stopped \in SUBSET Loads
  /\ cycling \in SUBSET Loads
  /\ todo \in [Loads -> SUBSET Serials]
  /\ busy \in [Loads -> Serials \cup {None}]
  /\ connected \in SUBSET Serials
  /\ reauth \in BOOLEAN
  /\ tried \in [Loads -> SUBSET Serials]
  /\ broken \in SUBSET Loads

Init ==
  /\ entry = "not_loaded"
  /\ current = None
  /\ devices = [l \in Loads |-> {}]
  /\ options \in Options
  /\ reload = FALSE
  /\ period = [l \in Loads |-> 0]
  /\ fetched = {}
  /\ open = {}
  /\ listening = {}
  /\ armed = {}
  /\ stopped = {}
  /\ cycling = {}
  /\ todo = [l \in Loads |-> {}]
  /\ busy = [l \in Loads |-> None]
  /\ connected = {}
  /\ reauth = FALSE
  /\ tried = [l \in Loads |-> {}]
  /\ broken = {}

\* The entry is loaded, or its unload has failed and it remains in use.
InUse == entry \in {"loaded", "failed_unload"}

-----------------------------------------------------------------------------
(* Setup.                                                                  *)

\* The client is built and lists the account's devices.
BeginSetup ==
  /\ entry = "not_loaded"
  /\ entry' = "setup"
  /\ fetched' = {}
  /\ \E l \in Loads \ cycling :
       /\ current' = l
       /\ open' = open \cup {l}
       /\ stopped' = stopped \ {l}
       /\ tried' = [tried EXCEPT ![l] = {}]
       /\ broken' = broken \ {l}
       /\ period' = [period EXCEPT ![l] = 0]
       /\ \E account \in SUBSET Serials : devices' = [devices EXCEPT ![l] = account]
  /\ UNCHANGED <<options, reload, listening, armed, cycling, todo, busy, connected, reauth>>

\* Mutant: keys are fetched for unsupported devices too.
FetchKeyUnsupported(s) ==
  /\ entry = "setup"
  /\ s \notin fetched
  /\ fetched' = fetched \cup {s}
  /\ UNCHANGED <<entry, current, devices, options, reload, period, open, listening,
                 armed, stopped, cycles, connected, reauth>>

\* get_key for one more serial.
FetchKey(s) ==
  /\ entry = "setup"
  /\ s \in devices[current] \ fetched
  /\ fetched' = fetched \cup {s}
  /\ UNCHANGED <<entry, current, devices, options, reload, period, open, listening,
                 armed, stopped, cycles, connected, reauth>>

\* The device list or a key cannot be fetched: an authentication error asks the
\* user, another one is retried by Home Assistant.
SetupFails ==
  /\ entry = "setup"
  /\ entry' = "not_loaded"
  /\ open' = open \ {current}
  /\ \E auth \in BOOLEAN : reauth' = (reauth \/ auth)
  /\ UNCHANGED <<current, devices, options, reload, period, fetched, listening, armed,
                 stopped, cycles, connected>>

\* start: the period is read from the options; zero disables the cycle.
StartManager(l) ==
  LET hours == option_refresh_hours(options)
  IN /\ period' = [period EXCEPT ![l] = hours]
     /\ armed' = IF hours > 0 THEN armed \cup {l} ELSE armed

\* Monitor, controls and background cycle start if there is a device for them.
FinishSetup ==
  /\ entry = "setup"
  /\ fetched = devices[current]
  /\ entry' = "loaded"
  /\ \/ /\ fetched # {}
        /\ listening' = listening \cup {current}
        /\ StartManager(current)
     \/ /\ fetched = {}
        /\ UNCHANGED <<listening, period, armed>>
  /\ UNCHANGED <<current, devices, options, reload, fetched, open, stopped, cycles,
                 connected, reauth>>

\* Mutant: the listener is registered later.
ChangeOptionsUnheard ==
  /\ \E hours \in Hours : options' = [hours |-> hours, minutes |-> None]
  /\ options' # options
  /\ UNCHANGED <<entry, current, devices, reload, period, fetched, open, listening,
                 armed, stopped, cycles, connected, reauth>>

\* The options flow stores an hour key alone.  The update listener, registered
\* from the end of the setup to the end of the unload, reloads the entry.
ChangeOptions ==
  /\ \E hours \in Hours : options' = [hours |-> hours, minutes |-> None]
  /\ options' # options
  /\ reload' = (reload \/ entry \in {"loaded", "unloading"})
  /\ UNCHANGED <<entry, current, devices, period, fetched, open, listening, armed,
                 stopped, cycles, connected, reauth>>

-----------------------------------------------------------------------------
(* The background cycle.                                                   *)

\* Mutant: the timer is an interval that goes on by itself.
TimerFiresOn(l) ==
  /\ l \in armed
  /\ cycling' = cycling \cup {l}
  /\ todo' = [todo EXCEPT ![l] = devices[l]]
  /\ tried' = [tried EXCEPT ![l] = {}]
  /\ broken' = broken \ {l}
  /\ UNCHANGED <<entry, current, devices, options, reload, period, fetched, open,
                 listening, armed, stopped, busy, connected, reauth>>

\* The timer starts _run_cycle, which forgets it.
TimerFires(l) ==
  /\ l \in armed
  /\ armed' = armed \ {l}
  /\ cycling' = cycling \cup {l}
  /\ todo' = [todo EXCEPT ![l] = devices[l]]
  /\ tried' = [tried EXCEPT ![l] = {}]
  /\ broken' = broken \ {l}
  /\ UNCHANGED <<entry, current, devices, options, reload, period, fetched, open,
                 listening, stopped, busy, connected, reauth>>

RefreshNext(l) ==
  /\ l \in cycling
  /\ busy[l] = None
  /\ l \in open
  /\ \E s \in todo[l] :
       /\ busy' = [busy EXCEPT ![l] = s]
       /\ todo' = [todo EXCEPT ![l] = @ \ {s}]
       /\ tried' = [tried EXCEPT ![l] = @ \cup {s}]
  /\ UNCHANGED <<entry, current, devices, options, reload, period, fetched, open,
                 listening, armed, stopped, cycling, broken, connected, reauth>>

\* Mutant: a rejected account ends the loop over the serials.
RefreshEndsAtAuth(l) ==
  /\ l \in cycling
  /\ busy[l] # None
  /\ busy' = [busy EXCEPT ![l] = None]
  /\ \E auth \in BOOLEAN :
       /\ reauth' = (reauth \/ auth)
       /\ todo' = IF auth THEN [todo EXCEPT ![l] = {}] ELSE todo
  /\ UNCHANGED <<entry, current, devices, options, reload, period, fetched, open,
                 listening, armed, stopped, cycling, tried, broken, connected>>

\* The refresh of one serial succeeds, or fails with an error that refresh_all logs; an
\* authentication error asks for a reauthentication.
RefreshEnds(l) ==
  /\ l \in cycling
  /\ busy[l] # None
  /\ busy' = [busy EXCEPT ![l] = None]
  /\ \E auth \in BOOLEAN : reauth' = (reauth \/ auth)
  /\ UNCHANGED <<entry, current, devices, options, reload, period, fetched, open,
                 listening, armed, stopped, cycling, todo, tried, broken, connected>>

\* Mutants: a cycle in flight at the unload goes on; an aborted one does not.
LeaveCycleRearmed(l) ==
  /\ cycling' = cycling \ {l}
  /\ todo' = [todo EXCEPT ![l] = {}]
  /\ busy' = [busy EXCEPT ![l] = None]
  /\ armed' = IF period[l] > 0 THEN armed \cup {l} ELSE armed

LeaveCycleQuietly(l) ==
  /\ cycling' = cycling \ {l}
  /\ todo' = [todo EXCEPT ![l] = {}]
  /\ busy' = [busy EXCEPT ![l] = None]
  /\ armed' = IF period[l] > 0 /\ ~reauth /\ l \notin stopped THEN armed \cup {l} ELSE armed

\* The finally clause of _run_cycle: the next cycle, unless stop was called.
LeaveCycle(l) ==
  /\ cycling' = cycling \ {l}
  /\ todo' = [todo EXCEPT ![l] = {}]
  /\ busy' = [busy EXCEPT ![l] = None]
  /\ armed' = IF period[l] > 0 /\ l \notin stopped THEN armed \cup {l} ELSE armed

EndCycle(l) ==
  /\ l \in cycling
  /\ busy[l] = None
  /\ todo[l] = {}
  /\ LeaveCycle(l)
  /\ UNCHANGED <<entry, current, devices, options, reload, period, fetched, open,
                 listening, stopped, tried, broken, connected, reauth>>

\* A refresh raises what refresh_all does not catch, or the closed client does in the
\* next one: the cycle ends with serials untried.
AbortCycle(l) ==
  /\ l \in cycling
  /\ busy[l] # None \/ (l \notin open /\ todo[l] # {})
  /\ LeaveCycle(l)
  /\ broken' = broken \cup {l}
  /\ UNCHANGED <<entry, current, devices, options, reload, period, fetched, open,
                 listening, stopped, tried, connected, reauth>>

-----------------------------------------------------------------------------
(* Unload.                                                                 *)

\* stop: final for this manager, whose running cycle goes on.
StopManager(l) ==
  /\ stopped' = stopped \cup {l}
  /\ armed' = armed \ {l}

\* The platforms are unloaded, as a reload begins; then, without an await, monitor and manager stop.
BeginUnload ==
  /\ entry = "loaded"
  /\ entry' = "unloading"
  /\ listening' = listening \ {current}
  /\ StopManager(current)
  /\ reload' = FALSE
  /\ connected' = devices[current]
  /\ UNCHANGED <<current, devices, options, period, fetched, open, cycles, reauth>>

\* A platform cannot be unloaded: the entry remains in use with all it has started.
\* Home Assistant neither unloads nor reloads it any more.
UnloadFails ==
  /\ entry = "loaded"
  /\ entry' = "failed_unload"
  /\ reload' = FALSE
  /\ UNCHANGED <<current, devices, options, period, fetched, open, listening, armed,
                 stopped, cycles, connected, reauth>>

DisconnectControl(s) ==
  /\ entry = "unloading"
  /\ s \in connected
  /\ connected' = connected \ {s}
  /\ UNCHANGED <<entry, current, devices, options, reload, period, fetched, open,
                 listening, armed, stopped, cycles, reauth>>

FinishUnload ==
  /\ entry = "unloading"
  /\ connected = {}
  /\ entry' = "not_loaded"
  /\ open' = open \ {current}
  /\ UNCHANGED <<current, devices, options, reload, period, fetched, listening, armed,
                 stopped, cycles, connected, reauth>>

\* The user confirms the account in the reauthentication flow.
Reauthenticate ==
  /\ reauth
  /\ reauth' = FALSE
  /\ UNCHANGED <<entry, current, devices, options, reload, period, fetched, open,
                 listening, armed, stopped, cycles, connected>>

CycleStep(l) == RefreshNext(l) \/ RefreshEnds(l) \/ EndCycle(l) \/ AbortCycle(l)

Next ==
  \/ BeginSetup
  \/ SetupFails
  \/ FinishSetup
  \/ ChangeOptions
  \/ \E s \in Serials : FetchKey(s) \/ DisconnectControl(s)
  \/ \E l \in Loads : TimerFires(l) \/ CycleStep(l)
  \/ BeginUnload
  \/ UnloadFails
  \/ FinishUnload
  \/ Reauthenticate

Spec == Init /\ [][Next]_vars

\* A due timer fires; a cloud request ends, with an answer or with httpx's timeout.
FairSpec ==
  /\ Spec
  /\ \A l \in Loads : WF_vars(TimerFires(l)) /\ WF_vars(CycleStep(l))

-----------------------------------------------------------------------------
(* Properties.                                                             *)

\* What a load starts ends with it: outside an entry in use no timer is armed,
\* no monitor listens and, but for a setup or unload under way, no client is
\* open, in particular none of the loads before, whose cycles may still run.
NothingOutlivesTheEntry ==
  /\ \A l \in armed \cup listening : l = current /\ InUse
  /\ \A l \in open : l = current /\ entry # "not_loaded"

\* The entry in use has a cycle under way or a timer for the next one, however the
\* cycles end, and a manager never both: a cycle never runs twice at once.
OneRefreshChain ==
  /\ armed \cap cycling = {}
  /\ (InUse /\ devices[current] # {} /\ period[current] > 0)
       => current \in armed \cup cycling

\* The background refresh is a periodic task of each load that has devices and a
\* period: however its cycles end, the next is due, and none is when the entry is
\* unloaded, even by the end of a cycle that outlives it.
Refresh == INSTANCE PeriodicTask WITH
  Owners <- Loads,
  Runners <- Loads,
  Outlives <- FALSE,
  present <- [l \in Loads |-> /\ l = current /\ InUse
                             /\ devices[l] # {} /\ period[l] > 0],
  due <- [l \in Loads |-> IF l \in armed THEN 1 ELSE 0],
  running <- [l \in Loads |-> {l} \cap cycling],
  cut <- [l \in Loads |-> FALSE]
RefreshIsPeriodic == Refresh!Spec

\* "The remaining serials are always processed": whichever of the errors it catches
\* refresh_all meets for one serial, a cycle has tried all of them at its end,
\* unless another exception or the closed client has aborted it.
CycleTriesAll ==
  [][\A l \in cycling \ cycling' : l \notin broken' => tried[l] = devices[l]]_vars

\* A loaded entry refreshes its keys in the period its options ask for, whenever
\* they were changed while it was set up or unloaded, or a reload is to come.
OptionsInForce ==
  (entry = "loaded" /\ ~reload /\ devices[current] # {})
    => period[current] = option_refresh_hours(options)

\* The background refresh does not die: while the entry stays in use, each of its
\* keys is refreshed again and again, however many refreshes fail and cycles are
\* aborted, unless it is cycle after cycle.
KeysKeepRefreshing ==
  \A s \in Serials :
    []<>(\/ ~InUse
         \/ current \in broken
         \/ period[current] = 0
         \/ s \notin devices[current]
         \/ busy[current] = s)
=============================================================================
