------------------------ MODULE EntryLifecycleProofs ------------------------
(***************************************************************************)
(* Theorems of EntryLifecycle, for any number of loads and serials.        *)
(*                                                                         *)
(* The core is CycleInv: a cycle that runs belongs to the entry in use or  *)
(* to a manager that has been stopped.  It is what keeps the finally       *)
(* clause of _run_cycle from arming a timer of an entry that is gone; that *)
(* nothing is armed twice rests on a load under setup having no cycle.     *)
(* TodoInv relates what a cycle has tried to what it has left.             *)
(***************************************************************************)
EXTENDS EntryLifecycle, TLAPS

USE DEF InUse

\* Between setup and unload the entry has a load, not stopped until the unload.
LoadInv ==
  /\ entry # "not_loaded" => current \in Loads
  /\ entry = "setup" \/ InUse => current \notin stopped

CycleInv ==
  \A l \in cycling : l \in stopped \/ (l = current /\ InUse)

TodoInv == \A l \in cycling : tried[l] \cup todo[l] = devices[l]

IInv ==
  /\ TypeOK
  /\ NothingOutlivesTheEntry
  /\ OneRefreshChain
  /\ LoadInv
  /\ CycleInv
  /\ TodoInv
  /\ OptionsInForce

-----------------------------------------------------------------------------

\* Before the first setup nothing runs.
LEMMA InitInv == Init => IInv
<1> SUFFICES ASSUME Init PROVE IInv
  OBVIOUS
<1>1. reload \in BOOLEAN /\ reauth \in BOOLEAN
  BY Zenon DEF Init
<1>2. TypeOK
  BY <1>1 DEF Init, TypeOK
<1> QED
  BY <1>2 DEF Init, IInv, NothingOutlivesTheEntry, OneRefreshChain, LoadInv, CycleInv,
              TodoInv, OptionsInForce

\* Whatever is stored, the refresh period is a number of hours.
LEMMA HoursInv == \A o \in Options : option_refresh_hours(o) \in Nat
<1> SUFFICES ASSUME NEW o \in Options PROVE option_refresh_hours(o) \in Nat
  OBVIOUS
<1>1. /\ o.hours # None => o.hours \in Nat
      /\ o.minutes # None => o.minutes \in Nat
  BY HoursAssumption DEF Options
<1>2. \A m \in Nat : m \div 60 \in Nat
  OBVIOUS
<1> QED
  BY <1>1, <1>2, HoursAssumption, Zenon DEF option_refresh_hours

\* A load begins with a name no running cycle uses; the cycles that run belong
\* to managers that have been stopped.
LEMMA BeginSetupInv == IInv /\ BeginSetup => IInv'
<1> SUFFICES ASSUME IInv, BeginSetup PROVE IInv'
  OBVIOUS
<1>1. PICK l \in Loads \ cycling :
        /\ current' = l
        /\ open' = open \cup {l}
        /\ stopped' = stopped \ {l}
        /\ broken' = broken \ {l}
        /\ tried' = [tried EXCEPT ![l] = {}]
        /\ period' = [period EXCEPT ![l] = 0]
        /\ \E account \in SUBSET Serials : devices' = [devices EXCEPT ![l] = account]
  BY DEF BeginSetup
<1>2. PICK account \in SUBSET Serials : devices' = [devices EXCEPT ![l] = account]
  BY <1>1
<1>3. /\ entry = "not_loaded" /\ entry' = "setup" /\ fetched' = {}
      /\ UNCHANGED <<options, reload, listening, armed, cycling, todo, busy, connected,
                     reauth>>
  BY DEF BeginSetup
<1>4. TypeOK'
  <2>1. devices' \in [Loads -> SUBSET Serials] /\ tried' \in [Loads -> SUBSET Serials]
    BY <1>1, <1>2 DEF IInv, TypeOK
  <2>2. options' \in Options /\ period' \in [Loads -> Nat]
    BY <1>1, <1>3 DEF IInv, TypeOK
  <2>3. reauth' \in BOOLEAN /\ reload' \in BOOLEAN
    BY <1>3, Zenon DEF IInv, TypeOK
  <2> QED
    BY <1>1, <1>3, <2>1, <2>2, <2>3 DEF IInv, TypeOK
<1>5. NothingOutlivesTheEntry' /\ OneRefreshChain'
  BY <1>1, <1>3 DEF IInv, NothingOutlivesTheEntry, OneRefreshChain
<1>6. LoadInv' /\ CycleInv' /\ OptionsInForce'
  BY <1>1, <1>3 DEF IInv, LoadInv, CycleInv, OptionsInForce
<1>7. TodoInv'
  BY <1>1, <1>2, <1>3 DEF IInv, TypeOK, TodoInv
<1> QED
  BY <1>4, <1>5, <1>6, <1>7 DEF IInv

\* The rest of the setup, and the user: no cycle begins or ends.
LEMMA SetupInv ==
  IInv /\ ((\E s \in Serials : FetchKey(s)) \/ SetupFails \/ FinishSetup \/ ChangeOptions
          \/ Reauthenticate)
    => IInv'
<1> SUFFICES ASSUME IInv PROVE
      /\ (\E s \in Serials : FetchKey(s)) => IInv'
      /\ SetupFails => IInv'
      /\ FinishSetup => IInv'
      /\ ChangeOptions => IInv'
      /\ Reauthenticate => IInv'
  OBVIOUS
<1> USE DEF IInv, cycles
<1>1. ASSUME NEW s \in Serials, FetchKey(s) PROVE IInv'
  <2>1. /\ fetched' = fetched \cup {s} /\ s \in devices[current]
        /\ UNCHANGED <<entry, current, devices, options, reload, period, open, listening, armed, stopped,
                       cycling, todo, busy, tried, broken, connected, reauth>>
    BY <1>1 DEF FetchKey
  <2>2. current # None
    BY <1>1, NoneAssumption DEF LoadInv, FetchKey
  <2>3. fetched' \in SUBSET (IF current' = None THEN {} ELSE devices'[current'])
    BY <2>1, <2>2 DEF TypeOK
  <2>4. TypeOK'
    BY <2>1, <2>3 DEF TypeOK
  <2> QED
    BY <1>1, <2>4
       DEF FetchKey, NothingOutlivesTheEntry, OneRefreshChain, LoadInv, CycleInv, TodoInv,
           OptionsInForce
<1>2. ASSUME SetupFails PROVE IInv'
  <2>1. TypeOK'
    BY <1>2 DEF TypeOK, SetupFails
  <2> QED
    BY <1>2, <2>1
       DEF SetupFails, NothingOutlivesTheEntry, OneRefreshChain, LoadInv, CycleInv, TodoInv,
           OptionsInForce
<1>3. ASSUME FinishSetup PROVE IInv'
  <2>1. current \in Loads /\ current \notin cycling
    BY <1>3 DEF FinishSetup, LoadInv, CycleInv
  <2>2. /\ entry' = "loaded" /\ fetched = devices[current]
        /\ UNCHANGED <<current, devices, options, reload, fetched, open, stopped, cycling,
                       todo, busy, tried, broken, connected, reauth>>
    BY <1>3 DEF FinishSetup
  <2>3. reload' \in BOOLEAN /\ reauth' \in BOOLEAN
    BY <2>2, Zenon DEF TypeOK
  <2>4. CASE fetched # {}
    <3>1. listening' = listening \cup {current} /\ StartManager(current)
      BY <1>3, <2>4 DEF FinishSetup
    <3>2. option_refresh_hours(options) \in Nat
      BY HoursInv DEF TypeOK
    <3>3. period' \in [Loads -> Nat] /\ period'[current] = option_refresh_hours(options)
      BY <2>1, <3>1, <3>2 DEF TypeOK, StartManager
    <3>4. armed' \in SUBSET Loads /\ armed' \subseteq armed \cup {current}
      BY <2>1, <3>1 DEF TypeOK, StartManager
    <3>5. TypeOK'
      BY <2>1, <2>2, <2>3, <3>1, <3>3, <3>4 DEF TypeOK
    <3>6. OptionsInForce'
      BY <2>2, <3>3 DEF OptionsInForce, option_refresh_hours
    <3>7. OneRefreshChain'
      BY <2>1, <2>2, <3>1, <3>3, <3>4 DEF OneRefreshChain, StartManager
    <3>8. NothingOutlivesTheEntry' /\ LoadInv'
      BY <2>1, <2>2, <3>1, <3>4, <1>3 DEF FinishSetup, NothingOutlivesTheEntry, LoadInv
    <3>9. CycleInv' /\ TodoInv'
      BY <2>1, <2>2, <1>3 DEF FinishSetup, CycleInv, TodoInv
    <3> QED
      BY <3>5, <3>6, <3>7, <3>8, <3>9
  <2>5. CASE fetched = {}
    <3>1. UNCHANGED <<listening, period, armed>>
      BY <1>3, <2>5 DEF FinishSetup
    <3>2. TypeOK'
      BY <2>2, <2>3, <3>1 DEF TypeOK
    <3> QED
      BY <2>1, <2>2, <2>5, <3>1, <3>2, <1>3
         DEF FinishSetup, NothingOutlivesTheEntry, OneRefreshChain, LoadInv, CycleInv, TodoInv,
             OptionsInForce
  <2> QED
    BY <2>4, <2>5
<1>5. ASSUME ChangeOptions PROVE IInv'
  <2>1. options' \in Options
    BY <1>5 DEF ChangeOptions, Options
  <2>2. UNCHANGED <<entry, current, devices, period, fetched, open, listening, armed,
                    stopped, cycling, todo, busy, tried, broken, connected, reauth>>
    BY <1>5 DEF ChangeOptions
  <2>3. reload' \in BOOLEAN /\ reauth' \in BOOLEAN /\ (entry = "loaded" => reload')
    BY <1>5, <2>2, Zenon DEF ChangeOptions, TypeOK
  <2>4. TypeOK'
    BY <2>1, <2>2, <2>3 DEF TypeOK
  <2> QED
    BY <2>2, <2>3, <2>4
       DEF NothingOutlivesTheEntry, OneRefreshChain, LoadInv, CycleInv, TodoInv, OptionsInForce
<1>4. ASSUME Reauthenticate PROVE IInv'
  <2>1. TypeOK'
    BY <1>4 DEF TypeOK, Reauthenticate
  <2> QED
    BY <1>4, <2>1
       DEF Reauthenticate, NothingOutlivesTheEntry, OneRefreshChain, LoadInv, CycleInv, TodoInv,
           OptionsInForce
<1> QED
  BY <1>1, <1>2, <1>3, <1>4, <1>5

\* A timer becomes a cycle: only the loaded entry has one.
LEMMA TimerFiresInv == ASSUME NEW l \in Loads, IInv, TimerFires(l) PROVE IInv'
<1> USE DEF IInv, TimerFires
<1>1. TypeOK'
  BY DEF TypeOK
<1>2. NothingOutlivesTheEntry' /\ OneRefreshChain'
  BY DEF NothingOutlivesTheEntry, OneRefreshChain
<1>3. LoadInv' /\ CycleInv' /\ OptionsInForce'
  BY DEF NothingOutlivesTheEntry, LoadInv, CycleInv, OptionsInForce
<1>4. TodoInv'
  BY DEF TypeOK, TodoInv
<1> QED
  BY <1>1, <1>2, <1>3, <1>4

\* A cycle takes the next serial, or is done with it.
LEMMA RefreshInv ==
  ASSUME NEW l \in Loads, IInv, RefreshNext(l) \/ RefreshEnds(l) PROVE IInv'
<1> USE DEF IInv
<1>1. CASE RefreshNext(l)
  <2>1. PICK s \in todo[l] :
          /\ busy' = [busy EXCEPT ![l] = s]
          /\ todo' = [todo EXCEPT ![l] = @ \ {s}]
          /\ tried' = [tried EXCEPT ![l] = @ \cup {s}]
    BY <1>1 DEF RefreshNext
  <2>2. UNCHANGED <<entry, current, devices, options, reload, period, fetched, open, listening, armed,
                    stopped, cycling, broken, connected, reauth>>
    BY <1>1 DEF RefreshNext
  <2>3. s \in Serials
    BY <2>1 DEF TypeOK
  <2>4. TypeOK'
    BY <2>1, <2>2, <2>3 DEF TypeOK
  <2>5. TodoInv'
    BY <2>1, <2>2 DEF TypeOK, TodoInv
  <2> QED
    BY <2>2, <2>4, <2>5
       DEF NothingOutlivesTheEntry, OneRefreshChain, LoadInv, CycleInv, OptionsInForce
<1>2. CASE RefreshEnds(l)
  <2>1. TypeOK'
    BY <1>2 DEF TypeOK, RefreshEnds
  <2> QED
    BY <1>2, <2>1
       DEF RefreshEnds, NothingOutlivesTheEntry, OneRefreshChain, LoadInv, CycleInv, TodoInv,
           OptionsInForce
<1> QED
  BY <1>1, <1>2

\* A cycle ends: it arms a timer only if its manager was not stopped, which
\* makes it one of the loaded entry.
LEMMA LeaveInv ==
  ASSUME NEW l \in Loads, IInv, l \in cycling, LeaveCycle(l),
         UNCHANGED <<entry, current, devices, options, reload, period, fetched, open, listening, stopped,
                     tried, connected, reauth>>,
         broken' \in SUBSET Loads
  PROVE  IInv'
<1> USE DEF IInv, LeaveCycle
<1>1. TypeOK'
  BY DEF TypeOK
<1>2. NothingOutlivesTheEntry'
  BY DEF NothingOutlivesTheEntry, CycleInv
<1>3. OneRefreshChain'
  BY DEF OneRefreshChain, LoadInv, TypeOK
<1>4. LoadInv' /\ CycleInv' /\ OptionsInForce'
  BY DEF LoadInv, CycleInv, OptionsInForce
<1>5. TodoInv'
  BY DEF TypeOK, TodoInv
<1> QED
  BY <1>1, <1>2, <1>3, <1>4, <1>5

\* The unload stops what the load has started.
LEMMA UnloadInv ==
  IInv /\ (BeginUnload \/ UnloadFails \/ (\E s \in Serials : DisconnectControl(s)) \/ FinishUnload) => IInv'
<1> SUFFICES ASSUME IInv PROVE
      /\ BeginUnload => IInv'
      /\ UnloadFails => IInv'
      /\ (\E s \in Serials : DisconnectControl(s)) => IInv'
      /\ FinishUnload => IInv'
  OBVIOUS
<1> USE DEF IInv, cycles
<1>1. ASSUME BeginUnload PROVE IInv'
  <2>1. current \in Loads
    BY <1>1 DEF LoadInv, BeginUnload
  <2>2. TypeOK'
    BY <1>1, <2>1 DEF TypeOK, BeginUnload, StopManager
  <2> QED
    BY <1>1, <2>1, <2>2
       DEF BeginUnload, StopManager, NothingOutlivesTheEntry, OneRefreshChain, LoadInv,
           CycleInv, TodoInv, OptionsInForce
<1>4. ASSUME UnloadFails PROVE IInv'
  <2>1. TypeOK'
    BY <1>4 DEF TypeOK, UnloadFails
  <2> QED
    BY <1>4, <2>1
       DEF UnloadFails, NothingOutlivesTheEntry, OneRefreshChain, LoadInv, CycleInv, TodoInv,
           OptionsInForce
<1>2. ASSUME NEW s \in Serials, DisconnectControl(s) PROVE IInv'
  <2>1. TypeOK'
    BY <1>2 DEF TypeOK, DisconnectControl
  <2> QED
    BY <1>2, <2>1
       DEF DisconnectControl, NothingOutlivesTheEntry, OneRefreshChain, LoadInv, CycleInv, TodoInv,
           OptionsInForce
<1>3. ASSUME FinishUnload PROVE IInv'
  <2>1. TypeOK'
    BY <1>3 DEF TypeOK, FinishUnload
  <2> QED
    BY <1>3, <2>1
       DEF FinishUnload, NothingOutlivesTheEntry, OneRefreshChain, LoadInv, CycleInv, TodoInv,
           OptionsInForce
<1> QED
  BY <1>1, <1>2, <1>3, <1>4

\* A step of a cycle keeps the invariant,
LEMMA CycleStepInv == ASSUME NEW l \in Loads, IInv, CycleStep(l) PROVE IInv'
<1>1. CASE EndCycle(l) \/ AbortCycle(l)
  <2>1. broken' \in SUBSET Loads
    BY <1>1 DEF EndCycle, AbortCycle, IInv, TypeOK
  <2> QED
    BY <1>1, <2>1, LeaveInv DEF EndCycle, AbortCycle
<1> QED
  BY <1>1, RefreshInv DEF CycleStep

\* ... doing nothing does,
LEMMA StutterInv == IInv /\ UNCHANGED vars => IInv'
BY DEF vars, cycles, IInv, TypeOK, NothingOutlivesTheEntry, OneRefreshChain, LoadInv,
       CycleInv, TodoInv, OptionsInForce

\* ... and so does every step.
LEMMA StepInv == IInv /\ [Next]_vars => IInv'
BY BeginSetupInv, SetupInv, TimerFiresInv, CycleStepInv, UnloadInv, StutterInv DEF Next

\* IInv is an invariant of every behaviour.
THEOREM Invariance == Spec => []IInv
BY InitInv, StepInv, PTL DEF Spec

-----------------------------------------------------------------------------

\* The state of the entry and its loads is well typed; in particular only keys
\* of supported devices are fetched.
THEOREM TypeCorrect == Spec => []TypeOK
<1>1. IInv => TypeOK
  BY DEF IInv
<1> QED
  BY <1>1, Invariance, PTL

\* No timer, listener or client outlives the load that started it, although
\* cycles of any number of unloaded managers may still run.
THEOREM NothingIsLeft == Spec => []NothingOutlivesTheEntry
<1>1. IInv => NothingOutlivesTheEntry
  BY DEF IInv
<1> QED
  BY <1>1, Invariance, PTL

\* No manager ever runs two background cycles, and that of a loaded entry with devices
\* is always in one or waits for the next: no failure ends the refresh.
THEOREM RefreshIsOneChain == Spec => []OneRefreshChain
<1>1. IInv => OneRefreshChain
  BY DEF IInv
<1> QED
  BY <1>1, Invariance, PTL

\* Whenever the options are changed, a loaded entry with devices refreshes in the
\* period they ask for, or its update listener has a reload to carry out.
THEOREM OptionsAreInForce == Spec => []OptionsInForce
<1>1. IInv => OptionsInForce
  BY DEF IInv
<1> QED
  BY <1>1, Invariance, PTL

\* A cycle that is not aborted has tried every serial when it ends, whatever failed
\* on the way.
THEOREM EverySerialIsTried == Spec => CycleTriesAll
<1>1. ASSUME IInv, [Next]_vars, NEW l \in cycling \ cycling', l \notin broken'
      PROVE  tried[l] = devices[l]
  <2>1. PICK k \in Loads : EndCycle(k) \/ AbortCycle(k)
    BY <1>1 DEF Next, CycleStep, vars, cycles, BeginSetup, SetupFails, FinishSetup,
                ChangeOptions, FetchKey, DisconnectControl, TimerFires, RefreshNext, RefreshEnds,
                BeginUnload, UnloadFails, FinishUnload, Reauthenticate
  <2>2. k = l
    BY <1>1, <2>1 DEF EndCycle, AbortCycle, LeaveCycle
  <2>3. EndCycle(l)
    BY <1>1, <2>1, <2>2 DEF AbortCycle
  <2> QED
    BY <1>1, <2>3 DEF IInv, TodoInv, EndCycle
<1>2. IInv /\ [Next]_vars
        => [\A l \in cycling \ cycling' : l \notin broken' => tried[l] = devices[l]]_vars
  BY <1>1
<1> QED
  BY <1>2, Invariance, PTL DEF Spec, CycleTriesAll

-----------------------------------------------------------------------------
(* The background refresh implements PeriodicTask.                         *)

\* Whether a load wants cycles, as RefreshIsPeriodic takes it from the entry.
Wanted(l) == /\ l = current /\ InUse
             /\ devices[l] # {} /\ period[l] > 0

\* A manager that has a timer, or will arm one, has a period and keys to refresh.
PeriodInv ==
  \A l \in Loads : l \in armed \/ l \in cycling \ stopped => devices[l] # {} /\ period[l] > 0

\* The next cycle of a load is due, or one runs, exactly while the load wants cycles;
\* one that it does not want any more belongs to a stopped manager.
Schedule ==
  \A l \in Loads :
    /\ l \in armed => Wanted(l) /\ l \notin cycling
    /\ Wanted(l) => l \in armed \cup cycling
    /\ l \in cycling => (Wanted(l) <=> l \notin stopped)

LEMMA ScheduleFacts == IInv /\ PeriodInv => Schedule
<1> SUFFICES ASSUME IInv, PeriodInv, NEW l \in Loads
             PROVE  /\ l \in armed => Wanted(l) /\ l \notin cycling
                    /\ Wanted(l) => l \in armed \cup cycling
                    /\ l \in cycling => (Wanted(l) <=> l \notin stopped)
  BY DEF Schedule
<1>1. l \in armed => Wanted(l) /\ l \notin cycling
  BY DEF IInv, NothingOutlivesTheEntry, OneRefreshChain, PeriodInv, Wanted
<1>2. Wanted(l) => l \in armed \cup cycling
  BY DEF IInv, OneRefreshChain, Wanted
<1>3. l \in cycling => (Wanted(l) <=> l \notin stopped)
  BY DEF IInv, CycleInv, LoadInv, PeriodInv, Wanted
<1> QED
  BY <1>1, <1>2, <1>3

\* A timer is armed by a setup that has found devices and a period, and by a cycle
\* whose manager had both.
LEMMA PeriodStep == IInv /\ PeriodInv /\ [Next]_vars => PeriodInv'
<1> SUFFICES ASSUME IInv, PeriodInv, [Next]_vars PROVE PeriodInv'
  OBVIOUS
<1> USE DEF PeriodInv
<1>1. CASE BeginSetup
  <2>1. PICK l \in Loads \ cycling :
          /\ stopped' = stopped \ {l}
          /\ period' = [period EXCEPT ![l] = 0]
          /\ \E account \in SUBSET Serials : devices' = [devices EXCEPT ![l] = account]
    BY <1>1 DEF BeginSetup
  <2>2. armed' = armed /\ cycling' = cycling /\ armed = {}
    BY <1>1 DEF BeginSetup, IInv, NothingOutlivesTheEntry, TypeOK
  <2> QED
    BY <2>1, <2>2 DEF IInv, TypeOK
<1>2. CASE FinishSetup
  <2>1. current \in Loads /\ UNCHANGED <<devices, stopped, cycling>>
    BY <1>2 DEF FinishSetup, IInv, LoadInv, cycles
  <2>2. CASE devices[current] # {} /\ StartManager(current)
    <3>1. /\ period' = [period EXCEPT ![current] = option_refresh_hours(options)]
          /\ armed' = IF option_refresh_hours(options) > 0 THEN armed \cup {current}
                      ELSE armed
      BY <2>2 DEF StartManager
    <3>2. armed = {} /\ current \notin cycling
      BY <1>2 DEF FinishSetup, IInv, NothingOutlivesTheEntry, TypeOK, LoadInv, CycleInv
    <3> QED
      BY <2>1, <2>2, <3>1, <3>2 DEF IInv, TypeOK
  <2>3. CASE UNCHANGED <<period, armed>>
    BY <2>1, <2>3
  <2> QED
    BY <1>2, <2>2, <2>3 DEF FinishSetup
<1>3. ASSUME NEW l \in Loads, TimerFires(l)
      PROVE  PeriodInv'
  BY <1>3 DEF TimerFires
<1>4. ASSUME NEW l \in Loads, EndCycle(l) \/ AbortCycle(l)
      PROVE  PeriodInv'
  BY <1>4 DEF EndCycle, AbortCycle, LeaveCycle
<1>5. CASE BeginUnload
  BY <1>5 DEF BeginUnload, StopManager, cycles
<1>6. CASE \/ SetupFails \/ ChangeOptions \/ UnloadFails \/ FinishUnload \/ Reauthenticate
           \/ (\E s \in Serials : FetchKey(s) \/ DisconnectControl(s))
           \/ (\E l \in Loads : RefreshNext(l) \/ RefreshEnds(l))
           \/ UNCHANGED vars
  <2>1. UNCHANGED <<devices, period, armed, cycling, stopped>>
    BY <1>6 DEF SetupFails, ChangeOptions, UnloadFails, FinishUnload, Reauthenticate, FetchKey,
                DisconnectControl, RefreshNext, RefreshEnds, vars, cycles
  <2> QED
    BY <2>1
<1> QED
  BY <1>1, <1>2, <1>3, <1>4, <1>5, <1>6 DEF Next, CycleStep

\* The steps of PeriodicTask, in terms of the entry.
LEMMA StartRefresh ==
  ASSUME NEW l \in Loads, ~Wanted(l), l \notin cycling, Wanted(l)',
         \A k \in Loads \ {l} : Wanted(k)' <=> Wanted(k),
         armed' = armed \cup {l}, cycling' = cycling
  PROVE  Refresh!Next
<1>1. Refresh!Start(l)
  BY DEF Refresh!Start, Wanted
<1> QED
  BY <1>1 DEF Refresh!Next

LEMMA BeginRefresh ==
  ASSUME NEW l \in Loads, Wanted(l), l \notin cycling,
         armed' = armed \ {l}, cycling' = cycling \cup {l},
         UNCHANGED <<entry, current, devices, period>>
  PROVE  Refresh!Next
<1>1. \E r \in Loads : [k \in Loads |-> {k} \cap cycling']
                         = [[k \in Loads |-> {k} \cap cycling] EXCEPT ![l] = {r}]
  BY Zenon
<1>2. Refresh!Begin(l)
  BY <1>1 DEF Refresh!Begin, Wanted
<1> QED
  BY <1>2 DEF Refresh!Next

LEMMA EndRefresh ==
  ASSUME NEW l \in Loads, l \in cycling, l \notin armed, cycling' = cycling \ {l},
         armed' = IF Wanted(l) THEN armed \cup {l} ELSE armed,
         UNCHANGED <<entry, current, devices, period>>
  PROVE  Refresh!Next
<1>1. Refresh!End(l)
  BY DEF Refresh!End, Wanted
<1> QED
  BY <1>1 DEF Refresh!Next

LEMMA StopRefresh ==
  ASSUME NEW l \in Loads, Wanted(l), ~Wanted(l)',
         \A k \in Loads \ {l} : Wanted(k)' <=> Wanted(k),
         armed' = armed \ {l}, cycling' = cycling
  PROVE  Refresh!Next
<1>1. Refresh!Stop(l)
  BY DEF Refresh!Stop, Wanted
<1> QED
  BY <1>1 DEF Refresh!Next

LEMMA KeepRefresh ==
  ASSUME \A l \in Loads : Wanted(l)' <=> Wanted(l), armed' = armed, cycling' = cycling
  PROVE  UNCHANGED Refresh!vars
BY DEF Refresh!vars, Wanted

\* Every step of the entry is one of PeriodicTask for a load, or none.
LEMMA StepSchedule ==
  ASSUME IInv, Schedule, [Next]_vars
  PROVE  [Refresh!Next]_(Refresh!vars)
<1>1. CASE BeginSetup \/ SetupFails \/ FinishUnload
  <2>1. ~InUse /\ ~InUse' /\ armed' = armed /\ cycling' = cycling
    BY <1>1 DEF BeginSetup, SetupFails, FinishUnload, cycles
  <2> QED
    BY <2>1, KeepRefresh DEF Wanted
<1>2. CASE FinishSetup
  <2>1. /\ current \in Loads /\ current \notin cycling /\ ~InUse
        /\ entry' = "loaded" /\ UNCHANGED <<current, devices, cycling>>
        /\ current \notin armed
    BY <1>2 DEF FinishSetup, cycles, IInv, LoadInv, CycleInv, NothingOutlivesTheEntry
  <2>2. \A l \in Loads \ {current} : Wanted(l)' <=> Wanted(l)
    BY <2>1 DEF Wanted
  <2>3. ~Wanted(current)
    BY <2>1 DEF Wanted
  <2>4. CASE Wanted(current)'
    <3>1. devices[current] # {} /\ period'[current] > 0
      BY <2>1, <2>4 DEF Wanted
    <3>2. StartManager(current)
      BY <1>2, <3>1 DEF FinishSetup
    <3>3. armed' = armed \cup {current}
      BY <2>1, <3>1, <3>2 DEF StartManager, IInv, TypeOK
    <3> QED
      BY <2>1, <2>2, <2>3, <2>4, <3>3, StartRefresh
  <2>5. CASE ~Wanted(current)'
    <3>1. ASSUME fetched # {} PROVE armed' = armed
      <4>1. StartManager(current) /\ ~(period'[current] > 0)
        BY <1>2, <2>1, <2>5, <3>1 DEF FinishSetup, Wanted
      <4> QED
        BY <2>1, <4>1 DEF StartManager, IInv, TypeOK
    <3>2. ASSUME fetched = {} PROVE armed' = armed
      BY <1>2, <3>2 DEF FinishSetup
    <3>3. armed' = armed
      BY <3>1, <3>2
    <3> QED
      BY <2>1, <2>2, <2>3, <2>5, <3>3, KeepRefresh
  <2> QED
    BY <2>4, <2>5
<1>3. ASSUME NEW l \in Loads, TimerFires(l)
      PROVE  Refresh!Next
  BY <1>3, BeginRefresh DEF TimerFires, Schedule
<1>4. ASSUME NEW l \in Loads, EndCycle(l) \/ AbortCycle(l)
      PROVE  Refresh!Next
  <2>1. /\ l \in cycling /\ LeaveCycle(l)
        /\ UNCHANGED <<entry, current, devices, period, stopped>>
    BY <1>4 DEF EndCycle, AbortCycle
  <2>2. l \notin armed /\ (Wanted(l) <=> l \notin stopped)
    BY <2>1 DEF Schedule
  <2>3. armed' = IF Wanted(l) THEN armed \cup {l} ELSE armed
    BY <2>1, <2>2 DEF LeaveCycle, Wanted
  <2> QED
    BY <2>1, <2>2, <2>3, EndRefresh DEF LeaveCycle
<1>5. CASE BeginUnload
  <2>1. /\ current \in Loads /\ ~InUse' /\ current' = current
        /\ armed' = armed \ {current} /\ cycling' = cycling
    BY <1>5 DEF BeginUnload, StopManager, cycles, IInv, LoadInv
  <2>2. /\ ~Wanted(current)'
        /\ \A l \in Loads \ {current} : Wanted(l)' <=> Wanted(l)
    BY <2>1 DEF Wanted
  <2>3. CASE Wanted(current)
    BY <2>1, <2>2, <2>3, StopRefresh
  <2>4. CASE ~Wanted(current)
    <3>1. armed' = armed
      BY <2>1, <2>4 DEF Schedule
    <3> QED
      BY <2>1, <2>2, <2>4, <3>1, KeepRefresh
  <2> QED
    BY <2>3, <2>4
<1>6. CASE \/ ChangeOptions \/ Reauthenticate
           \/ (\E s \in Serials : FetchKey(s) \/ DisconnectControl(s))
           \/ (\E l \in Loads : RefreshNext(l) \/ RefreshEnds(l))
           \/ UNCHANGED vars
  <2>1. UNCHANGED <<entry, current, devices, period, armed, cycling>>
    BY <1>6 DEF ChangeOptions, Reauthenticate, FetchKey, DisconnectControl, RefreshNext,
                RefreshEnds, vars, cycles
  <2> QED
    BY <2>1, KeepRefresh DEF Wanted
<1>7. CASE UnloadFails
  <2>1. InUse /\ InUse' /\ UNCHANGED <<current, devices, period, armed, cycling>>
    BY <1>7 DEF UnloadFails, cycles
  <2> QED
    BY <2>1, KeepRefresh DEF Wanted
<1> QED
  BY <1>1, <1>2, <1>3, <1>4, <1>5, <1>6, <1>7 DEF Next, CycleStep

\* Before the first setup nothing is due.
LEMMA InitRefresh == Init => Refresh!Init /\ PeriodInv
BY DEF Init, Refresh!Init, PeriodInv

\* The background refresh is a periodic task of every load that has found devices and
\* a period: refresh_all never runs twice at once for one manager, each cycle is
\* followed by the next whatever failed, and none by the unload.
THEOREM RefreshImplementsPeriodicTask == Spec => RefreshIsPeriodic
<1>1. Spec => [](IInv /\ PeriodInv)
  BY InitInv, InitRefresh, StepInv, PeriodStep, PTL DEF Spec
<1>2. IInv /\ PeriodInv /\ [Next]_vars => [Refresh!Next]_(Refresh!vars)
  BY ScheduleFacts, StepSchedule
<1> QED
  BY <1>1, <1>2, InitRefresh, PTL DEF Spec, RefreshIsPeriodic, Refresh!Spec
=============================================================================
