------------------------ MODULE FirmwareUpdateProofs ------------------------
(***************************************************************************)
(* Theorems of FirmwareUpdate, for any number of forced checks and any     *)
(* versions: the chain of checks is one and goes on, and a check concludes *)
(* from what it has read.                                                  *)
(*                                                                         *)
(* The invariants are not inductive as they stand: that the guard          *)
(* _cycle_in_flight admits one runner needs to know that it is set exactly *)
(* while a runner is in the cycle, and that the first cycle, which forgets *)
(* the timer without cancelling it, finds none needs to know that nobody   *)
(* has finished a cycle before it begins.                                  *)
(***************************************************************************)
EXTENDS FirmwareUpdate, TLAPS

InCycle(p) == pc[p] \in {"probe", "read"}

\* _cycle_in_flight is set exactly while a runner is in the cycle.
FlagIsCycle == inFlight <=> \E p \in Runners : InCycle(p)

\* Before the first cycle begins no cycle has got past its first request, and the
\* entity has not been removed.
FirstIsFirst ==
  pc[Daily] = "created" =>
    timers = 0 /\ ~removed /\ \A p \in Runners : pc[p] # "read"

IInv ==
  /\ TypeOK
  /\ OneChain
  /\ ChainGoesOn
  /\ InstalledIsChecked
  /\ FlagIsCycle
  /\ FirstIsFirst

-----------------------------------------------------------------------------

\* The runs of the daily timer and the forced ones are runners.
LEMMA DailyRuns == Daily \in Runners /\ Forced \subseteq Runners
BY DEF Runners

\* The entity starts with no timer and its first cycle created.
LEMMA InitInv == Init => IInv
<1> SUFFICES ASSUME Init PROVE IInv
  OBVIOUS
<1> USE RunnersAssumption, VersionsAssumption
<1>1. TypeOK
  BY DEF Init, Restored, TypeOK
<1>2. OneChain /\ ChainGoesOn /\ InstalledIsChecked
  BY DailyRuns DEF Init, OneChain, ChainGoesOn, InstalledIsChecked, Runners
<1>3. FlagIsCycle /\ FirstIsFirst
  BY DailyRuns DEF Init, FlagIsCycle, FirstIsFirst, InCycle, Runners
<1> QED
  BY <1>1, <1>2, <1>3 DEF IInv

\* A runner enters the cycle or finds it taken; no timer is left either way.
LEMMA BeginInv ==
  ASSUME IInv, NEW p \in Runners, pc[p] \in {"idle", "created"}, Begin(p),
         timers' = 0, UNCHANGED <<world, entity, ended>>
  PROVE  IInv'
<1> USE RunnersAssumption, VersionsAssumption, DailyRuns DEF IInv, world, entity
<1>1. TypeOK'
  BY DEF TypeOK, Begin
<1>2. CASE inFlight
  <2>1. pc' = [pc EXCEPT ![p] = "idle"] /\ UNCHANGED <<inFlight, checked>> /\ unsub' = FALSE
    BY <1>2 DEF Begin
  <2>2. \A q \in Runners : InCycle(q)' <=> InCycle(q)
    BY <2>1 DEF TypeOK, InCycle
  <2>3. OneChain'
    BY <2>1, <2>2 DEF OneChain, InCycle
  <2>4. ChainGoesOn' /\ InstalledIsChecked'
    BY <2>1, <1>2 DEF ChainGoesOn, InstalledIsChecked
  <2>5. FlagIsCycle'
    BY <2>1, <2>2 DEF FlagIsCycle
  <2>6. FirstIsFirst'
    BY <2>1 DEF FirstIsFirst, TypeOK
  <2> QED
    BY <1>1, <2>3, <2>4, <2>5, <2>6
<1>3. CASE ~inFlight
  <2>1. /\ pc' = [pc EXCEPT ![p] = "probe"]
        /\ inFlight' = TRUE /\ checked' = None /\ unsub' = FALSE
    BY <1>3 DEF Begin
  <2>2. \A q \in Runners : ~InCycle(q)
    BY <1>3 DEF FlagIsCycle
  <2>3. \A q \in Runners : InCycle(q)' <=> q = p
    BY <2>1, <2>2 DEF TypeOK, InCycle
  <2>4. OneChain'
    BY <2>1, <2>3, <1>3 DEF OneChain, InCycle
  <2>5. ChainGoesOn' /\ InstalledIsChecked'
    BY <2>1 DEF ChainGoesOn, InstalledIsChecked
  <2>6. FlagIsCycle'
    BY <2>1, <2>3 DEF FlagIsCycle
  <2>7. FirstIsFirst'
    BY <2>1 DEF FirstIsFirst, TypeOK
  <2> QED
    BY <1>1, <2>4, <2>5, <2>6, <2>7
<1> QED
  BY <1>2, <1>3

\* Leaving the cycle keeps the types, whatever the answer was.
LEMMA FinishType ==
  ASSUME TypeOK, NEW p \in Runners, NEW how \in {"ok", "failed", "skipped"}, Finish(p, how),
         UNCHANGED world,
         installed' \in Versions \cup {None}, latest' \in Known \cup {None},
         checked' \in Versions \cup {None}
  PROVE  TypeOK'
<1>1. timers' \in Nat
  BY DEF TypeOK, Finish
<1>2. unsub' \in BOOLEAN /\ inFlight' \in BOOLEAN
  BY Zenon DEF TypeOK, Finish
<1>3. pc' \in [Runners -> {"idle", "created", "probe", "read"}]
  BY DEF TypeOK, Finish
<1>4. ended' \in {"none", "ok", "failed", "skipped", "cut"}
  BY DEF Finish
<1>5. /\ firmware' \in Versions /\ released' \in Known
      /\ removed' \in BOOLEAN /\ closed' \in BOOLEAN
  BY Zenon DEF TypeOK, world
<1> QED
  BY <1>1, <1>2, <1>3, <1>4, <1>5, Zenon DEF TypeOK

Concluded == VersionsEqual(installed, latest) \/ checked = installed

\* A runner leaves the cycle and arms the next one.
LEMMA FinishInv ==
  ASSUME IInv, NEW p \in Runners, InCycle(p), NEW how \in {"ok", "failed", "skipped"}, Finish(p, how),
         removed' = removed, pc[Daily] # "created",
         TypeOK',
         how = "ok" => Concluded'
  PROVE  IInv'
<1> USE RunnersAssumption, VersionsAssumption, DailyRuns DEF IInv
<1>1. pc' = [pc EXCEPT ![p] = "idle"] /\ inFlight' = FALSE /\ ended' = how
  BY DEF Finish
<1>2. \A q \in Runners : ~InCycle(q)'
  BY <1>1 DEF TypeOK, InCycle, OneChain
<1>3. inFlight /\ timers = 0 /\ unsub = FALSE
  BY DEF FlagIsCycle, OneChain, TypeOK
<1>4. OneChain'
  BY <1>1, <1>2, <1>3 DEF OneChain, InCycle, Finish
<1>5. ChainGoesOn' /\ InstalledIsChecked'
  BY <1>1, <1>3 DEF ChainGoesOn, InstalledIsChecked, Finish, Concluded
<1>6. FlagIsCycle' /\ FirstIsFirst'
  BY <1>1, <1>2 DEF FlagIsCycle, FirstIsFirst, TypeOK
<1> QED
  BY <1>4, <1>5, <1>6

-----------------------------------------------------------------------------

\* The three ways into the cycle find no timer left behind.
LEMMA FirstCycleInv == IInv /\ FirstCycle => IInv'
<1> SUFFICES ASSUME IInv, FirstCycle PROVE IInv'
  OBVIOUS
<1>1. timers' = 0
  BY DEF IInv, FirstIsFirst, FirstCycle
<1> QED
  BY <1>1, DailyRuns, BeginInv DEF FirstCycle

\* The daily timer keeps the invariant,
LEMMA TimerFiresInv == IInv /\ TimerFires => IInv'
<1> SUFFICES ASSUME IInv, TimerFires PROVE IInv'
  OBVIOUS
<1>1. timers' = 0
  BY DEF IInv, OneChain, TimerFires
<1> QED
  BY <1>1, DailyRuns, BeginInv DEF TimerFires

\* ... a forced check does,
LEMMA ForceCheckInv == ASSUME NEW p \in Forced, IInv, ForceCheck(p) PROVE IInv'
<1>1. timers' = 0
  BY DEF IInv, OneChain, ForceCheck
<1> QED
  BY <1>1, DailyRuns, BeginInv DEF ForceCheck

\* An answer or a failure of the probe or of the read.
LEMMA CycleStepInv == ASSUME NEW p \in Runners, IInv, CycleStep(p) PROVE IInv'
<1> USE RunnersAssumption, VersionsAssumption, DailyRuns
<1>1. CASE ProbeAnswered(p) /\ VersionsEqual(installed, released)
  <2>1. Finish(p, "ok") /\ latest' = released /\ installed' = installed
    BY <1>1 DEF ProbeAnswered
  <2>2. TypeOK'
    BY <1>1, <2>1, FinishType DEF IInv, TypeOK, ProbeAnswered
  <2>3. Concluded'
    BY <1>1, <2>1 DEF Concluded, VersionsEqual
  <2>4. InCycle(p) /\ removed' = removed /\ pc[Daily] # "created"
    BY <1>1 DEF ProbeAnswered, AllBegun, InCycle, world
  <2> QED
    BY <2>1, <2>2, <2>3, <2>4, FinishInv
<1>2. CASE ProbeAnswered(p) /\ ~VersionsEqual(installed, released)
  <2>1. /\ pc[p] = "probe" /\ pc' = [pc EXCEPT ![p] = "read"]
        /\ UNCHANGED <<world, installed, timers, unsub, inFlight, ended, checked>>
        /\ latest' = released /\ pc[Daily] # "created"
    BY <1>2 DEF ProbeAnswered, AllBegun
  <2>2. TypeOK'
    BY <2>1 DEF IInv, TypeOK, Known, world
  <2>3. \A q \in Runners : InCycle(q)' <=> InCycle(q)
    BY <2>1 DEF IInv, TypeOK, InCycle
  <2>4. inFlight
    BY <2>1 DEF IInv, FlagIsCycle, InCycle
  <2>5. OneChain'
    BY <2>1, <2>3 DEF IInv, OneChain, InCycle, world
  <2>6. ChainGoesOn' /\ InstalledIsChecked'
    BY <2>1, <2>4 DEF ChainGoesOn, InstalledIsChecked
  <2>7. FlagIsCycle' /\ FirstIsFirst'
    BY <2>1, <2>3 DEF IInv, FlagIsCycle, FirstIsFirst, TypeOK
  <2> QED
    BY <2>2, <2>5, <2>6, <2>7 DEF IInv
<1>3. CASE ProbeFails(p)
  <2>1. TypeOK'
    BY <1>3, FinishType DEF IInv, TypeOK, ProbeFails, entity
  <2>2. /\ Finish(p, "failed") /\ InCycle(p)
        /\ removed' = removed /\ pc[Daily] # "created"
    BY <1>3 DEF ProbeFails, AllBegun, InCycle, world
  <2> QED
    BY <2>1, <2>2, FinishInv
<1>4. CASE ReadAnswered(p)
  <2>1. TypeOK'
    BY <1>4, FinishType DEF IInv, TypeOK, ReadAnswered, world
  <2>2. pc[Daily] # "created"
    BY <1>4 DEF IInv, FirstIsFirst, ReadAnswered
  <2>3. Finish(p, "ok") /\ InCycle(p) /\ removed' = removed /\ Concluded'
    BY <1>4 DEF ReadAnswered, InCycle, Concluded, world
  <2> QED
    BY <2>1, <2>2, <2>3, FinishInv
<1>5. CASE ReadFails(p)
  <2>1. TypeOK'
    BY <1>5, FinishType DEF IInv, TypeOK, ReadFails, entity
  <2>2. pc[Daily] # "created"
    BY <1>5 DEF IInv, FirstIsFirst, ReadFails
  <2>3. Finish(p, "failed") /\ InCycle(p) /\ removed' = removed
    BY <1>5 DEF ReadFails, InCycle, world
  <2> QED
    BY <2>1, <2>2, <2>3, FinishInv
<1>6. CASE ProbeSkipped(p)
  <2>1. TypeOK'
    BY <1>6, FinishType DEF IInv, TypeOK, ProbeSkipped, entity
  <2>2. /\ Finish(p, "skipped") /\ InCycle(p)
        /\ removed' = removed /\ pc[Daily] # "created"
    BY <1>6 DEF ProbeSkipped, AllBegun, InCycle, world
  <2> QED
    BY <2>1, <2>2, FinishInv
<1> QED
  BY <1>1, <1>2, <1>3, <1>4, <1>5, <1>6 DEF CycleStep

\* A cancelled check leaves the cycle and arms nothing: the chain is cut.
LEMMA CancelInv == ASSUME NEW p \in Forced, IInv, Cancel(p) PROVE IInv'
<1> USE RunnersAssumption, DailyRuns DEF Cancel
<1>1. TypeOK'
  BY DEF IInv, TypeOK, world, entity
<1>2. \A q \in Runners : ~InCycle(q)'
  BY DEF IInv, TypeOK, OneChain, InCycle
<1>3. OneChain' /\ FlagIsCycle'
  BY <1>2 DEF IInv, OneChain, FlagIsCycle, InCycle, world
<1>4. ChainGoesOn' /\ InstalledIsChecked'
  BY DEF ChainGoesOn, InstalledIsChecked
<1>5. FirstIsFirst'
  BY <1>2 DEF IInv, TypeOK, FirstIsFirst, InCycle, world
<1> QED
  BY <1>1, <1>3, <1>4, <1>5 DEF IInv

\* The entity goes, and its timer if one is armed.
LEMMA RemoveInv == IInv /\ Remove => IInv'
<1> SUFFICES ASSUME IInv, Remove PROVE IInv'
  OBVIOUS
<1> USE DEF Remove, AllBegun
<1>1. timers' = 0 /\ TypeOK'
  <2>1. timers' = 0
    BY DEF IInv, TypeOK, OneChain
  <2>2. 0 \in Nat
    OBVIOUS
  <2> QED
    BY <2>1, <2>2, Zenon DEF IInv, TypeOK, entity
<1>2. OneChain' /\ ChainGoesOn'
  BY <1>1 DEF IInv, OneChain, ChainGoesOn
<1>3. InstalledIsChecked' /\ FlagIsCycle' /\ FirstIsFirst'
  BY <1>1 DEF IInv, InstalledIsChecked, VersionsEqual, FlagIsCycle, FirstIsFirst, InCycle, entity
<1> QED
  BY <1>1, <1>2, <1>3 DEF IInv

\* What happens around the entity does not concern the chain.
LEMMA WorldInv == IInv /\ (CloseClient \/ Publish \/ Install \/ UNCHANGED vars) => IInv'
<1> SUFFICES ASSUME IInv, CloseClient \/ Publish \/ Install \/ UNCHANGED vars PROVE IInv'
  OBVIOUS
<1>1. /\ UNCHANGED <<installed, latest, timers, unsub, inFlight, pc, removed, checked, ended>>
      /\ TypeOK'
  BY DEF IInv, TypeOK, CloseClient, Publish, Install, vars, world, entity
<1>2. OneChain' /\ ChainGoesOn' /\ InstalledIsChecked'
  BY <1>1 DEF IInv, OneChain, ChainGoesOn, InstalledIsChecked, VersionsEqual
<1>3. FlagIsCycle' /\ FirstIsFirst'
  BY <1>1 DEF IInv, FlagIsCycle, FirstIsFirst, InCycle
<1> QED
  BY <1>1, <1>2, <1>3 DEF IInv

\* ... and so does every step.
LEMMA StepInv == IInv /\ [Next]_vars => IInv'
BY FirstCycleInv, TimerFiresInv, ForceCheckInv, CancelInv, CycleStepInv, RemoveInv, WorldInv
   DEF Next

\* IInv is an invariant of every behaviour.
THEOREM Invariance == Spec => []IInv
BY InitInv, StepInv, PTL DEF Spec

-----------------------------------------------------------------------------

\* The state of the update entity is well typed, for any number of forced checks:
\* in particular the number of timers never goes below zero.
THEOREM TypeCorrect == Spec => []TypeOK
<1>1. IInv => TypeOK
  BY DEF IInv
<1> QED
  BY <1>1, Invariance, PTL

\* update.py's chain of checks is never stacked, however many checks are forced and
\* whether or not the entity is still there: one cycle or one timer, which
\* _unsub_cycle can cancel.
THEOREM ChainIsOne == Spec => []OneChain
<1>1. IInv => OneChain
  BY DEF IInv
<1> QED
  BY <1>1, Invariance, PTL

\* Nothing but a cancelled check ends the chain of an entity that is not removed.
THEOREM ChainLasts == Spec => []ChainGoesOn
<1>1. IInv => ChainGoesOn
  BY DEF IInv
<1> QED
  BY <1>1, Invariance, PTL

\* A cycle that ends well leaves the latest version or the one read in it.
THEOREM ChecksConclude == Spec => []InstalledIsChecked
<1>1. IInv => InstalledIsChecked
  BY DEF IInv
<1> QED
  BY <1>1, Invariance, PTL

-----------------------------------------------------------------------------
(* The check implements PeriodicTask.                                      *)

\* What is due and who runs, as CheckIsPeriodic takes them from the entity.
Due == IF pc[Daily] = "created" /\ ~inFlight THEN timers + 1 ELSE timers
Running == {p \in Runners : pc[p] \in {"probe", "read"}}

\* At most one cycle is due, and none beside a cycle that runs.
Schedule ==
  /\ Due \in 0 .. 1
  /\ inFlight => Due = 0
  /\ inFlight <=> Running # {}

LEMMA ScheduleFacts == IInv => Schedule
<1> SUFFICES ASSUME IInv PROVE Schedule
  OBVIOUS
<1>1. /\ timers \in {0, 1}
      /\ inFlight => timers = 0
      /\ pc[Daily] = "created" => timers = 0
  BY DEF IInv, OneChain, FirstIsFirst
<1>2. inFlight <=> Running # {}
  BY DEF IInv, FlagIsCycle, InCycle, Running
<1> QED
  BY <1>1, <1>2 DEF Due, Schedule

\* The steps of PeriodicTask, in terms of the entity.
LEMMA BeginCheck ==
  ASSUME NEW p \in Runners, ~removed \/ Due > 0, Running = {}, Running' = {p}, Due' = 0,
         UNCHANGED <<removed, ended>>
  PROVE  Check!Next
<1>1. Check!Begin(Daily)
  BY DEF Check!Begin, Running, Due
<1> QED
  BY <1>1 DEF Check!Next

LEMMA EndCheck ==
  ASSUME Running # {}, Running' = {}, Due' = 1,
         ended' # "cut", removed' = removed
  PROVE  Check!Next
<1>1. Check!End(Daily)
  BY DEF Check!End, Running, Due
<1> QED
  BY <1>1 DEF Check!Next

LEMMA CancelCheck ==
  ASSUME Running # {}, Running' = {}, Due' \in 0 .. 1,
         ended' = "cut", removed' = removed
  PROVE  Check!Next
<1>1. Check!Cancel(Daily)
  BY DEF Check!Cancel, Running, Due
<1> QED
  BY <1>1 DEF Check!Next

LEMMA StopCheck ==
  ASSUME ~removed, removed' = TRUE, Due' = 0, Running' = Running, ended' = ended
  PROVE  Check!Next
<1>1. Check!Stop(Daily)
  BY DEF Check!Stop, Running, Due
<1> QED
  BY <1>1 DEF Check!Next

LEMMA KeepCheck ==
  ASSUME removed' = removed, Due' = Due, Running' = Running, ended' = ended
  PROVE  UNCHANGED Check!vars
BY DEF Check!vars, Running, Due

\* A runner that enters the cycle begins it, and what was due is not any more; one
\* that finds a cycle running changes nothing.
LEMMA BeginSchedule ==
  ASSUME IInv, Schedule, Schedule', NEW p \in Runners, pc[p] \in {"idle", "created"},
         ~removed \/ Due > 0, Begin(p), UNCHANGED <<removed, ended>>
  PROVE  [Check!Next]_(Check!vars)
<1>1. CASE inFlight
  <2>1. Running' = Running
    BY <1>1 DEF Begin, Running, IInv, TypeOK
  <2>2. Due' = Due
    BY <1>1 DEF Begin, Schedule
  <2> QED
    BY <2>1, <2>2, KeepCheck
<1>2. CASE ~inFlight
  <2>1. pc' = [pc EXCEPT ![p] = "probe"] /\ inFlight'
    BY <1>2 DEF Begin
  <2>2. Running = {} /\ Running' = {p}
    BY <1>2, <2>1 DEF Schedule, Running, IInv, TypeOK
  <2>3. Due' = 0
    BY <2>1 DEF Schedule
  <2> QED
    BY <1>2, <2>2, <2>3, BeginCheck
<1> QED
  BY <1>1, <1>2

\* A runner that leaves the cycle ends it, and the next is due.
LEMMA FinishSchedule ==
  ASSUME IInv, Schedule, Schedule', NEW p \in Runners, InCycle(p),
         NEW how \in {"ok", "failed", "skipped"}, Finish(p, how), removed' = removed,
         pc[Daily] # "created"
  PROVE  Check!Next
<1>1. Running # {} /\ inFlight
  BY DEF Running, InCycle, Schedule
<1>2. Running' = {}
  BY DEF Finish, Schedule
<1>3. pc'[Daily] # "created"
  BY DailyRuns DEF Finish, IInv, TypeOK
<1>4. timers = 0
  BY <1>1 DEF IInv, OneChain
<1>5. Due' = 1
  BY <1>3, <1>4 DEF Due, Finish
<1> QED
  BY <1>1, <1>2, <1>5, EndCheck DEF Finish

\* Every step of the entity is one of PeriodicTask, or none.
LEMMA StepSchedule ==
  ASSUME IInv, Schedule, Schedule', [Next]_vars
  PROVE  [Check!Next]_(Check!vars)
<1>1. CASE FirstCycle \/ TimerFires
  <2>1. inFlight \/ Due > 0
    BY <1>1 DEF FirstCycle, TimerFires, Due, IInv, TypeOK, OneChain
  <2>2. /\ pc[Daily] \in {"idle", "created"} /\ Begin(Daily)
        /\ UNCHANGED <<removed, ended>>
    BY <1>1 DEF FirstCycle, TimerFires, world
  <2>3. CASE Due > 0
    BY <2>2, <2>3, DailyRuns, BeginSchedule
  <2>4. CASE inFlight
    <3>1. Running' = Running
      BY <2>2, <2>4 DEF Begin, Running, IInv, TypeOK
    <3>2. Due' = Due
      BY <2>2, <2>4 DEF Begin, Schedule
    <3> QED
      BY <2>2, <3>1, <3>2, KeepCheck
  <2> QED
    BY <2>1, <2>3, <2>4
<1>2. ASSUME NEW p \in Forced, ForceCheck(p)
      PROVE  [Check!Next]_(Check!vars)
  BY <1>2, DailyRuns, BeginSchedule DEF ForceCheck, world
<1>3. ASSUME NEW p \in Forced, Cancel(p)
      PROVE  Check!Next
  <2>1. Running # {}
    BY <1>3, DailyRuns DEF Cancel, Running
  <2>2. Running' = {} /\ ended' = "cut" /\ removed' = removed
    BY <1>3 DEF Cancel, Schedule, world
  <2> QED
    BY <2>1, <2>2, CancelCheck DEF Schedule
<1>4. ASSUME NEW p \in Runners, ProbeAnswered(p), ~VersionsEqual(installed, released)
      PROVE  [Check!Next]_(Check!vars)
  <2>1. /\ pc[p] = "probe" /\ pc' = [pc EXCEPT ![p] = "read"]
        /\ UNCHANGED <<removed, timers, inFlight, ended>>
    BY <1>4 DEF ProbeAnswered, world
  <2>2. Running' = Running /\ (pc'[Daily] = "created" <=> pc[Daily] = "created")
    BY <2>1, DailyRuns DEF Running, IInv, TypeOK
  <2> QED
    BY <2>1, <2>2, KeepCheck DEF Due
<1>5. ASSUME NEW p \in Runners, CycleStep(p),
             ~(ProbeAnswered(p) /\ ~VersionsEqual(installed, released))
      PROVE  Check!Next
  <2>1. InCycle(p) /\ removed' = removed
    BY <1>5 DEF CycleStep, ProbeAnswered, ProbeFails, ProbeSkipped, ReadAnswered, ReadFails, InCycle, world
  <2>2. PICK how \in {"ok", "failed", "skipped"} : Finish(p, how)
    BY <1>5 DEF CycleStep, ProbeAnswered, ProbeFails, ProbeSkipped, ReadAnswered, ReadFails
  <2>3. pc[Daily] # "created"
    BY <1>5 DEF CycleStep, ProbeAnswered, ProbeFails, ProbeSkipped, ReadAnswered, ReadFails, AllBegun,
                IInv, FirstIsFirst
  <2> QED
    BY <2>1, <2>2, <2>3, FinishSchedule
<1>6. CASE Remove
  <2>1. ~removed /\ removed' = TRUE /\ pc' = pc /\ ended' = ended
    BY <1>6 DEF Remove
  <2>2. Due' = 0
    BY <1>6 DEF Remove, AllBegun, Due, IInv, TypeOK, OneChain
  <2> QED
    BY <2>1, <2>2, StopCheck DEF Running
<1>7. CASE CloseClient \/ Publish \/ Install \/ UNCHANGED vars
  <2>1. UNCHANGED <<removed, timers, inFlight, pc, ended>>
    BY <1>7 DEF CloseClient, Publish, Install, vars, world
  <2> QED
    BY <2>1, KeepCheck DEF Due, Running
<1> QED
  BY <1>1, <1>2, <1>3, <1>4, <1>5, <1>6, <1>7 DEF Next, CycleStep

\* The entity starts with its first cycle due.
LEMMA InitSchedule == Init => Check!Init
<1> SUFFICES ASSUME Init PROVE Check!Init
  OBVIOUS
<1>1. removed = FALSE /\ Due = 1 /\ ended = "none"
  BY DailyRuns DEF Init, Due
<1>2. Running = {}
  BY DEF Init, Running
<1> QED
  BY <1>1, <1>2 DEF Check!Init, Due, Running

\* update.py's checks are the cycles of a periodic task, for any number of forced
\* checks: never two at once, each followed by the next whatever came of it; only
\* a cancelled one may be the last, or the removal of an entity that awaits its timer.
THEOREM CheckImplementsPeriodicTask == Spec => CheckIsPeriodic
<1>1. IInv /\ IInv' /\ [Next]_vars => [Check!Next]_(Check!vars)
  <2>1. IInv' => Schedule'
    BY ScheduleFacts, PTL
  <2> QED
    BY <2>1, ScheduleFacts, StepSchedule
<1> QED
  BY <1>1, InitSchedule, Invariance, PTL DEF Spec, CheckIsPeriodic, Check!Spec
=============================================================================
