--------------------------- MODULE FirmwareUpdate ---------------------------
(***************************************************************************)
(* The firmware update entity of one lock (update.py): a check that        *)
(* schedules itself, may be forced by a service call at any moment, asks   *)
(* the cloud and, when the versions diverge, the lock.                     *)
(*                                                                         *)
(* A runner is an asyncio task inside _async_cycle: the entity's own task  *)
(* (Daily: the first cycle and every timer) or a forced check.  A forced   *)
(* check runs in the task of its service call, which is cancelled with the *)
(* script that made it.                                                    *)
(*                                                                         *)
(* Home Assistant keeps self.hass when it removes an entity (it clears it  *)
(* only when the addition is aborted), so the tests of self.hass in        *)
(* _async_cycle never stop a cycle: one that is in flight when the entry   *)
(* is unloaded goes on and schedules the next.                             *)
(***************************************************************************)
EXTENDS Naturals

CONSTANTS Forced,     \* forced checks: async_update
          Daily,      \* the entity's own task
          Versions,   \* the versions with three numeric components, in order
          Malformed,  \* a version that has not
          None        \* Python's None

Runners == Forced \cup {Daily}
Known == Versions \cup {Malformed}

ASSUME RunnersAssumption == Daily \notin Forced
ASSUME VersionsAssumption ==
  /\ Versions \subseteq Nat
  /\ Versions # {}
  /\ None \notin Known
  /\ Malformed \notin Versions

VARIABLES firmware,   \* the lock's firmware version
          released,   \* the cloud's latest version
          installed,  \* _attr_installed_version
          latest,     \* _attr_latest_version
          timers,     \* timers of async_call_later that have neither fired nor been cancelled
          unsub,      \* whether _unsub_cycle refers to one
          inFlight,   \* _cycle_in_flight
          pc,         \* what each runner awaits
          removed,    \* whether the core has removed the entity
          closed,     \* whether the cloud client is closed
          checked,    \* history: the version read from the lock in this cycle, else None
          ended       \* history: how the last cycle ended

entity == <<installed, latest>>
world == <<firmware, released, removed, closed>>
vars == <<world, entity, timers, unsub, inFlight, pc, checked, ended>>

TypeOK ==
  /\ firmware \in Versions
  /\ released \in Known
  /\ installed \in Versions \cup {None}
  /\ latest \in Known \cup {None}
  /\ timers \in Nat
  /\ unsub \in BOOLEAN
  /\ inFlight \in BOOLEAN
  /\ pc \in [Runners -> {"idle", "created", "probe", "read"}]
  /\ removed \in BOOLEAN
  /\ closed \in BOOLEAN
  /\ checked \in Versions \cup {None}
  /\ ended \in {"none", "ok", "failed", "skipped", "cut"}

\* The versions of the last state, whatever has happened since.
Restored ==
  /\ installed \in Versions \cup {None}
  /\ latest \in Known \cup {None}

\* The entity is added: the versions are restored and the first cycle is created.
Init ==
  /\ firmware \in Versions
  /\ released \in Known
  /\ Restored
  /\ timers = 0
  /\ unsub = FALSE
  /\ inFlight = FALSE
  /\ pc = [p \in Runners |-> IF p = Daily THEN "created" ELSE "idle"]
  /\ removed = FALSE
  /\ closed = FALSE
  /\ checked = None
  /\ ended = "none"

-----------------------------------------------------------------------------
(* Versions.                                                               *)

\* A malformed or unknown version equals none.
VersionsEqual(a, b) == a \in Versions /\ b \in Versions /\ a = b

-----------------------------------------------------------------------------
(* The cycle.                                                              *)

\* Mutant: a cycle begins whether or not another one runs.
BeginStacked(p) ==
  /\ unsub' = FALSE
  /\ pc' = [pc EXCEPT ![p] = "probe"]
  /\ inFlight' = TRUE
  /\ checked' = None

\* The head of _async_cycle: one cycle at a time.
Begin(p) ==
  /\ unsub' = FALSE
  /\ IF inFlight
     THEN /\ pc' = [pc EXCEPT ![p] = "idle"]
          /\ UNCHANGED <<inFlight, checked>>
     ELSE /\ pc' = [pc EXCEPT ![p] = "probe"]
          /\ inFlight' = TRUE
          /\ checked' = None

\* Mutant: the schedule ends with the first failure.
FinishOnSuccess(p, how) ==
  /\ pc' = [pc EXCEPT ![p] = "idle"]
  /\ inFlight' = FALSE
  /\ ended' = how
  /\ IF how = "failed"
     THEN UNCHANGED <<timers, unsub>>
     ELSE timers' = timers + 1 /\ unsub' = TRUE

\* Its tail: the next cycle is scheduled.
Finish(p, how) ==
  /\ pc' = [pc EXCEPT ![p] = "idle"]
  /\ inFlight' = FALSE
  /\ ended' = how
  /\ timers' = timers + 1
  /\ unsub' = TRUE

FirstCycle ==
  /\ pc[Daily] = "created"
  /\ Begin(Daily)
  /\ UNCHANGED <<world, entity, timers, ended>>

TimerFires ==
  /\ timers > 0
  /\ pc[Daily] = "idle"
  /\ timers' = timers - 1
  /\ Begin(Daily)
  /\ UNCHANGED <<world, entity, ended>>

\* async_update: the pending timer is cancelled first.
ForceCheck(p) ==
  /\ pc[p] = "idle"
  /\ ~removed
  /\ timers' = IF unsub THEN timers - 1 ELSE timers
  /\ Begin(p)
  /\ UNCHANGED <<world, entity, ended>>

\* The event loop begins a task that was created before any I/O completes.
AllBegun == pc[Daily] # "created"

\* Mutant: the lock is asked when the versions agree.
ProbeAnsweredInverted(p) ==
  /\ pc[p] = "probe"
  /\ AllBegun
  /\ ~closed
  /\ latest' = released
  /\ IF VersionsEqual(installed, released)
     THEN pc' = [pc EXCEPT ![p] = "read"] /\ UNCHANGED <<timers, unsub, inFlight, ended>>
     ELSE Finish(p, "ok")
  /\ UNCHANGED <<world, installed, checked>>

\* The cloud answers; the lock is asked only when the versions diverge.
ProbeAnswered(p) ==
  /\ pc[p] = "probe"
  /\ AllBegun
  /\ ~closed
  /\ latest' = released
  /\ IF VersionsEqual(installed, released)
     THEN Finish(p, "ok")
     ELSE pc' = [pc EXCEPT ![p] = "read"] /\ UNCHANGED <<timers, unsub, inFlight, ended>>
  /\ UNCHANGED <<world, installed, checked>>

\* The probe fails: retried later.
ProbeFails(p) ==
  /\ pc[p] = "probe"
  /\ AllBegun
  /\ Finish(p, "failed")
  /\ UNCHANGED <<world, entity, checked>>

\* The client is closed: not a failure, and retried later all the same.
ProbeSkipped(p) ==
  /\ pc[p] = "probe"
  /\ AllBegun
  /\ closed
  /\ Finish(p, "skipped")
  /\ UNCHANGED <<world, entity, checked>>

\* Mutant: the version asked about is taken for the one read.
ReadAnsweredLatest(p) ==
  /\ pc[p] = "read"
  /\ installed' = latest
  /\ checked' = firmware
  /\ Finish(p, "ok")
  /\ UNCHANGED <<world, latest>>

\* The lock reports its version.
ReadAnswered(p) ==
  /\ pc[p] = "read"
  /\ installed' = firmware
  /\ checked' = firmware
  /\ Finish(p, "ok")
  /\ UNCHANGED <<world, latest>>

ReadFails(p) ==
  /\ pc[p] = "read"
  /\ Finish(p, "failed")
  /\ UNCHANGED <<world, entity, checked>>

\* The service call of a forced check is cancelled: only the finally clause runs.
Cancel(p) ==
  /\ p \in Forced
  /\ pc[p] \in {"probe", "read"}
  /\ pc' = [pc EXCEPT ![p] = "idle"]
  /\ inFlight' = FALSE
  /\ ended' = "cut"
  /\ UNCHANGED <<world, entity, timers, unsub, checked>>

-----------------------------------------------------------------------------
(* Around the entity.                                                      *)

\* The core removes the entity, once its addition has begun the first cycle:
\* async_will_remove_from_hass cancels the timer, never a cycle in flight.
Remove ==
  /\ AllBegun
  /\ ~removed
  /\ removed' = TRUE
  /\ timers' = IF unsub THEN timers - 1 ELSE timers
  /\ unsub' = FALSE
  /\ UNCHANGED <<firmware, released, closed, entity, inFlight, pc, checked, ended>>

\* The unload of the entry closes the client after its platforms.
CloseClient ==
  /\ removed
  /\ ~closed
  /\ closed' = TRUE
  /\ UNCHANGED <<firmware, released, removed, entity, timers, unsub, inFlight, pc,
                 checked, ended>>

\* A firmware is published, and installed with the vendor's application.
Publish ==
  /\ released' \in Known \ {released}
  /\ UNCHANGED <<firmware, removed, closed, entity, timers, unsub, inFlight, pc,
                 checked, ended>>

Install ==
  /\ firmware' \in Versions \ {firmware}
  /\ UNCHANGED <<released, removed, closed, entity, timers, unsub, inFlight, pc,
                 checked, ended>>

CycleStep(p) ==
  \/ ProbeAnswered(p)
  \/ ProbeFails(p)
  \/ ProbeSkipped(p)
  \/ ReadAnswered(p)
  \/ ReadFails(p)

Next ==
  \/ FirstCycle
  \/ TimerFires
  \/ \E p \in Forced : ForceCheck(p) \/ Cancel(p)
  \/ \E p \in Runners : CycleStep(p)
  \/ Remove
  \/ CloseClient
  \/ Publish
  \/ Install

Spec == Init /\ [][Next]_vars

-----------------------------------------------------------------------------
(* Properties.                                                             *)

\* One chain, never stacked: however forced checks, timers, cancellations and
\* the removal fall together, at most one cycle runs or one timer is armed, and
\* _unsub_cycle refers to that timer.  A removed entity whose cycle went on has a
\* chain too, and it is one.
OneChain ==
  /\ timers = (IF unsub THEN 1 ELSE 0)
  /\ inFlight => timers = 0
  /\ \A p, q \in Runners :
       pc[p] \in {"probe", "read"} /\ pc[q] \in {"probe", "read"} => p = q

\* The chain of checks goes on after every failure: an entity that is not
\* removed is in a cycle or has one scheduled, unless a cancelled check cut it.
ChainGoesOn ==
  ~removed => timers = 1 \/ inFlight \/ pc[Daily] = "created" \/ ended = "cut"

\* The check is a periodic task of the entity: whatever forced checks, timers and the
\* first cycle find when they begin, a cycle runs or the next is due, and every
\* cycle that is not cancelled is followed by one.  The removal ends the task only
\* when it finds a timer: a cycle in flight goes on with it.
Check == INSTANCE PeriodicTask WITH
  Owners <- {Daily},
  Outlives <- TRUE,
  present <- [o \in {Daily} |-> ~removed],
  due <- [o \in {Daily} |->
            IF pc[Daily] = "created" /\ ~inFlight THEN timers + 1 ELSE timers],
  running <- [o \in {Daily} |-> {p \in Runners : pc[p] \in {"probe", "read"}}],
  cut <- [o \in {Daily} |-> ended = "cut"]
CheckIsPeriodic == Check!Spec

\* After a check that succeeded the installed version is the latest one or
\* what the lock reported in that very cycle, whatever was restored before and
\* whichever forced checks fell into it.
InstalledIsChecked ==
  (ended = "ok" /\ ~inFlight) =>
    VersionsEqual(installed, latest) \/ checked = installed

(* What a test says and the code does not do.                              *)

\* "An entity removed while its refresh was in flight [...] does not re-arm."
NothingArmedOnceRemoved == removed => timers = 0
=============================================================================
