---------------------------- MODULE PeriodicTask ----------------------------
(***************************************************************************)
(* What a task that schedules itself promises its owner, whatever becomes  *)
(* of its cycles: while the owner is there, one cycle is due or one runs,  *)
(* never two, and when it ends, the next is due.  When the owner goes,     *)
(* nothing is due any more; a cycle that runs goes on, and Outlives says   *)
(* whether it is followed by others.  Only the cancellation of a cycle may *)
(* end the schedule of an owner that is there, until a cycle is begun out  *)
(* of turn.                                                                *)
(***************************************************************************)
EXTENDS Naturals

CONSTANTS Owners,   \* each has a periodic task of its own
          Runners,  \* who may run a cycle
          Outlives  \* whether a cycle that runs when its owner goes schedules the next

VARIABLES present,  \* whether an owner is there and wants cycles
          due,      \* how many cycles of an owner are scheduled
          running,  \* who runs a cycle of an owner
          cut       \* whether the last cycle of an owner was cancelled

vars == <<present, due, running, cut>>

Init ==
  /\ present \in [Owners -> BOOLEAN]
  /\ due = [o \in Owners |-> IF present[o] THEN 1 ELSE 0]
  /\ running = [o \in Owners |-> {}]
  /\ cut = [o \in Owners |-> FALSE]

Start(o) ==
  /\ ~present[o]
  /\ running[o] = {}
  /\ present' = [present EXCEPT ![o] = TRUE]
  /\ due' = [due EXCEPT ![o] = 1]
  /\ UNCHANGED <<running, cut>>

\* The cycle that was due begins, or, for an owner that is there, one out of turn,
\* which replaces it.
Begin(o) ==
  /\ present[o] \/ due[o] > 0
  /\ running[o] = {}
  /\ \E r \in Runners : running' = [running EXCEPT ![o] = {r}]
  /\ due' = [due EXCEPT ![o] = 0]
  /\ UNCHANGED <<present, cut>>

\* A cycle ends, with success or a failure.
End(o) ==
  /\ running[o] # {}
  /\ running' = [running EXCEPT ![o] = {}]
  /\ due' = [due EXCEPT ![o] = IF present[o] \/ Outlives THEN 1 ELSE 0]
  /\ cut' = [cut EXCEPT ![o] = FALSE]
  /\ UNCHANGED present

\* A cycle is cancelled.
Cancel(o) ==
  /\ running[o] # {}
  /\ running' = [running EXCEPT ![o] = {}]
  /\ \E n \in 0 .. 1 :
       due' = [due EXCEPT ![o] = IF present[o] \/ Outlives THEN n ELSE 0]
  /\ cut' = [cut EXCEPT ![o] = TRUE]
  /\ UNCHANGED present

\* The owner goes; a cycle that runs may go on to its end.
Stop(o) ==
  /\ present[o]
  /\ present' = [present EXCEPT ![o] = FALSE]
  /\ due' = [due EXCEPT ![o] = 0]
  /\ UNCHANGED <<running, cut>>

Next == \E o \in Owners : Start(o) \/ Begin(o) \/ End(o) \/ Cancel(o) \/ Stop(o)

Spec == Init /\ [][Next]_vars
=============================================================================
