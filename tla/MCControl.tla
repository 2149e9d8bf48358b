----------------------------- MODULE MCControl -----------------------------
(***************************************************************************)
(* Instances of DanalockControl for TLC.  The tasks of one kind are        *)
(* interchangeable: no action or invariant tells them apart.  A run that   *)
(* checks liveness does without the symmetry.                              *)
(***************************************************************************)
EXTENDS DanalockControl, TLC

TaskSymmetry == Permutations(Operates) \cup Permutations(Calls)
                  \cup Permutations(Refreshers)
=============================================================================
