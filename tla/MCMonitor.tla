------------------------------ MODULE MCMonitor ------------------------------
(* Instances of BroadcastMonitor for TLC.  The signal strengths are one      *)
(* inside the range that the signal sensor scales to percent and one beyond  *)
(* it.  Keys are interchangeable: only equality tells them apart.  A run     *)
(* that checks liveness does without the symmetry.                           *)
EXTENDS BroadcastMonitor, TLC

OneRssi == {-65}
TwoRssis == {-65, -10}

KeySymmetry == Permutations(Keys)
=============================================================================
