----------------------------- MODULE KeyService -----------------------------
(***************************************************************************)
(* What a refreshed key goes through, whoever asked for it: the cloud      *)
(* issues it, the integration stores it for the readers of the key cache,  *)
(* and it is installed as the login token of the next session.             *)
(***************************************************************************)
EXTENDS Naturals

VARIABLES issued, stored, installed

vars == <<issued, stored, installed>>

Init == issued = 1 /\ stored = 1 /\ installed = 1

Issue == issued' = issued + 1 /\ UNCHANGED <<stored, installed>>

\* Only a newer key is stored, and only when the one before is installed.
Store ==
  /\ installed = stored
  /\ stored' \in (stored + 1) .. issued
  /\ installed' \in {installed, stored'}
  /\ UNCHANGED issued

Install ==
  /\ installed # stored
  /\ installed' = stored
  /\ UNCHANGED <<issued, stored>>

Next == Issue \/ Store \/ Install

Spec == Init /\ [][Next]_vars
=============================================================================
