---------------------------- MODULE LatestReport ----------------------------
(***************************************************************************)
(* What anybody may rely on of the state shown for a lock, whatever is     *)
(* received late, twice or never and however the counter wraps: it is      *)
(* reported from a payload on the air that is newer than the report        *)
(* before, or it is what a command just did, until the next report.        *)
(***************************************************************************)
EXTENDS Naturals

CONSTANTS Serials, None

VARIABLES onAir,    \* the payloads of each lock that may still be received
          report,   \* the payload reported, None before the first
          position  \* whether the lock is shown locked, None while unknown

vars == <<onAir, report, position>>

Init ==
  /\ \A s \in Serials : \E p \in onAir[s] : onAir[s] = {p}
  /\ report = [s \in Serials |-> None]
  /\ position = [s \in Serials |-> None]

Broadcast(s) ==
  /\ \E p \in onAir'[s] :
       /\ \A q \in onAir[s] : q.gen < p.gen
       /\ \E kept \in SUBSET onAir[s] : onAir' = [onAir EXCEPT ![s] = kept \cup {p}]
  /\ UNCHANGED <<report, position>>

Report(s) ==
  /\ \E p \in onAir[s] :
       /\ report[s] # None => p.gen > report[s].gen
       /\ report' = [report EXCEPT ![s] = p]
       /\ position' = [position EXCEPT ![s] = p.locked]
  /\ UNCHANGED onAir

Command(s) ==
  /\ \E locked \in BOOLEAN : position' = [position EXCEPT ![s] = locked]
  /\ UNCHANGED <<onAir, report>>

Next == \E s \in Serials : Broadcast(s) \/ Report(s) \/ Command(s)

Spec == Init /\ [][Next]_vars
=============================================================================
