------------------------------ MODULE TokenLife ------------------------------
(***************************************************************************)
(* What a cloud token goes through, whatever the flows, the loads of an    *)
(* entry and the writes to its file do: the cloud issues it to a login of  *)
(* a new account, where it waits on the stage, or to the login or the      *)
(* refresh of one entry; the stage hands it to one entry, and once it has  *)
(* been given up it is never used again.                                   *)
(***************************************************************************)
EXTENDS Naturals

CONSTANTS Entries, Accounts

VARIABLES issued,  \* how many tokens there are; a token is its number
          staged,  \* tokens that wait for the entry of an account
          held     \* tokens the storage of an entry has

vars == <<issued, staged, held>>

Init ==
  /\ issued = 0
  /\ staged = [a \in Accounts |-> {}]
  /\ held = [e \in Entries |-> {}]

Stage(a) ==
  /\ issued' = issued + 1
  /\ staged' = [staged EXCEPT ![a] = {issued'}]
  /\ UNCHANGED held

\* What the entry had may be given up for the token it gets.
Grant(e) ==
  /\ issued' = issued + 1
  /\ \E kept \in SUBSET held[e] : held' = [held EXCEPT ![e] = kept \cup {issued'}]
  /\ UNCHANGED staged

HandOver(a, e) ==
  /\ staged[a] # {}
  /\ staged' = [staged EXCEPT ![a] = {}]
  /\ held' = [held EXCEPT ![e] = @ \cup staged[a]]
  /\ UNCHANGED issued

GiveUp ==
  /\ \A a \in Accounts : staged'[a] \subseteq staged[a]
  /\ \A e \in Entries : held'[e] \subseteq held[e]
  /\ UNCHANGED issued

Next ==
  \/ \E a \in Accounts : Stage(a)
  \/ \E e \in Entries : Grant(e)
  \/ \E a \in Accounts, e \in Entries : HandOver(a, e)
  \/ GiveUp

Spec == Init /\ [][Next]_vars
=============================================================================
