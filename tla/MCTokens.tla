------------------------------ MODULE MCTokens ------------------------------
(***************************************************************************)
(* TokenStore with interchangeable entries, accounts and flows.            *)
(***************************************************************************)
EXTENDS TokenStore

TokenSymmetry == Permutations(Entries) \cup Permutations(Accounts) \cup Permutations(Flows)
=============================================================================
