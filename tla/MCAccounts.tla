------------------------------ MODULE MCAccounts ------------------------------
(* Small instances of Accounts for TLC. *)
EXTENDS Accounts, TLC

CONSTANTS s1, s2, l1, l2, h1, c1, c2, none

Symmetric == Permutations(Sessions) \cup Permutations(Links) \cup Permutations(Calls)
===============================================================================
