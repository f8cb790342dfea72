----------------------------- MODULE MCAccounts -----------------------------
(* Accounts for TLC.  The requests run the same program, and nothing tells *)
(* two passwords or two provider ids apart.                                *)
EXTENDS Accounts, TLC
Twins == Permutations(Requests) \cup Permutations(Passwords) \cup Permutations(Identities)
=============================================================================
