----------------------------- MODULE MCSession -----------------------------
(***************************************************************************)
(* Values for the constants of Session.                                    *)
(***************************************************************************)
EXTENDS Session, TLC

CONSTANTS alice, nobody, c1, c2, exit1, r1, r2

Devices == Permutations(Calls) \cup Permutations(Requests)
=============================================================================
