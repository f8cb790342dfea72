---------------------------- MODULE MCOfflineQueue ----------------------------
(***************************************************************************)
(* Values for the constants of OfflineQueue.                               *)
(***************************************************************************)
EXTENDS OfflineQueue, TLC

CONSTANTS f1, f2, c1, none, a1, a2, a3, a4

Twins == Permutations(Flushes)
===============================================================================
