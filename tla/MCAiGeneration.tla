---------------------------- MODULE MCAiGeneration ----------------------------
(***************************************************************************)
(* Values for the constants of AiGeneration.                               *)
(***************************************************************************)
EXTENDS AiGeneration

CONSTANTS r1, r2
===============================================================================
