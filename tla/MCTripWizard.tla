----------------------------- MODULE MCTripWizard -----------------------------
(***************************************************************************)
(* Values for the constants of TripWizard.                                 *)
(***************************************************************************)
EXTENDS TripWizard

CONSTANTS t1, t2, none
===============================================================================
