----------------------------- MODULE MCTripEdit -----------------------------
(***************************************************************************)
(* Values for the constants of TripEdit.                                   *)
(***************************************************************************)
EXTENDS TripEdit, TLC

CONSTANTS owner, ed, guest, none, r1, r2

\* Orders a client may send for a day of two activities, wrong ones included.
SomeOrders == {<<2, 1>>, <<1, 1>>}

SomeEdits == {[index |-> 1, field |-> "time", value |-> 1],
              [index |-> 1, field |-> "completed", value |-> TRUE]}
=============================================================================
