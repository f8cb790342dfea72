---------------------------- MODULE AiTripOrder -----------------------------
(***************************************************************************)
(* What the creation of an AI trip promises to the user who asked for it:  *)
(* the trip is billed when it appears, it is delivered only while it is    *)
(* billed, it is refunded at most once and never after its delivery, and a *)
(* delivery or a failure is final.  Only the owner withdraws a trip.  Of   *)
(* an order whose row is overwritten by an older copy nothing is promised. *)
(***************************************************************************)
CONSTANT Orders

VARIABLES
  order,   \* "none", "open", "delivered", "failed", "withdrawn" or "overwritten"
  billed   \* is a unit of the quota spent on the order?

vars == <<order, billed>>

Init == /\ order  = [o \in Orders |-> "none"]
        /\ billed = [o \in Orders |-> FALSE]

Place(o) ==
  /\ order[o] = "none"
  /\ order' = [order EXCEPT ![o] = "open"]
  /\ billed' = [billed EXCEPT ![o] = TRUE]

Deliver(o) ==
  /\ order[o] = "open" /\ billed[o]
  /\ order' = [order EXCEPT ![o] = "delivered"]
  /\ UNCHANGED billed

Fail(o) ==
  /\ order[o] = "open"
  /\ order' = [order EXCEPT ![o] = "failed"]
  /\ UNCHANGED billed

Refund(o) ==
  /\ order[o] \in {"open", "failed"} /\ billed[o]
  /\ billed' = [billed EXCEPT ![o] = FALSE]
  /\ UNCHANGED order

Withdraw(o) ==
  /\ order[o] \in {"open", "delivered", "failed"}
  /\ order' = [order EXCEPT ![o] = "withdrawn"]
  /\ UNCHANGED billed

Overwrite(o) ==
  /\ order[o] \notin {"none", "overwritten"}
  /\ order' = [order EXCEPT ![o] = "overwritten"]
  /\ billed' = [billed EXCEPT ![o] = FALSE]

Next == \E o \in Orders :
          \/ Place(o) \/ Deliver(o) \/ Fail(o) \/ Refund(o)
          \/ Withdraw(o) \/ Overwrite(o)

Spec == Init /\ [][Next]_vars
=============================================================================
