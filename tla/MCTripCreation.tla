--------------------------- MODULE MCTripCreation ---------------------------
(* Instances of TripCreation for TLC: who sends which request. *)
EXTENDS TripCreation, TLC

CONSTANTS j1, j2, s1, alice

\* Both requests by one user.
OneOwner == [j \in Jobs |-> alice]

\* Requests that differ in name only.
SameRequests == Permutations({j1, j2})
=============================================================================
