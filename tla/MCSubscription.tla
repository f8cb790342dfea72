--------------------------- MODULE MCSubscription ---------------------------
(* Instances of Subscription for TLC: who is logged in where. *)
EXTENDS Subscription, TLC

CONSTANTS alice, bob, anon, d1, d2, h1, h2

\* Every device belongs to alice.
AllAlice == [c \in Clients |-> alice]

SameHandlers == Permutations(Handlers)
=============================================================================
