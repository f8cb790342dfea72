------------------------- MODULE EntitlementLedger -------------------------
(***************************************************************************)
(* What the webhook promises: events arrive in a log, each is applied at   *)
(* most once and at once, and only to the row of its own subscriber; a row *)
(* becomes premium only by an event that grants a period or by a direct    *)
(* synchronisation, and only until a date that was granted, or for a year  *)
(* from then when no usable date came with it.                             *)
(***************************************************************************)
EXTENDS Integers, Sequences

CONSTANTS Users, GrantTypes, Year

VARIABLES
  now,      \* the current billing period
  sent,     \* the log of the events
  applied,  \* the positions in it that have had their effect
  row       \* tier and expiry of each user

vars == <<now, sent, applied, row>>

Init ==
  /\ now = 0
  /\ sent = <<>> /\ applied = {}
  /\ row = [u \in Users |-> [tier |-> "free", exp |-> 0]]

\* The next period begins.
Tick == now' = now + 1 /\ UNCHANGED <<sent, applied, row>>

\* The log grows by one event.
Receive ==
  /\ Len(sent') = Len(sent) + 1
  /\ \A i \in DOMAIN sent : sent'[i] = sent[i]
  /\ UNCHANGED <<now, applied, row>>

\* Until when an event grants: its own date, or a year from now without one.
Expiry(ev) == IF ev.date = "given" THEN ev.exp ELSE now + Year

\* The rows event ev may make of the row r: only a grant may upgrade it.
Outcomes(r, ev) ==
  {[r EXCEPT !.exp = Expiry(ev)], [r EXCEPT !.tier = "free"]}
  \cup (IF ev.type \in GrantTypes THEN {[tier |-> "premium", exp |-> Expiry(ev)]}
                                  ELSE {})

Apply(i) ==
  LET u == sent[i].subscriber
  IN  /\ i \notin applied /\ u \in Users
      /\ applied' = applied \cup {i}
      /\ \E new \in Outcomes(row[u], sent[i]) : row' = [row EXCEPT ![u] = new]
      /\ UNCHANGED <<now, sent>>

\* The row is set to a period that some event of the log grants to this user, or
\* to a year from now when one of the user's events had no usable date.
Synchronise(u) ==
  /\ \E i \in DOMAIN sent, exp \in {sent[j].exp : j \in DOMAIN sent} \cup {now + Year} :
       /\ sent[i].subscriber = u
       /\ \/ sent[i].type \in GrantTypes /\ exp = sent[i].exp
          \/ sent[i].date # "given" /\ exp = now + Year
       /\ row' = [row EXCEPT ![u] = [tier |-> "premium", exp |-> exp]]
  /\ UNCHANGED <<now, sent, applied>>

Next == \/ Tick \/ Receive
        \/ \E i \in DOMAIN sent : Apply(i)
        \/ \E u \in Users : Synchronise(u)

Spec == Init /\ [][Next]_vars
=============================================================================
