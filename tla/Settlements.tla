---------------------------- MODULE Settlements ----------------------------
(***************************************************************************)
(* The arithmetic of shared expenses (expenses/expenses.service.ts): how   *)
(* an amount is split, what everybody owes, and which transfers are        *)
(* suggested.  Money is in cents: the code rounds to them after each step. *)
(* A user is a number; equal balances, which the code leaves in the order  *)
(* of the database, are taken in the order of the numbers.                 *)
(***************************************************************************)
EXTENDS Integers, Sequences, FiniteSets, FiniteSetsExt, SequencesExt

SumOver(S, f(_)) == MapThenSumSet(f, S)
Abs(x) == IF x < 0 THEN -x ELSE x

Named(s) == {s[i].user : i \in DOMAIN s}
First(s, u) == CHOOSE i \in DOMAIN s : s[i].user = u /\ \A j \in 1..(i - 1) : s[j].user # u

\* Math.round of n / d
Round(n, d) == (2 * n + d) \div (2 * d)

\* Slip: the amount is divided by the length of the list
EqualOfList(amount, s) ==
  LET each == Round(amount, Len(s))
  IN  [u \in Named(s) |-> IF u = s[1].user THEN amount - each * (Len(s) - 1) ELSE each]

\* the rest, which may be negative, goes to the first
Equal(amount, s) ==
  LET each == Round(amount, Cardinality(Named(s)))
  IN  [u \in Named(s) |-> IF u = s[1].user THEN amount - each * (Cardinality(Named(s)) - 1) ELSE each]

Exact(s) == [u \in Named(s) |-> s[First(s, u)].amount]
Total(f) == SumOver(DOMAIN f, LAMBDA u : f[u])

\* calculateSplits accepts the list ...
Fits(amount, s, method) == method = "exact" => Abs(Total(Exact(s)) - amount) <= 1
\* ... and makes these shares of it
Shares(amount, s, method) == IF method = "equal" THEN Equal(amount, s) ELSE Exact(s)

-----------------------------------------------------------------------------
(* E is a set of expenses [id, payer, amount, method], S one of splits     *)
(* [exp, user, amount, settled, ...].                                      *)

\* what the others still owe for x
Open(x, S) == {s \in S : s.exp = x.id /\ ~s.settled /\ s.user # x.payer}

Worth(splits) == SumOver(splits, LAMBDA s : s.amount)

\* getBalances: a single cent is owed but not credited
Balances(U, E, S) ==
  LET open == [x \in E |-> Open(x, S)]
      lent == [x \in E |-> Worth(open[x])]
  IN  [u \in U |-> Total([x \in {x \in E : x.payer = u /\ lent[x] > 1} |-> lent[x]])
                   - Worth({s \in UNION Range(open) : s.user = u})]

\* getSettlements: the largest creditor and the largest debtor first
Ranked(b, P) ==
  CHOOSE q \in SetToSeqs(P) : \A i, j \in DOMAIN q :
    i < j => Abs(b[q[i]]) > Abs(b[q[j]]) \/ (Abs(b[q[i]]) = Abs(b[q[j]]) /\ q[i] < q[j])

\* Slip: both are done once either is
AdvanceBoth(c, d) == <<1, 1>>

\* who is done after a transfer: nothing is left of the credit c, of the debt d
Advance(c, d) == <<IF c < 1 THEN 1 ELSE 0, IF d < 1 THEN 1 ELSE 0>>

\* one round of the loop
Pay(creditors, debtors, s) ==
  IF s.ci > Len(creditors) \/ s.di > Len(debtors) THEN s
  ELSE LET to   == creditors[s.ci]
           from == debtors[s.di]
           amount == Min({s.left[to], s.left[from]})
           left == [s.left EXCEPT ![to] = @ - amount, ![from] = @ - amount]
           done == Advance(left[to], left[from])
       IN  [ci |-> s.ci + done[1], di |-> s.di + done[2], left |-> left,
            paid |-> IF amount > 1
                     THEN Append(s.paid, [from |-> from, to |-> to, amount |-> amount])
                     ELSE s.paid]

\* each round is the last of somebody
Settlements(b) ==
  LET creditors == Ranked(b, {u \in DOMAIN b : b[u] > 1})
      debtors   == Ranked(b, {u \in DOMAIN b : b[u] < -1})
      rounds    == Len(creditors) + Len(debtors)
      Loop[n \in 0..rounds] ==
        IF n = 0 THEN [ci |-> 1, di |-> 1, left |-> [u \in DOMAIN b |-> Abs(b[u])], paid |-> <<>>]
        ELSE Pay(creditors, debtors, Loop[n - 1])
  IN  Loop[rounds].paid
=============================================================================
