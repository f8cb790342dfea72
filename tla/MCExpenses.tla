----------------------------- MODULE MCExpenses -----------------------------
(* Values for the constants of Expenses: cents, lists and updates that tell *)
(* roundings, repeated names, refused sums and omitted fields apart.        *)
EXTENDS Expenses

CONSTANTS r1, r2

Share(u, a) == [user |-> u, amount |-> a]

Both  == <<Share(2, 0), Share(3, 0)>>
Twice == <<Share(3, 15), Share(2, 16), Share(3, 15)>>

Form(p, a, m, l) == [payer |-> p, amount |-> a, method |-> m, list |-> l]

SmallForms == {Form(1, 5, "equal", Both), Form(3, 31, "exact", Twice)}

SmallPatches ==
  {[fields |-> [payer |-> 2, amount |-> 31, method |-> "equal"], list |-> Twice],
   [fields |-> [amount |-> 51], list |-> <<>>],
   [fields |-> [payer |-> 3, method |-> "exact"], list |-> <<>>]}

Twins == Permutations(Requests)
=============================================================================
