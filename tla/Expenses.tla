------------------------------ MODULE Expenses ------------------------------
(***************************************************************************)
(* The shared expenses of one trip (expenses/expenses.service.ts).  An     *)
(* update deletes the old splits, inserts the new ones and writes the row  *)
(* of the expense by three statements without a transaction, any of which  *)
(* may fail or meet a restart; settling up saves a split that was read     *)
(* before.                                                                 *)
(***************************************************************************)
EXTENDS Settlements

CONSTANTS
  Users,        \* the participants of the trip, numbers
  Requests,     \* PATCH and settle requests at work at once
  Forms,        \* new expenses: [payer, amount, method] and the list of [user, amount]
  Patches,      \* updates: the fields they name, and a list or <<>>
  MaxExpenses, MaxBatches   \* bounds: expenses ever created, batches of splits ever inserted

ASSUME UsersAssumption == Users \subseteq Nat /\ IsFiniteSet(Users)
Methods == {"equal", "exact"}
Lists == Seq([user : Users, amount : Nat])

ASSUME InputsAssumption ==
  /\ Forms \subseteq [payer : Users, amount : Nat, method : Methods, list : Lists \ {<<>>}]
  /\ \A patch \in Patches :
       /\ DOMAIN patch.fields \subseteq {"payer", "amount", "method"}
       /\ \A k \in DOMAIN patch.fields :
            patch.fields[k] \in (CASE k = "payer" -> Users [] k = "amount" -> Nat [] k = "method" -> Methods)
       /\ patch.list \in Lists
ASSUME BoundsAssumption == MaxExpenses \in Nat /\ MaxBatches \in Nat

VARIABLES
  expenses,   \* table expenses
  splits,     \* table expense_splits; the batch and the user name the row
  made,       \* how many expenses were created
  batches,    \* how many batches of splits were inserted
  req,        \* the requests at work
  torn,       \* history: expenses with an update that was refused or failed after
              \* its deletion, or with two requests about them at once
  doubled     \* history: expenses with two updates between deletion and insertion at once

tables == <<expenses, splits, made, batches>>
vars == <<tables, req, torn, doubled>>

Expense == [id : Nat, payer : Users, amount : Nat, method : Methods]
Split == [exp : Nat, user : Users, amount : Int, settled : BOOLEAN, batch : Nat]

Idle == [pc |-> "idle", exp |-> 0]

Init ==
  /\ expenses = {} /\ splits = {} /\ made = 0 /\ batches = 0
  /\ req = [r \in Requests |-> Idle]
  /\ torn = {} /\ doubled = {}

Row(e) == CHOOSE x \in expenses : x.id = e
\* the row x with the fields that a request names
Patched(x, fields) == [k \in DOMAIN x |-> IF k \in DOMAIN fields THEN fields[k] ELSE x[k]]

Exists(e) == \E x \in expenses : x.id = e
SplitsOf(e) == {s \in splits : s.exp = e}
Others(r, e) == {q \in Requests \ {r} : req[q].pc # "idle" /\ req[q].exp = e}

Inserted(e, shares) ==
  {[exp |-> e, user |-> u, amount |-> shares[u], settled |-> FALSE, batch |-> batches + 1] : u \in DOMAIN shares}

-----------------------------------------------------------------------------
\* one transaction: the splits are cascaded
Create(f) ==
  /\ made < MaxExpenses /\ batches < MaxBatches
  /\ Fits(f.amount, f.list, f.method)
  /\ made' = made + 1
  /\ batches' = batches + 1
  /\ expenses' = expenses \cup {[id |-> made + 1, payer |-> f.payer, amount |-> f.amount, method |-> f.method]}
  /\ splits' = splits \cup Inserted(made + 1, Shares(f.amount, f.list, f.method))
  /\ UNCHANGED <<req, torn, doubled>>

RemoveExpense(e) ==
  /\ Exists(e)
  /\ expenses' = {x \in expenses : x.id # e}
  /\ splits' = {s \in splits : s.exp # e}
  /\ UNCHANGED <<made, batches, req, torn, doubled>>

\* the splits as they are, in any order
Loaded(e) == {[i \in DOMAIN q |-> [user |-> q[i].user, amount |-> q[i].amount]] : q \in SetToSeqs(SplitsOf(e))}

Works(r, e, q) ==
  /\ req[r] = Idle /\ Exists(e)
  /\ req' = [req EXCEPT ![r] = q]
  /\ torn' = IF Others(r, e) = {} THEN torn ELSE torn \cup {e}
  /\ UNCHANGED <<tables, doubled>>

\* update reads the expense with its splits, which stand for what the request leaves out
StartUpdate(r, e, patch) ==
  /\ "amount" \in DOMAIN patch.fields \/ patch.list # <<>>
  /\ batches < MaxBatches
  /\ \E list \in (IF patch.list # <<>> THEN {patch.list} ELSE Loaded(e)) :
       LET row == Patched(Row(e), patch.fields) IN
       Works(r, e, [pc |-> "delete", exp |-> e, fields |-> patch.fields, shares |-> Shares(row.amount, list, row.method),
                    fits |-> Fits(row.amount, list, row.method)])

\* the amount and the splits are left out
StartFields(r, e, patch) ==
  /\ "amount" \notin DOMAIN patch.fields /\ patch.list = <<>>
  /\ Works(r, e, [pc |-> "fields", exp |-> e, fields |-> patch.fields])

\* the old splits are deleted, then the new ones calculated, which may refuse the request
DeleteSplits(r) ==
  /\ req[r].pc = "delete"
  /\ splits' = {s \in splits : s.exp # req[r].exp}
  /\ IF req[r].fits
     THEN req' = [req EXCEPT ![r].pc = "insert"] /\ UNCHANGED torn
     ELSE req' = [req EXCEPT ![r] = Idle] /\ torn' = torn \cup {req[r].exp}
  /\ UNCHANGED <<expenses, made, batches, doubled>>

\* a foreign key refuses the splits of an expense that is gone
InsertSplits(r) ==
  /\ req[r].pc = "insert"
  /\ \/ ~Exists(req[r].exp) /\ req' = [req EXCEPT ![r] = Idle] /\ UNCHANGED <<splits, batches, doubled>>
     \/ /\ Exists(req[r].exp) /\ batches < MaxBatches
        /\ splits' = splits \cup Inserted(req[r].exp, req[r].shares)
        /\ batches' = batches + 1
        /\ req' = [req EXCEPT ![r].pc = "fields"]
        /\ doubled' = IF \E q \in Others(r, req[r].exp) : req[q].pc = "insert"
                      THEN doubled \cup {req[r].exp} ELSE doubled
  /\ UNCHANGED <<expenses, made, torn>>

\* the fields that the request names, of a row that may be gone
WriteFields(r) ==
  /\ req[r].pc = "fields"
  /\ expenses' = {IF x.id = req[r].exp THEN Patched(x, req[r].fields) ELSE x : x \in expenses}
  /\ req' = [req EXCEPT ![r] = Idle]
  /\ UNCHANGED <<splits, made, batches, torn, doubled>>

\* The writes that have been made leave the expense without its splits, or with
\* splits of another amount.
Halfway(q) == q.pc = "insert" \/ (q.pc = "fields" /\ "amount" \in DOMAIN q.fields)

\* The next statement fails, or the server is restarted: what has been written stays.
RequestFails(r) ==
  /\ req[r] # Idle
  /\ torn' = IF Halfway(req[r]) THEN torn \cup {req[r].exp} ELSE torn
  /\ req' = [req EXCEPT ![r] = Idle]
  /\ UNCHANGED <<tables, doubled>>

\* settleUp finds one split of the user for the expense ...
StartSettle(r, s) ==
  /\ ~s.settled
  /\ Works(r, s.exp, [pc |-> "settle", exp |-> s.exp, split |-> s])

\* Slip: a row that is gone is inserted as it was read
SaveSettledAsRead(r) ==
  /\ req[r].pc = "settle"
  /\ LET s == req[r].split IN
     splits' = IF s \in splits THEN (splits \ {s}) \cup {[s EXCEPT !.settled = TRUE]}
               ELSE IF Exists(s.exp) THEN splits \cup {s} ELSE splits
  /\ req' = [req EXCEPT ![r] = Idle]
  /\ UNCHANGED <<expenses, made, batches, torn, doubled>>

\* ... and saves it: a row that was deleted meanwhile is inserted again, unless the
\* expense is gone, or the row went after save had looked for it
SaveSettled(r) ==
  /\ req[r].pc = "settle"
  /\ LET s == [req[r].split EXCEPT !.settled = TRUE] IN
     \/ Exists(s.exp) /\ splits' = (splits \ {req[r].split}) \cup {s}
     \/ req[r].split \notin splits /\ UNCHANGED splits
  /\ req' = [req EXCEPT ![r] = Idle]
  /\ UNCHANGED <<expenses, made, batches, torn, doubled>>

-----------------------------------------------------------------------------
Ids == 1..made

Next ==
  \/ \E f \in Forms : Create(f)
  \/ \E e \in Ids : RemoveExpense(e)
  \/ \E r \in Requests :
       \/ \E e \in Ids, patch \in Patches : StartUpdate(r, e, patch) \/ StartFields(r, e, patch)
       \/ DeleteSplits(r) \/ InsertSplits(r) \/ WriteFields(r)
       \/ \E s \in splits : StartSettle(r, s)
       \/ SaveSettled(r) \/ RequestFails(r)

Spec == Init /\ [][Next]_vars

-----------------------------------------------------------------------------
AllFields == {patch.fields : patch \in Patches}
IsRequest(q) ==
  \/ q = Idle
  \/ \E U \in SUBSET Users : q \in [pc : {"delete", "insert", "fields"}, exp : Ids, fields : AllFields,
                                   shares : [U -> Int], fits : BOOLEAN]
  \/ q \in [pc : {"fields"}, exp : Ids, fields : AllFields]
  \/ q \in [pc : {"settle"}, exp : Ids, split : Split]

TypeOK ==
  /\ expenses \subseteq Expense
  /\ splits \subseteq Split
  /\ made \in 0..MaxExpenses
  /\ batches \in 0..MaxBatches
  /\ IsFiniteSet(splits) /\ \A s \in splits : s.exp \in Ids
  /\ \A x \in expenses : x.id \in Ids
  /\ DOMAIN req = Requests /\ \A r \in Requests : IsRequest(req[r])
  /\ torn \cup doubled \subseteq Ids

Working(e, pcs) == \E r \in Requests : req[r].pc \in pcs /\ req[r].exp = e

(* The splits of an expense add up to its amount, to the cent that         *)
(* calculateSplits tolerates, whatever was rounded, named twice, settled,  *)
(* or left out of an update.  What leaves it otherwise is two requests     *)
(* about it at once, and an update that is refused (expenses.service.ts:   *)
(* 308), fails or is cut off by a restart between the deletion of the old  *)
(* splits (305) and the insertion of the new ones (323), or between that   *)
(* and the write of a new amount (329): there is no transaction.           *)
SharesAddUp ==
  \A x \in expenses :
    (x.id \notin torn /\ ~Working(x.id, {"insert", "fields"}))
      => Abs(Worth(SplitsOf(x.id)) - x.amount) <= 1

(* Nobody owes a share of an expense twice, although updates delete and    *)
(* insert, and settling up inserts a split that an update has deleted      *)
(* (expenses.service.ts:521): only two updates that are between deletion   *)
(* and insertion at once double the shares.                                *)
OwedOnce ==
  \A s, t \in splits :
    (s.exp = t.exp /\ s.user = t.user /\ ~s.settled /\ ~t.settled /\ s.exp \notin doubled) => s = t

\* Numbers name the expenses; two requests about one at a time are on record.
IdsInv ==
  /\ \A x, y \in expenses : x.id = y.id => x = y
  /\ \A r, q \in Requests :
       r # q /\ req[r] # Idle /\ req[q] # Idle /\ req[r].exp = req[q].exp => req[r].exp \in torn
  /\ \A r \in Requests : req[r].pc = "settle" => req[r].split.exp = req[r].exp

\* Before an update inserts, nobody owes a share of the expense, but for doubled ones.
OwedInv ==
  /\ OwedOnce
  /\ \A r \in Requests : req[r].pc = "insert" /\ req[r].exp \notin doubled
       => \A s \in SplitsOf(req[r].exp) : s.settled

\* The shares in the table, and those an update is about to insert, fit the amount
\* that the row of the expense has, and that the update is about to write.
Even(x, total) == Abs(total - x.amount) <= 1
Whole(S) == S # {} /\ \A s, t \in S : s.user = t.user => s = t
Shared(x) ==
  /\ ~Working(x.id, {"insert", "fields"}) => Whole(SplitsOf(x.id)) /\ Even(x, Worth(SplitsOf(x.id)))
  /\ \A r \in Requests : req[r].exp = x.id =>
       /\ req[r].pc = "insert" => req[r].fits /\ SplitsOf(x.id) = {}
       /\ req[r].pc \in {"delete", "insert"} /\ req[r].fits =>
            DOMAIN req[r].shares # {} /\ Even(Patched(x, req[r].fields), Total(req[r].shares))
       /\ req[r].pc = "fields" =>
            Whole(SplitsOf(x.id)) /\ Even(Patched(x, req[r].fields), Worth(SplitsOf(x.id)))
       /\ req[r].pc = "settle" => req[r].split \in SplitsOf(x.id)
ShareInv == \A x \in expenses : x.id \notin torn => Shared(x)

\* The inductive invariant.
IInv == TypeOK /\ IdsInv /\ OwedInv /\ ShareInv

\* who owes whom
Debts == {s \in splits : \E x \in expenses : s \in Open(x, splits)}
Net(u) == Worth({s \in Debts : Row(s.exp).payer = u}) - Worth({s \in Debts : s.user = u})
Suggested == Settlements(Balances(Users, expenses, splits))

Moved(t, u) ==
  Total([i \in {i \in DOMAIN t : t[i].from = u} |-> t[i].amount])
  - Total([i \in {i \in DOMAIN t : t[i].to = u} |-> t[i].amount])

(* Whoever makes the transfers that getSettlements suggests is even with   *)
(* everybody, but for the single cents that getBalances does not credit    *)
(* (expenses.service.ts:409) and the loop drops (line 462): a cent per     *)
(* expense and per participant at most.  Shares below zero, which the      *)
(* rounding of a few cents among many leaves, are out of it: line 409 does *)
(* not debit their payer.  The rows are looked at while no request is at   *)
(* work: RequestFails leaves them as any request at work has left them.    *)
TransfersSettle ==
  ((\A r \in Requests : req[r] = Idle) /\ \A s \in splits : s.amount >= 0) =>
    \E t \in {Suggested} : \A u \in Users :
      Abs(Net(u) + Moved(t, u)) <= Cardinality(expenses) + Cardinality(Users)

(* SettlementSummary.tsx:4-5: the settlement paths come "with actionable   *)
(* "Settle" buttons for each transaction"; the button settles the splits   *)
(* of the sender on what the receiver paid (ExpensesScreen.tsx:206-211),   *)
(* so there must be one.                                                   *)
EveryTransferActs ==
  \A t \in Range(Suggested) :
    \E s \in splits : s.user = t.from /\ ~s.settled /\ Row(s.exp).payer = t.to
=============================================================================
