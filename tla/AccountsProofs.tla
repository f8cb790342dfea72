--------------------------- MODULE AccountsProofs ---------------------------
(***************************************************************************)
(* Theorems about Accounts, for any number of requests, people, provider   *)
(* ids, rows, codes and links.                                             *)
(***************************************************************************)
EXTENDS Accounts, FiniteSetTheorems, TLAPS

-----------------------------------------------------------------------------
(* Types. *)

\* An update by id keeps the table a table, and which ids it holds.
LEMMA PutKeeps ==
  ASSUME rows \in [Ids -> Row \cup {None}], NEW i \in Ids, NEW row,
         Exists(i) => row \in Row, Put(i, row)
  PROVE  /\ rows' \in [Ids -> Row \cup {None}]
         /\ \A j \in Ids : rows'[j] # None <=> Exists(j)
         /\ \A j \in Ids \ {i} : rows'[j] = rows[j]
         /\ Exists(i) => rows'[i] = row
BY RowAssumption DEF Put, Exists

\* One column of a row at a time.
LEMMA ColumnTypes ==
  ASSUME NEW row \in Row
  PROVE  /\ \A p \in Passwords \cup {None} : [row EXCEPT !.pw = p] \in Row
         /\ \A p \in Passwords \cup {None} : [row EXCEPT !.pw = p, !.tries = 0] \in Row
         /\ \A t \in Tokens : [row EXCEPT !.code = t, !.tries = 0, !.recent = TRUE] \in Row
         /\ \A t \in Tokens : [row EXCEPT !.link = t] \in Row
         /\ \A t \in Tokens : [row EXCEPT !.code = t] \in Row
         /\ \A d \in Identities \cup {None} : [row EXCEPT !.ident = d] \in Row
         /\ [row EXCEPT !.tries = @ + 1] \in Row
         /\ [row EXCEPT !.verified = TRUE, !.tries = 0] \in Row
         /\ [row EXCEPT !.verified = TRUE] \in Row
         /\ [row EXCEPT !.recent = FALSE] \in Row
         /\ [row EXCEPT !.old = TRUE, !.recent = FALSE] \in Row
<1>1. \A p \in Passwords \cup {None} : [row EXCEPT !.pw = p] \in Row
  BY DEF Row
<1>2. \A p \in Passwords \cup {None} : [row EXCEPT !.pw = p, !.tries = 0] \in Row
  BY DEF Row
<1>3. \A t \in Tokens : [row EXCEPT !.code = t, !.tries = 0, !.recent = TRUE] \in Row
  BY DEF Row
<1>4. \A t \in Tokens : [row EXCEPT !.link = t] \in Row
  BY DEF Row
<1>5. \A t \in Tokens : [row EXCEPT !.code = t] \in Row
  BY DEF Row
<1>6. \A d \in Identities \cup {None} : [row EXCEPT !.ident = d] \in Row
  BY DEF Row
<1>7. [row EXCEPT !.tries = @ + 1] \in Row
  BY DEF Row
<1>8. [row EXCEPT !.verified = TRUE, !.tries = 0] \in Row /\ [row EXCEPT !.verified = TRUE] \in Row
  BY DEF Row
<1>9. [row EXCEPT !.recent = FALSE] \in Row /\ [row EXCEPT !.old = TRUE, !.recent = FALSE] \in Row
  BY DEF Row
<1> QED
  BY <1>1, <1>2, <1>3, <1>4, <1>5, <1>6, <1>7, <1>8, <1>9

LEMMA NewRowTypes ==
  /\ \A p \in Passwords \cup {None} : EmailRow(p) \in Row
  /\ \A d \in Identities \cup {None}, m \in BOOLEAN : OAuthRow(d, m) \in Row
<1>1. 0 \in Tokens
  BY BoundsAssumption DEF Tokens
<1> QED
  BY <1>1 DEF EmailRow, OAuthRow, Row

\* The stages at which a request holds the id of a row.
Named == {"recheck", "delete", "refresh", "cooldown", "issue", "resend", "count", "accept", "set", "link",
          "purge", "blacklist", "relink", "signedIn"}

(* Ids are given in order, and a request or the blacklist names only ids   *)
(* that have been given.                                                   *)
IdsUsed ==
  /\ \A i \in Ids : i > made => ~Exists(i)
  /\ \A r \in Requests : req[r].pc \in Named => req[r].id \in 1..made
  /\ black \subseteq 1..made

\* Whatever a request becomes is a request.
LEMMA RequestTypes ==
  ASSUME req \in [Requests -> Request], NEW r \in Requests, NEW q \in Request, Goes(r, q)
  PROVE  req' \in [Requests -> Request]
BY DEF Goes

LEMMA IdleTypes ==
  /\ Idle \in Request
  /\ \A q \in Request, pc \in Stages : [q EXCEPT !.pc = pc] \in Request
  /\ \A q \in Request, pc \in Stages : [q EXCEPT !.flag = FALSE, !.pc = pc] \in Request
  /\ \A q \in Request, pc \in Stages, i \in {0} \cup Ids : [q EXCEPT !.pc = pc, !.id = i] \in Request
  /\ \A q \in Request, pc \in Stages, i \in Ids, t \in Tokens :
       [q EXCEPT !.pc = pc, !.id = i, !.token = t] \in Request
  /\ \A q \in Request, pc \in Stages, i \in Ids, t \in Tokens :
       [q EXCEPT !.pc = pc, !.id = i, !.token = t, !.flag = TRUE] \in Request
  /\ \A q \in Request, pc \in Stages, i \in Ids, p \in Passwords :
       [q EXCEPT !.pc = pc, !.id = i, !.pw = p] \in Request
  /\ \A q \in Request, pc \in Stages, i \in Ids, d \in Identities :
       [q EXCEPT !.pc = pc, !.id = i, !.ident = d] \in Request
  /\ \A q \in Request, pc \in Stages, i \in Ids, f \in BOOLEAN :
       [q EXCEPT !.pc = pc, !.id = i, !.flag = f] \in Request
  /\ \A q \in Request, pc \in Stages, d \in Identities, f \in BOOLEAN :
       [q EXCEPT !.pc = pc, !.ident = d, !.flag = f] \in Request
  /\ \A q \in Request, p \in Passwords, f \in BOOLEAN : [q EXCEPT !.pw = p, !.flag = f] \in Request
  /\ \A q \in Request : [q EXCEPT !.id = 0] \in Request
<1>1. Idle \in Request
  BY BoundsAssumption DEF Idle, Request, Stages, Tokens
<1>2. \A q \in Request, pc \in Stages : [q EXCEPT !.pc = pc] \in Request
  BY DEF Request
<1>3. \A q \in Request, pc \in Stages : [q EXCEPT !.flag = FALSE, !.pc = pc] \in Request
  BY DEF Request
<1>4. \A q \in Request, pc \in Stages, i \in {0} \cup Ids : [q EXCEPT !.pc = pc, !.id = i] \in Request
  BY DEF Request
<1>5. \A q \in Request, pc \in Stages, i \in Ids, t \in Tokens :
        /\ [q EXCEPT !.pc = pc, !.id = i, !.token = t] \in Request
        /\ [q EXCEPT !.pc = pc, !.id = i, !.token = t, !.flag = TRUE] \in Request
  BY DEF Request
<1>6. \A q \in Request, pc \in Stages, i \in Ids, p \in Passwords :
        [q EXCEPT !.pc = pc, !.id = i, !.pw = p] \in Request
  BY DEF Request
<1>7. \A q \in Request, pc \in Stages, i \in Ids, d \in Identities :
        [q EXCEPT !.pc = pc, !.id = i, !.ident = d] \in Request
  BY DEF Request
<1>8. \A q \in Request, pc \in Stages, i \in Ids, f \in BOOLEAN :
        [q EXCEPT !.pc = pc, !.id = i, !.flag = f] \in Request
  BY DEF Request
<1>9. \A q \in Request, pc \in Stages, d \in Identities, f \in BOOLEAN :
        [q EXCEPT !.pc = pc, !.ident = d, !.flag = f] \in Request
  BY DEF Request
<1>10. \A q \in Request, p \in Passwords, f \in BOOLEAN : [q EXCEPT !.pw = p, !.flag = f] \in Request
  BY DEF Request
<1>11. \A q \in Request : [q EXCEPT !.id = 0] \in Request
  BY DEF Request
<1> QED
  BY <1>1, <1>2, <1>3, <1>4, <1>5, <1>6, <1>7, <1>8, <1>9, <1>10, <1>11

\* The one row that has the address.
LEMMA HolderExists ==
  ASSUME Holders # {}
  PROVE  Holder \in Ids /\ Exists(Holder)
BY DEF Holders, Holder

LEMMA GivenIds == made \in 0..MaxRows => 1..made \subseteq Ids
BY BoundsAssumption DEF Ids

LEMMA MeetsTypes ==
  ASSUME TypeOK, NEW r \in Requests, NEW q \in Request, Meets(r, q)
  PROVE  req' \in [Requests -> Request]
<1>1. \A pc \in {"insert"} : [q EXCEPT !.pc = pc] \in Request
  BY IdleTypes DEF Stages
<1>2. ASSUME Holders # {}
      PROVE  [q EXCEPT !.pc = IF q.flag THEN "recheck" ELSE "refresh", !.id = Holder] \in Request
  <2> DEFINE pc == IF q.flag THEN "recheck" ELSE "refresh"
  <2>1. pc \in Stages
    BY DEF Stages
  <2> HIDE DEF pc
  <2>2. [q EXCEPT !.pc = pc, !.id = Holder] \in Request
    BY <1>2, <2>1, IdleTypes, HolderExists
  <2> QED
    BY <2>2 DEF pc
<1> QED
  BY <1>1, <1>2, IdleTypes, RequestTypes DEF Meets, TypeOK

\* A request of a client.
LEMMA AsksTypes ==
  ASSUME TypeOK, NEW r \in Requests, Asks(r)
  PROVE  TypeOK'
<1> USE DEF stored
<1>0. rows \in [Ids -> Row \cup {None}] /\ req \in [Requests -> Request] /\ missed \in [Ids -> Nat]
      /\ req[r] \in Request /\ issued \in 0..MaxTokens
  BY DEF TypeOK
<1>1. ASSUME NEW p \in Passwords, NEW force \in BOOLEAN, Register(r, p, force)
      PROVE  TypeOK'
  <2>1. [Idle EXCEPT !.pw = p, !.flag = force] \in Request
    BY IdleTypes
  <2> QED
    BY <1>1, <2>1, MeetsTypes DEF Register, TypeOK
<1>2. ASSUME NEW i \in Ids, SendCode(r, i)
      PROVE  TypeOK'
  <2>1. [Idle EXCEPT !.pc = "cooldown", !.id = i] \in Request
    BY IdleTypes DEF Stages
  <2> QED
    BY <1>2, <2>1, RequestTypes DEF SendCode, TypeOK
<1>3. ASSUME NEW i \in Ids, NEW t \in 0..issued, TryCode(r, i, t)
      PROVE  TypeOK'
  <2>1. t \in Tokens
    BY <1>0, BoundsAssumption DEF Tokens
  <2>2. [Idle EXCEPT !.pc = IF t = rows[i].code THEN "accept" ELSE "count", !.id = i, !.token = t] \in Request
    <3> DEFINE pc == IF t = rows[i].code THEN "accept" ELSE "count"
    <3>1. pc \in Stages
      BY DEF Stages
    <3> HIDE DEF pc
    <3>2. [Idle EXCEPT !.pc = pc, !.id = i, !.token = t] \in Request
      BY <2>1, <3>1, IdleTypes
    <3> QED
      BY <3>2 DEF pc
  <2>3. missed' \in [Ids -> Nat]
    BY <1>0, <1>3 DEF TryCode
  <2> QED
    BY <1>3, <2>2, <2>3, RequestTypes DEF TryCode, TypeOK
<1>4. ASSUME NEW i \in Ids, NEW p \in Passwords, NEW q \in Passwords, ChangePassword(r, i, p, q)
      PROVE  TypeOK'
  <2>1. [Idle EXCEPT !.pc = "set", !.id = i, !.pw = q] \in Request
    BY IdleTypes DEF Stages
  <2> QED
    BY <1>4, <2>1, RequestTypes DEF ChangePassword, TypeOK
<1>5. ASSUME ForgotPassword(r)
      PROVE  TypeOK'
  <2>1. Holder \in Ids
    BY <1>5, HolderExists DEF ForgotPassword
  <2>2. [Idle EXCEPT !.pc = "link", !.id = Holder] \in Request
    BY <2>1, IdleTypes DEF Stages
  <2> QED
    BY <1>5, <2>2, RequestTypes DEF ForgotPassword, TypeOK
<1>6. ASSUME NEW i \in Ids, NEW p \in Passwords, Remove(r, i, p)
      PROVE  TypeOK'
  <2>1. [Idle EXCEPT !.pc = "purge", !.id = i] \in Request
    BY IdleTypes DEF Stages
  <2> QED
    BY <1>6, <2>1, RequestTypes DEF Remove, TypeOK
<1>7. ASSUME NEW d \in Identities, NEW m \in BOOLEAN, OAuthLogin(r, d, m)
      PROVE  TypeOK'
  <2>1. ASSUME NEW i \in Known(d)
        PROVE  [Idle EXCEPT !.pc = "signedIn", !.id = i, !.ident = d] \in Request
    BY IdleTypes DEF Stages, Known
  <2>2. [Idle EXCEPT !.pc = IF m THEN "byMail" ELSE "insertOAuth", !.ident = d, !.flag = m] \in Request
    BY IdleTypes DEF Stages
  <2>3. req' \in [Requests -> Request]
    BY <1>0, <1>7, <2>1, <2>2, RequestTypes DEF OAuthLogin
  <2> QED
    BY <1>7, <2>3 DEF OAuthLogin, TypeOK
<1>8. ASSUME NEW i \in Ids, VerifyEmail(r, i)
      PROVE  TypeOK'
  <2>1. rows[i].code \in Tokens
    BY <1>0, <1>8 DEF VerifyEmail, Exists, Row
  <2>2. [Idle EXCEPT !.pc = "accept", !.id = i, !.token = rows[i].code, !.flag = TRUE] \in Request
    BY <2>1, IdleTypes DEF Stages
  <2> QED
    BY <1>8, <2>2, RequestTypes DEF VerifyEmail, TypeOK
<1>9. ASSUME Resend(r)
      PROVE  TypeOK'
  <2>1. Holder \in Ids
    BY <1>9, HolderExists DEF Resend
  <2>2. [Idle EXCEPT !.pc = "resend", !.id = Holder] \in Request
    BY <2>1, IdleTypes DEF Stages
  <2> QED
    BY <1>9, <2>2, RequestTypes DEF Resend, TypeOK
<1> QED
  BY <1>1, <1>2, <1>3, <1>4, <1>5, <1>6, <1>7, <1>8, <1>9 DEF Asks

\* An update by the id that the request holds.
LEMMA PutTypes ==
  ASSUME TypeOK, IdsUsed, NEW r \in Requests, req[r].pc \in Named
  PROVE  /\ req[r].id \in Ids
         /\ req[r] \in Request
         /\ Exists(req[r].id) => rows[req[r].id] \in Row
<1>1. req[r].id \in Ids
  BY GivenIds DEF IdsUsed, TypeOK
<1> QED
  BY <1>1 DEF TypeOK, Exists

LEMMA WritesTypes ==
  ASSUME TypeOK, IdsUsed, NEW r \in Requests, Writes(r)
  PROVE  TypeOK'
<1> USE DEF stored
<1>0. /\ rows \in [Ids -> Row \cup {None}] /\ req \in [Requests -> Request] /\ missed \in [Ids -> Nat]
      /\ req[r] \in Request /\ issued \in 0..MaxTokens /\ made \in 0..MaxRows /\ late \subseteq Requests
  BY DEF TypeOK
<1>1. /\ Idle \in Request
      /\ \A pc \in Stages : [req[r] EXCEPT !.pc = pc] \in Request
      /\ \A pc \in Stages : [req[r] EXCEPT !.flag = FALSE, !.pc = pc] \in Request
      /\ \A pc \in Stages, i \in Ids : [req[r] EXCEPT !.pc = pc, !.id = i] \in Request
      /\ \A i \in Ids, f \in BOOLEAN : [req[r] EXCEPT !.pc = "signedIn", !.id = i, !.flag = f] \in Request
      /\ [req[r] EXCEPT !.id = 0] \in Request
  <2>1. req[r] \in Request /\ "signedIn" \in Stages /\ Ids \subseteq {0} \cup Ids
    BY <1>0 DEF Stages
  <2> HIDE DEF stored
  <2> QED
    BY <2>1, IdleTypes
<1>2. Ends(r) => req' \in [Requests -> Request] /\ late' \subseteq Requests
  BY <1>0, <1>1, RequestTypes DEF Ends
<1>3. \A pc \in Stages : To(r, pc) => req' \in [Requests -> Request]
  BY <1>0, <1>1, RequestTypes DEF To
<1>4. \A i \in Ids, f \in BOOLEAN : SignsIn(r, i, f) => req' \in [Requests -> Request]
  BY <1>0, <1>1, RequestTypes DEF SignsIn
<1>5. Mails(req[r].id) => mailed' \in [Tokens -> {0} \cup Ids] /\ issued' \in 0..MaxTokens /\ issued + 1 \in Tokens
  BY <1>0, BoundsAssumption DEF Mails, TypeOK, Request, Tokens
<1>6. ASSUME made < MaxRows
      PROVE  made + 1 \in 0..MaxRows /\ made + 1 \in Ids
  BY <1>0, <1>6, BoundsAssumption DEF Ids
<1>7. Holders # {} => Holder \in Ids
  BY HolderExists
<1>8. req[r].pc \in Named => req[r].id \in Ids /\ (Exists(req[r].id) => rows[req[r].id] \in Row)
  BY PutTypes
<1>9. ASSUME missed' = [missed EXCEPT ![req[r].id] = 0]
      PROVE  missed' \in [Ids -> Nat]
  BY <1>0, <1>9
<1>10. CASE Find(r)
  BY <1>1, <1>10, MeetsTypes DEF Find, TypeOK
<1>11. CASE Recheck(r)
  <2>1. req' \in [Requests -> Request]
    BY <1>0, <1>1, <1>11, RequestTypes DEF Recheck, Stages
  <2> QED
    BY <1>11, <2>1 DEF Recheck, TypeOK
<1>12. CASE HardDelete(r)
  <2>1. rows' \in [Ids -> Row \cup {None}]
    BY <1>0, <1>12 DEF HardDelete
  <2> QED
    BY <1>3, <1>12, <2>1 DEF HardDelete, TypeOK, Stages
<1>13. CASE Insert(r)
  <2>1. req[r].pw \in Passwords \cup {None}
    BY <1>0 DEF Request
  <2>2. rows' \in [Ids -> Row \cup {None}] /\ made' \in 0..MaxRows
    BY <1>0, <1>6, <1>13, <2>1, NewRowTypes DEF Insert
  <2> QED
    BY <1>2, <1>13, <2>2 DEF Insert, TypeOK
<1>14. CASE Refresh(r)
  <2>1. req[r].pw \in Passwords \cup {None}
    BY <1>0 DEF Request
  <2>2. rows' \in [Ids -> Row \cup {None}]
    BY <1>0, <1>8, <1>14, <2>1, PutKeeps, ColumnTypes DEF Refresh, At, Named
  <2> QED
    BY <1>2, <1>9, <1>14, <2>2 DEF Refresh, TypeOK
<1>15. CASE Cooldown(r)
  <2>1. req' \in [Requests -> Request]
    BY <1>0, <1>1, <1>15, RequestTypes DEF Cooldown, Stages
  <2> QED
    BY <1>15, <2>1 DEF Cooldown, TypeOK
<1>16. CASE Issue(r)
  <2>1. rows' \in [Ids -> Row \cup {None}]
    BY <1>0, <1>5, <1>8, <1>16, PutKeeps, ColumnTypes DEF Issue, At, Named
  <2> QED
    BY <1>2, <1>5, <1>9, <1>16, <2>1 DEF Issue, TypeOK
<1>17. CASE CountMiss(r)
  <2>1. rows' \in [Ids -> Row \cup {None}]
    BY <1>0, <1>8, <1>17, PutKeeps, ColumnTypes DEF CountMiss, At, Named
  <2> QED
    BY <1>2, <1>17, <2>1 DEF CountMiss, TypeOK
<1>18. CASE Accept(r)
  <2>1. rows' \in [Ids -> Row \cup {None}]
    BY <1>0, <1>8, <1>18, PutKeeps, ColumnTypes DEF Accept, At, Named
  <2>2. req' \in [Requests -> Request] /\ late' \subseteq Requests
    BY <1>0, <1>1, <1>18, RequestTypes DEF Accept, Overtakes
  <2> QED
    BY <1>9, <1>18, <2>1, <2>2 DEF Accept, TypeOK
<1>19. CASE SetPassword(r)
  <2>1. req[r].pw \in Passwords \cup {None}
    BY <1>0 DEF Request
  <2>2. rows' \in [Ids -> Row \cup {None}]
    BY <1>0, <1>8, <1>19, <2>1, PutKeeps, ColumnTypes DEF SetPassword, At, Named
  <2> QED
    BY <1>2, <1>19, <2>2 DEF SetPassword, TypeOK
<1>20. CASE MailLink(r)
  <2>1. rows' \in [Ids -> Row \cup {None}]
    BY <1>0, <1>5, <1>8, <1>20, PutKeeps, ColumnTypes DEF MailLink, At, Named
  <2> QED
    BY <1>2, <1>5, <1>20, <2>1 DEF MailLink, TypeOK
<1>21. CASE Purge(r)
  <2>1. rows' \in [Ids -> Row \cup {None}] /\ req' \in [Requests -> Request]
    BY <1>0, <1>1, <1>3, <1>21, RequestTypes DEF Purge, Stages
  <2> QED
    BY <1>21, <2>1 DEF Purge, TypeOK
<1>22. CASE Blacklist(r)
  <2>1. black' \subseteq Ids
    BY <1>8, <1>22 DEF Blacklist, At, Named, TypeOK
  <2> QED
    BY <1>2, <1>22, <2>1 DEF Blacklist, TypeOK
<1>23. CASE ByMail(r)
  <2>1. req' \in [Requests -> Request]
    BY <1>0, <1>1, <1>3, <1>7, <1>23, RequestTypes DEF ByMail, Stages
  <2> QED
    BY <1>23, <2>1 DEF ByMail, TypeOK
<1>24. CASE Relink(r)
  <2>1. req[r].ident \in Identities \cup {None}
    BY <1>0 DEF Request
  <2>2. rows' \in [Ids -> Row \cup {None}]
    BY <1>0, <1>8, <1>24, <2>1, PutKeeps, ColumnTypes DEF Relink, At, Named
  <2> QED
    BY <1>4, <1>8, <1>24, <2>2 DEF Relink, TypeOK, At, Named
<1>25. CASE InsertOAuth(r)
  <2>1. req[r].ident \in Identities \cup {None} /\ req[r].flag \in BOOLEAN
    BY <1>0 DEF Request
  <2>2. OAuthRow(req[r].ident, req[r].flag) \in Row
    BY <2>1, NewRowTypes
  <2>3. rows' \in [Ids -> Row \cup {None}] /\ made' \in 0..MaxRows /\ req' \in [Requests -> Request]
    BY <1>0, <1>3, <1>4, <1>6, <1>25, <2>2 DEF InsertOAuth, Stages
  <2> QED
    BY <1>25, <2>3 DEF InsertOAuth, TypeOK
<1>26. CASE AgainIdent(r)
  <2>1. req' \in [Requests -> Request]
    BY <1>3, <1>4, <1>26 DEF AgainIdent, Stages, Known
  <2> QED
    BY <1>26, <2>1 DEF AgainIdent, TypeOK
<1>27. CASE AgainMail(r)
  <2>1. req' \in [Requests -> Request]
    BY <1>0, <1>1, <1>4, <1>7, <1>27, RequestTypes DEF AgainMail
  <2> QED
    BY <1>27, <2>1 DEF AgainMail, TypeOK
<1>28. CASE Answered(r)
  BY <1>0, <1>1, <1>28, RequestTypes DEF Answered, TypeOK
<1>29. CASE IssueToken(r)
  <2>1. rows' \in [Ids -> Row \cup {None}]
    BY <1>0, <1>5, <1>8, <1>29, PutKeeps, ColumnTypes DEF IssueToken, At, Named
  <2> QED
    BY <1>2, <1>5, <1>29, <2>1 DEF IssueToken, TypeOK
<1>30. CASE AcceptToken(r)
  <2>1. rows' \in [Ids -> Row \cup {None}]
    BY <1>0, <1>8, <1>30, PutKeeps, ColumnTypes DEF AcceptToken, At, Named
  <2>2. req' \in [Requests -> Request] /\ late' \subseteq Requests
    BY <1>0, <1>1, <1>30, RequestTypes DEF AcceptToken, Overtakes
  <2> QED
    BY <1>30, <2>1, <2>2 DEF AcceptToken, TypeOK
<1> QED
  BY <1>10, <1>11, <1>12, <1>13, <1>14, <1>15, <1>16, <1>17, <1>18, <1>19, <1>20, <1>21,
     <1>22, <1>23, <1>24, <1>25, <1>26, <1>27, <1>28, <1>29, <1>30 DEF Writes

\* What moves without a request.
LEMMA RestTypes ==
  ASSUME TypeOK,
         \/ \E i \in Ids, t \in 1..issued, p \in Passwords : ResetPassword(i, t, p)
         \/ Cleanup
         \/ \E i \in Ids : CodeExpires(i) \/ TimePasses(i)
  PROVE  TypeOK'
<1>0. /\ rows \in [Ids -> Row \cup {None}] /\ missed \in [Ids -> Nat] /\ 0 \in Tokens
      /\ \A i \in Ids : Exists(i) => rows[i] \in Row
  BY BoundsAssumption DEF TypeOK, Exists, Tokens
<1>1. ASSUME NEW i \in Ids, NEW t \in 1..issued, NEW p \in Passwords, ResetPassword(i, t, p)
      PROVE  TypeOK'
  <2>1. rows' \in [Ids -> Row \cup {None}]
    BY <1>0, <1>1, PutKeeps, ColumnTypes DEF ResetPassword
  <2> QED
    BY <1>1, <2>1 DEF ResetPassword, TypeOK
<1>2. CASE Cleanup
  <2>1. rows' \in [Ids -> Row \cup {None}]
    BY <1>0, <1>2 DEF Cleanup
  <2> QED
    BY <1>2, <2>1 DEF Cleanup, TypeOK
<1>3. ASSUME NEW i \in Ids, CodeExpires(i)
      PROVE  TypeOK'
  <2>1. rows' \in [Ids -> Row \cup {None}]
    BY <1>0, <1>3, PutKeeps, ColumnTypes DEF CodeExpires
  <2> QED
    BY <1>3, <2>1 DEF CodeExpires, TypeOK
<1>4. ASSUME NEW i \in Ids, TimePasses(i)
      PROVE  TypeOK'
  <2>1. rows' \in [Ids -> Row \cup {None}]
    BY <1>0, <1>4, PutKeeps, ColumnTypes DEF TimePasses
  <2> QED
    BY <1>4, <2>1 DEF TimePasses, TypeOK
<1> QED
  BY <1>1, <1>2, <1>3, <1>4

-----------------------------------------------------------------------------
(* What a step does to a row. *)

\* A row changes in place: its provider never, the rest for a reason.
Touched(i) ==
  /\ Exists(i) /\ rows'[i] # None
  /\ rows'[i].provider = rows[i].provider
  /\ \/ rows'[i].verified = rows[i].verified
     \/ \E r \in Requests : At(r, "accept") /\ req[r].id = i /\ rows'[i].verified /\ late' = late \cup Overtakes(i)
  /\ \/ rows'[i].code \in {rows[i].code, 0}
     \/ rows'[i].code = issued + 1 /\ issued' = issued + 1 /\ mailed'[issued + 1] = i
  /\ \/ rows'[i].link \in {rows[i].link, 0}
     \/ rows'[i].link = issued + 1 /\ issued' = issued + 1 /\ mailed'[issued + 1] = i
  /\ \/ rows'[i].ident = rows[i].ident
     \/ \E r \in Requests : At(r, "relink") /\ req[r].id = i
  /\ \/ rows'[i].pw = rows[i].pw
     \/ \E r \in Requests : At(r, "refresh") /\ req[r].id = i
     \/ \E r \in Requests : At(r, "set") /\ req[r].id = i
     \/ rows[i].link # 0 /\ req' = req

\* A row is deleted.
Gone(i) ==
  /\ Exists(i) /\ rows'[i] = None
  /\ \/ \E r \in Requests : req[r].id = i /\ (At(r, "purge") \/ At(r, "delete"))
     \/ Unverified(rows[i])

\* A row is inserted, under a new id and without a token.
Born(i) ==
  /\ i = made + 1 /\ made' = made + 1 /\ rows'[i] # None
  /\ rows'[i].code = 0 /\ rows'[i].link = 0
  /\ rows'[i].ident # None => rows'[i].provider = "oauth"

RowStep(i) == rows'[i] = rows[i] \/ Touched(i) \/ Gone(i) \/ Born(i)

\* Tokens and ids are never taken back.
Grows ==
  /\ made' \in Nat /\ made <= made' /\ issued <= issued' /\ issued' \in Nat
  /\ \A t \in 1..issued : mailed'[t] = mailed[t]

LEMMA RowSteps ==
  ASSUME TypeOK, IdsUsed, Next
  PROVE  Grows /\ \A i \in Ids : RowStep(i)
<1> USE DEF stored
<1>0. /\ rows \in [Ids -> Row \cup {None}] /\ made \in 0..MaxRows /\ issued \in 0..MaxTokens
      /\ mailed \in [Tokens -> {0} \cup Ids] /\ req \in [Requests -> Request]
      /\ 0 \in Tokens /\ \A i \in Ids : Exists(i) => rows[i] \in Row
  BY BoundsAssumption DEF TypeOK, Exists, Tokens
<1>1. /\ \A r \in Requests : At(r, "refresh") => req[r].id \in Ids
      /\ \A r \in Requests : At(r, "count") => req[r].id \in Ids
      /\ \A r \in Requests : At(r, "accept") => req[r].id \in Ids
      /\ \A r \in Requests : At(r, "issue") => req[r].id \in Ids
      /\ \A r \in Requests : At(r, "resend") => req[r].id \in Ids
      /\ \A r \in Requests : At(r, "set") => req[r].id \in Ids
      /\ \A r \in Requests : At(r, "link") => req[r].id \in Ids
      /\ \A r \in Requests : At(r, "relink") => req[r].id \in Ids
      /\ \A r \in Requests : At(r, "delete") => req[r].id \in Ids
      /\ \A r \in Requests : At(r, "purge") => req[r].id \in Ids
  BY PutTypes DEF At, Named
<1>2. ASSUME UNCHANGED <<made, mailed, issued>>
      PROVE  Grows
  BY <1>0, <1>2, BoundsAssumption DEF Grows
<1>3. ASSUME NEW i \in Ids, Mails(i), UNCHANGED made
      PROVE  Grows /\ issued' = issued + 1 /\ mailed'[issued + 1] = i /\ issued + 1 \in Tokens
  BY <1>0, <1>3, BoundsAssumption DEF Mails, Grows, Tokens
<1>4. ASSUME made < MaxRows, made' = made + 1, UNCHANGED <<mailed, issued>>
      PROVE  Grows /\ made + 1 \in Ids
  BY <1>0, <1>4, BoundsAssumption DEF Grows, Ids
<1>5. ASSUME NEW r \in Requests, Asks(r)
      PROVE  Grows /\ \A i \in Ids : RowStep(i)
  <2>1. UNCHANGED <<rows, made, mailed, issued>>
    BY <1>5 DEF Asks, Register, SendCode, Resend, VerifyEmail, TryCode, ChangePassword, ForgotPassword,
                Remove, OAuthLogin
  <2> QED
    BY <1>2, <2>1 DEF RowStep
<1>6. ASSUME NEW r \in Requests,
             \/ Find(r) \/ Recheck(r) \/ Cooldown(r) \/ Blacklist(r) \/ ByMail(r)
             \/ AgainIdent(r) \/ AgainMail(r) \/ Answered(r)
      PROVE  Grows /\ \A i \in Ids : RowStep(i)
  <2>1. UNCHANGED <<rows, made, mailed, issued>>
    BY <1>6 DEF Find, Recheck, Cooldown, Blacklist, ByMail, AgainIdent, AgainMail, Answered
  <2> QED
    BY <1>2, <2>1 DEF RowStep
<1>7. ASSUME NEW r \in Requests, HardDelete(r)
      PROVE  Grows /\ \A i \in Ids : RowStep(i)
  BY <1>0, <1>1, <1>2, <1>7 DEF HardDelete, RowStep, Gone, Exists
<1>8. ASSUME NEW r \in Requests, Purge(r)
      PROVE  Grows /\ \A i \in Ids : RowStep(i)
  BY <1>0, <1>1, <1>2, <1>8 DEF Purge, RowStep, Gone, Exists
<1>9. CASE Cleanup
  BY <1>0, <1>2, <1>9 DEF Cleanup, RowStep, Gone, Exists
<1>10. ASSUME NEW r \in Requests, Insert(r)
       PROVE  Grows /\ \A i \in Ids : RowStep(i)
  <2>1. CASE UNCHANGED <<rows, made>>
    BY <1>2, <1>10, <2>1 DEF Insert, RowStep
  <2>2. CASE made < MaxRows /\ made' = made + 1 /\ rows' = [rows EXCEPT ![made + 1] = EmailRow(req[r].pw)]
    <3>1. Grows /\ made + 1 \in Ids
      BY <1>4, <1>10, <2>2 DEF Insert
    <3>2. EmailRow(req[r].pw) \in Row
      BY <1>0, NewRowTypes DEF Request
    <3>3. EmailRow(req[r].pw) # None
      BY <3>2, RowAssumption
    <3>4. Born(made + 1)
      BY <1>0, <2>2, <3>1, <3>3 DEF Born, EmailRow
    <3> QED
      BY <1>0, <2>2, <3>1, <3>4 DEF RowStep
  <2> QED
    BY <1>10, <2>1, <2>2 DEF Insert
<1>11. ASSUME NEW r \in Requests, InsertOAuth(r)
       PROVE  Grows /\ \A i \in Ids : RowStep(i)
  <2> DEFINE new == OAuthRow(req[r].ident, req[r].flag)
  <2>1. CASE UNCHANGED <<rows, made>>
    BY <1>2, <1>11, <2>1 DEF InsertOAuth, RowStep
  <2>2. CASE made < MaxRows /\ made' = made + 1 /\ rows' = [rows EXCEPT ![made + 1] = new]
    <3>1. Grows /\ made + 1 \in Ids
      BY <1>4, <1>11, <2>2 DEF InsertOAuth
    <3>2. req[r].ident \in Identities \cup {None} /\ req[r].flag \in BOOLEAN
      BY <1>0 DEF Request
    <3>3. new \in Row
      BY <3>2, NewRowTypes
    <3>4. new # None
      BY <3>3, RowAssumption
    <3>5. new.code = 0 /\ new.link = 0 /\ new.provider = "oauth"
      BY DEF OAuthRow, EmailRow
    <3>6. Born(made + 1)
      BY <1>0, <2>2, <3>1, <3>4, <3>5 DEF Born
    <3> QED
      BY <1>0, <2>2, <3>1, <3>6 DEF RowStep
  <2> QED
    BY <1>11, <2>1, <2>2 DEF InsertOAuth
<1>12. ASSUME NEW r \in Requests, Refresh(r)
       PROVE  Grows /\ \A i \in Ids : RowStep(i)
  <2> DEFINE row == [rows[req[r].id] EXCEPT !.pw = req[r].pw, !.tries = 0]
  <2>1. req[r].id \in Ids /\ Put(req[r].id, row) /\ At(r, "refresh")
    BY <1>1, <1>12 DEF Refresh
  <2>2. Grows
    BY <1>2, <1>12 DEF Refresh
  <2>3. req[r].pw \in Passwords \cup {None} /\ req[r].ident \in Identities \cup {None}
    BY <1>0 DEF Request
  <2>4. Exists(req[r].id) => row \in Row
    BY <1>0, <2>1, <2>3, ColumnTypes
  <2>5. Exists(req[r].id) => Touched(req[r].id)
    <3>1. ASSUME Exists(req[r].id)
          PROVE  rows'[req[r].id] = row /\ rows'[req[r].id] # None
      BY <1>0, <2>1, <2>4, <3>1, RowAssumption DEF Put
    <3> QED
      BY <1>0, <1>12, <2>1, <2>2, <3>1 DEF Touched, Row, Refresh
  <2> QED
    BY <1>0, <2>1, <2>2, <2>5 DEF RowStep, Put, Exists
<1>13. ASSUME NEW r \in Requests, Issue(r)
       PROVE  Grows /\ \A i \in Ids : RowStep(i)
  <2> DEFINE row == [rows[req[r].id] EXCEPT !.code = issued + 1, !.tries = 0, !.recent = TRUE]
  <2>1. req[r].id \in Ids /\ Put(req[r].id, row) /\ At(r, "issue")
    BY <1>1, <1>13 DEF Issue
  <2>2. Grows /\ issued' = issued + 1 /\ mailed'[issued + 1] = req[r].id /\ issued + 1 \in Tokens
    BY <1>1, <1>3, <1>13 DEF Issue
  <2>3. req[r].pw \in Passwords \cup {None} /\ req[r].ident \in Identities \cup {None}
    BY <1>0 DEF Request
  <2>4. Exists(req[r].id) => row \in Row
    BY <1>0, <2>1, <2>2, <2>3, ColumnTypes
  <2>5. Exists(req[r].id) => Touched(req[r].id)
    <3>1. ASSUME Exists(req[r].id)
          PROVE  rows'[req[r].id] = row /\ rows'[req[r].id] # None
      BY <1>0, <2>1, <2>4, <3>1, RowAssumption DEF Put
    <3> QED
      BY <1>0, <1>13, <2>1, <2>2, <3>1 DEF Touched, Row, Issue
  <2> QED
    BY <1>0, <2>1, <2>2, <2>5 DEF RowStep, Put, Exists
<1>14. ASSUME NEW r \in Requests, CountMiss(r)
       PROVE  Grows /\ \A i \in Ids : RowStep(i)
  <2> DEFINE row == [rows[req[r].id] EXCEPT !.tries = @ + 1]
  <2>1. req[r].id \in Ids /\ Put(req[r].id, row) /\ At(r, "count")
    BY <1>1, <1>14 DEF CountMiss
  <2>2. Grows
    BY <1>2, <1>14 DEF CountMiss
  <2>3. req[r].pw \in Passwords \cup {None} /\ req[r].ident \in Identities \cup {None}
    BY <1>0 DEF Request
  <2>4. Exists(req[r].id) => row \in Row
    BY <1>0, <2>1, <2>3, ColumnTypes
  <2>5. Exists(req[r].id) => Touched(req[r].id)
    <3>1. ASSUME Exists(req[r].id)
          PROVE  rows'[req[r].id] = row /\ rows'[req[r].id] # None
      BY <1>0, <2>1, <2>4, <3>1, RowAssumption DEF Put
    <3> QED
      BY <1>0, <1>14, <2>1, <2>2, <3>1 DEF Touched, Row, CountMiss
  <2> QED
    BY <1>0, <2>1, <2>2, <2>5 DEF RowStep, Put, Exists
<1>15. ASSUME NEW r \in Requests, Accept(r)
       PROVE  Grows /\ \A i \in Ids : RowStep(i)
  <2> DEFINE row == [rows[req[r].id] EXCEPT !.verified = TRUE, !.tries = 0]
  <2>1. req[r].id \in Ids /\ Put(req[r].id, row) /\ At(r, "accept")
    BY <1>1, <1>15 DEF Accept
  <2>2. Grows
    BY <1>2, <1>15 DEF Accept
  <2>3. req[r].pw \in Passwords \cup {None} /\ req[r].ident \in Identities \cup {None}
    BY <1>0 DEF Request
  <2>4. Exists(req[r].id) => row \in Row
    BY <1>0, <2>1, <2>3, ColumnTypes
  <2>5. Exists(req[r].id) => Touched(req[r].id)
    <3>1. ASSUME Exists(req[r].id)
          PROVE  rows'[req[r].id] = row /\ rows'[req[r].id] # None
      BY <1>0, <2>1, <2>4, <3>1, RowAssumption DEF Put
    <3> QED
      BY <1>0, <1>15, <2>1, <2>2, <3>1 DEF Touched, Row, Accept
  <2> QED
    BY <1>0, <2>1, <2>2, <2>5 DEF RowStep, Put, Exists
<1>16. ASSUME NEW r \in Requests, SetPassword(r)
       PROVE  Grows /\ \A i \in Ids : RowStep(i)
  <2> DEFINE row == [rows[req[r].id] EXCEPT !.pw = req[r].pw]
  <2>1. req[r].id \in Ids /\ Put(req[r].id, row) /\ At(r, "set")
    BY <1>1, <1>16 DEF SetPassword
  <2>2. Grows
    BY <1>2, <1>16 DEF SetPassword
  <2>3. req[r].pw \in Passwords \cup {None} /\ req[r].ident \in Identities \cup {None}
    BY <1>0 DEF Request
  <2>4. Exists(req[r].id) => row \in Row
    BY <1>0, <2>1, <2>3, ColumnTypes
  <2>5. Exists(req[r].id) => Touched(req[r].id)
    <3>1. ASSUME Exists(req[r].id)
          PROVE  rows'[req[r].id] = row /\ rows'[req[r].id] # None
      BY <1>0, <2>1, <2>4, <3>1, RowAssumption DEF Put
    <3> QED
      BY <1>0, <1>16, <2>1, <2>2, <3>1 DEF Touched, Row, SetPassword
  <2> QED
    BY <1>0, <2>1, <2>2, <2>5 DEF RowStep, Put, Exists
<1>17. ASSUME NEW r \in Requests, MailLink(r)
       PROVE  Grows /\ \A i \in Ids : RowStep(i)
  <2> DEFINE row == [rows[req[r].id] EXCEPT !.link = issued + 1]
  <2>1. req[r].id \in Ids /\ Put(req[r].id, row) /\ At(r, "link")
    BY <1>1, <1>17 DEF MailLink
  <2>2. Grows /\ issued' = issued + 1 /\ mailed'[issued + 1] = req[r].id /\ issued + 1 \in Tokens
    BY <1>1, <1>3, <1>17 DEF MailLink
  <2>3. req[r].pw \in Passwords \cup {None} /\ req[r].ident \in Identities \cup {None}
    BY <1>0 DEF Request
  <2>4. Exists(req[r].id) => row \in Row
    BY <1>0, <2>1, <2>2, <2>3, ColumnTypes
  <2>5. Exists(req[r].id) => Touched(req[r].id)
    <3>1. ASSUME Exists(req[r].id)
          PROVE  rows'[req[r].id] = row /\ rows'[req[r].id] # None
      BY <1>0, <2>1, <2>4, <3>1, RowAssumption DEF Put
    <3> QED
      BY <1>0, <1>17, <2>1, <2>2, <3>1 DEF Touched, Row, MailLink
  <2> QED
    BY <1>0, <2>1, <2>2, <2>5 DEF RowStep, Put, Exists
<1>18. ASSUME NEW r \in Requests, Relink(r)
       PROVE  Grows /\ \A i \in Ids : RowStep(i)
  <2> DEFINE row == [rows[req[r].id] EXCEPT !.ident = req[r].ident]
  <2>1. req[r].id \in Ids /\ Put(req[r].id, row) /\ At(r, "relink")
    BY <1>1, <1>18 DEF Relink
  <2>2. Grows
    BY <1>2, <1>18 DEF Relink
  <2>3. req[r].pw \in Passwords \cup {None} /\ req[r].ident \in Identities \cup {None}
    BY <1>0 DEF Request
  <2>4. Exists(req[r].id) => row \in Row
    BY <1>0, <2>1, <2>3, ColumnTypes
  <2>5. Exists(req[r].id) => Touched(req[r].id)
    <3>1. ASSUME Exists(req[r].id)
          PROVE  rows'[req[r].id] = row /\ rows'[req[r].id] # None
      BY <1>0, <2>1, <2>4, <3>1, RowAssumption DEF Put
    <3> QED
      BY <1>0, <1>18, <2>1, <2>2, <3>1 DEF Touched, Row, Relink
  <2> QED
    BY <1>0, <2>1, <2>2, <2>5 DEF RowStep, Put, Exists
<1>19. ASSUME NEW i \in Ids, NEW t \in 1..issued, NEW p \in Passwords, ResetPassword(i, t, p)
       PROVE  Grows /\ \A j \in Ids : RowStep(j)
  <2>1. Grows /\ Exists(i) /\ rows[i] \in Row
    BY <1>0, <1>2, <1>19 DEF ResetPassword
  <2>2. ASSUME Put(i, [rows[i] EXCEPT !.pw = p]), t # 0, rows[i].link = t, req' = req
        PROVE  \A j \in Ids : RowStep(j)
    <3>1. rows'[i] = [rows[i] EXCEPT !.pw = p] /\ \A j \in Ids \ {i} : rows'[j] = rows[j]
      BY <1>0, <2>1, <2>2 DEF Put
    <3>2. [rows[i] EXCEPT !.pw = p] \in Row
      BY <1>0, <2>1, ColumnTypes
    <3>3. Touched(i)
      BY <1>0, <2>1, <2>2, <3>1, <3>2, RowAssumption DEF Touched, Row
    <3> QED
      BY <3>1, <3>3 DEF RowStep
  <2> QED
    BY <1>19, <2>1, <2>2 DEF ResetPassword
<1>20. ASSUME NEW i \in Ids, CodeExpires(i)
       PROVE  Grows /\ \A j \in Ids : RowStep(j)
  <2>1. Grows /\ Exists(i) /\ rows[i] \in Row
    BY <1>0, <1>2, <1>20 DEF CodeExpires
  <2>2. ASSUME Put(i, [rows[i] EXCEPT !.code = 0])
        PROVE  \A j \in Ids : RowStep(j)
    <3>1. rows'[i] = [rows[i] EXCEPT !.code = 0] /\ \A j \in Ids \ {i} : rows'[j] = rows[j]
      BY <1>0, <2>1, <2>2 DEF Put
    <3>2. [rows[i] EXCEPT !.code = 0] \in Row
      BY <1>0, <2>1, ColumnTypes
    <3>3. Touched(i)
      BY <1>0, <2>1, <2>2, <3>1, <3>2, RowAssumption DEF Touched, Row
    <3> QED
      BY <3>1, <3>3 DEF RowStep
  <2> QED
    BY <1>20, <2>1, <2>2 DEF CodeExpires
<1>21. ASSUME NEW i \in Ids, TimePasses(i)
       PROVE  Grows /\ \A j \in Ids : RowStep(j)
  <2>1. Grows /\ Exists(i) /\ rows[i] \in Row
    BY <1>0, <1>2, <1>21 DEF TimePasses
  <2>2. ASSUME Put(i, [rows[i] EXCEPT !.recent = FALSE])
        PROVE  \A j \in Ids : RowStep(j)
    <3>1. rows'[i] = [rows[i] EXCEPT !.recent = FALSE] /\ \A j \in Ids \ {i} : rows'[j] = rows[j]
      BY <1>0, <2>1, <2>2 DEF Put
    <3>2. [rows[i] EXCEPT !.recent = FALSE] \in Row
      BY <1>0, <2>1, ColumnTypes
    <3>3. Touched(i)
      BY <1>0, <2>1, <2>2, <3>1, <3>2, RowAssumption DEF Touched, Row
    <3> QED
      BY <3>1, <3>3 DEF RowStep
  <2>3. ASSUME Put(i, [rows[i] EXCEPT !.link = 0])
        PROVE  \A j \in Ids : RowStep(j)
    <3>1. rows'[i] = [rows[i] EXCEPT !.link = 0] /\ \A j \in Ids \ {i} : rows'[j] = rows[j]
      BY <1>0, <2>1, <2>3 DEF Put
    <3>2. [rows[i] EXCEPT !.link = 0] \in Row
      BY <1>0, <2>1, ColumnTypes
    <3>3. Touched(i)
      BY <1>0, <2>1, <2>3, <3>1, <3>2, RowAssumption DEF Touched, Row
    <3> QED
      BY <3>1, <3>3 DEF RowStep
  <2>4. ASSUME Put(i, [rows[i] EXCEPT !.old = TRUE, !.recent = FALSE])
        PROVE  \A j \in Ids : RowStep(j)
    <3>1. rows'[i] = [rows[i] EXCEPT !.old = TRUE, !.recent = FALSE] /\ \A j \in Ids \ {i} : rows'[j] = rows[j]
      BY <1>0, <2>1, <2>4 DEF Put
    <3>2. [rows[i] EXCEPT !.old = TRUE, !.recent = FALSE] \in Row
      BY <1>0, <2>1, ColumnTypes
    <3>3. Touched(i)
      BY <1>0, <2>1, <2>4, <3>1, <3>2, RowAssumption DEF Touched, Row
    <3> QED
      BY <3>1, <3>3 DEF RowStep
  <2> QED
    BY <1>21, <2>1, <2>2, <2>3, <2>4 DEF TimePasses
<1>22. ASSUME NEW r \in Requests, IssueToken(r)
       PROVE  Grows /\ \A i \in Ids : RowStep(i)
  <2> DEFINE row == [rows[req[r].id] EXCEPT !.code = issued + 1]
  <2>1. req[r].id \in Ids /\ Put(req[r].id, row) /\ At(r, "resend")
    BY <1>1, <1>22 DEF IssueToken
  <2>2. Grows /\ issued' = issued + 1 /\ mailed'[issued + 1] = req[r].id /\ issued + 1 \in Tokens
    BY <1>1, <1>3, <1>22 DEF IssueToken
  <2>3. req[r].pw \in Passwords \cup {None} /\ req[r].ident \in Identities \cup {None}
    BY <1>0 DEF Request
  <2>4. Exists(req[r].id) => row \in Row
    BY <1>0, <2>1, <2>2, <2>3, ColumnTypes
  <2>5. Exists(req[r].id) => Touched(req[r].id)
    <3>1. ASSUME Exists(req[r].id)
          PROVE  rows'[req[r].id] = row /\ rows'[req[r].id] # None
      BY <1>0, <2>1, <2>4, <3>1, RowAssumption DEF Put
    <3> QED
      BY <1>0, <1>22, <2>1, <2>2, <3>1 DEF Touched, Row, IssueToken
  <2> QED
    BY <1>0, <2>1, <2>2, <2>5 DEF RowStep, Put, Exists
<1>23. ASSUME NEW r \in Requests, AcceptToken(r)
       PROVE  Grows /\ \A i \in Ids : RowStep(i)
  <2> DEFINE row == [rows[req[r].id] EXCEPT !.verified = TRUE]
  <2>1. req[r].id \in Ids /\ Put(req[r].id, row) /\ At(r, "accept")
    BY <1>1, <1>23 DEF AcceptToken
  <2>2. Grows
    BY <1>2, <1>23 DEF AcceptToken
  <2>3. req[r].pw \in Passwords \cup {None} /\ req[r].ident \in Identities \cup {None}
    BY <1>0 DEF Request
  <2>4. Exists(req[r].id) => row \in Row
    BY <1>0, <2>1, <2>3, ColumnTypes
  <2>5. Exists(req[r].id) => Touched(req[r].id)
    <3>1. ASSUME Exists(req[r].id)
          PROVE  rows'[req[r].id] = row /\ rows'[req[r].id] # None
      BY <1>0, <2>1, <2>4, <3>1, RowAssumption DEF Put
    <3> QED
      BY <1>0, <1>23, <2>1, <2>2, <3>1 DEF Touched, Row, AcceptToken
  <2> QED
    BY <1>0, <2>1, <2>2, <2>5 DEF RowStep, Put, Exists
<1> QED
  BY <1>5, <1>6, <1>7, <1>8, <1>9, <1>10, <1>11, <1>12, <1>13, <1>14, <1>15, <1>16, <1>17, <1>18, <1>19,
     <1>20, <1>21, <1>22, <1>23 DEF Next, Writes

-----------------------------------------------------------------------------
(* The inductive invariant. *)

\* The code and the link of a row were mailed for that row.
TokensOwned ==
  \A i \in Ids : Exists(i) =>
    /\ rows[i].code # 0 => rows[i].code \in 1..issued /\ mailed[rows[i].code] = i
    /\ rows[i].link # 0 => rows[i].link \in 1..issued /\ mailed[rows[i].link] = i

\* Only accounts of the provider have a provider id.
IdentsOwned == \A i \in Ids : (Exists(i) /\ rows[i].ident # None) => rows[i].provider = "oauth"

\* The stages of a login by OAuth that has found no account yet.
AtProvider == {"byMail", "relink", "insertOAuth", "againIdent", "againMail"}

(* What a request has checked still holds when it writes, or the request   *)
(* has been overtaken and is late.                                         *)
Checked ==
  \A r \in Requests :
    /\ At(r, "accept") => req[r].token \in 1..issued /\ mailed[req[r].token] = req[r].id
    /\ At(r, "blacklist") => ~Exists(req[r].id)
    /\ (At(r, "delete") \/ At(r, "refresh")) /\ Exists(req[r].id) /\ rows[req[r].id].verified => r \in late
    /\ req[r].pc \in AtProvider => req[r].ident \in Identities
    /\ At(r, "relink") /\ Exists(req[r].id) => rows[req[r].id].provider = "oauth"
    /\ At(r, "signedIn") /\ ~req[r].flag /\ Exists(req[r].id) => rows[req[r].id].provider = "oauth"

IInv == TypeOK /\ IdsUsed /\ TokensOwned /\ IdentsOwned /\ Checked /\ BlacklistedIsGone

-----------------------------------------------------------------------------
(* What a step does to the requests. *)

\* The step of one request, and what the request has just read of its row.
Advances(r) ==
  /\ \A q \in Requests \ {r} : req'[q] = req[q]
  /\ late \ {r} \subseteq late'
  /\ req'[r].pc \in Named => req'[r].id \in 1..made'
  /\ req'[r].pc = "count" => \E i \in Ids, t \in 0..issued : TryCode(r, i, t)
  /\ req'[r].pc = "accept" => req'[r].token # 0 /\ Exists(req'[r].id) /\ req'[r].token = rows[req'[r].id].code
  /\ req'[r].pc \in AtProvider => req'[r].ident \in Identities
  /\ req'[r].pc = "blacklist" => rows'[req'[r].id] = None
  /\ req'[r].pc \in {"delete", "refresh"} => rows' = rows /\ ~rows[req'[r].id].verified
  /\ req'[r].pc \in {"relink", "signedIn"} /\ ~(req'[r].pc = "signedIn" /\ req'[r].flag)
       => rows'[req'[r].id] = None \/ rows'[req'[r].id].provider = "oauth"

LEMMA MeetsAdvances ==
  ASSUME IInv, NEW r \in Requests, NEW q \in Request, q.pc \notin Named, Meets(r, q),
         UNCHANGED <<rows, made, late>>
  PROVE  Advances(r)
<1>1. req \in [Requests -> Request] /\ made \in Nat
  BY BoundsAssumption DEF IInv, TypeOK
<1>2. Holders # {} => Holder \in 1..made /\ Exists(Holder)
  BY <1>1, HolderExists DEF IInv, IdsUsed, Ids
<1>3. CASE Holders = {} /\ Goes(r, [q EXCEPT !.pc = "insert"])
  BY <1>1, <1>3 DEF Advances, Goes, Named, AtProvider, Request
<1>4. CASE /\ Holders # {} /\ Unverified(rows[Holder])
           /\ Goes(r, [q EXCEPT !.pc = IF q.flag THEN "recheck" ELSE "refresh", !.id = Holder])
  <2>1. req'[r].pc \in {"recheck", "refresh"} /\ req'[r].id = Holder
    BY <1>1, <1>4 DEF Goes, Request
  <2>2. \A p \in Requests \ {r} : req'[p] = req[p]
    BY <1>1, <1>4 DEF Goes
  <2> QED
    BY <1>2, <1>4, <2>1, <2>2 DEF Advances, Unverified, AtProvider
<1>5. CASE Goes(r, Idle)
  BY <1>1, <1>5 DEF Advances, Goes, Named, AtProvider, Idle
<1> QED
  BY <1>3, <1>4, <1>5 DEF Meets

LEMMA AsksAdvance ==
  ASSUME IInv, NEW r \in Requests, Asks(r)
  PROVE  Advances(r)
<1> USE DEF stored
<1>1. req \in [Requests -> Request] /\ made \in Nat
  BY BoundsAssumption DEF IInv, TypeOK
<1>2. \A i \in Ids : Exists(i) => i \in 1..made
  BY <1>1 DEF IInv, IdsUsed, Ids
<1>3. ASSUME NEW p \in Passwords, NEW force \in BOOLEAN, Register(r, p, force)
      PROVE  Advances(r)
  <2>1. [Idle EXCEPT !.pw = p, !.flag = force] \in Request /\ [Idle EXCEPT !.pw = p, !.flag = force].pc = "idle"
    BY IdleTypes DEF Idle
  <2> QED
    BY <1>3, <2>1, MeetsAdvances DEF Register, Named, AtProvider
<1>4. ASSUME NEW i \in Ids, SendCode(r, i)
      PROVE  Advances(r)
  BY <1>1, <1>2, <1>4 DEF SendCode, Advances, Goes, Idle, Named, AtProvider
<1>5. ASSUME NEW i \in Ids, NEW t \in 0..issued, TryCode(r, i, t)
      PROVE  Advances(r)
  <2>1. /\ req'[r].id = i /\ req'[r].token = t
        /\ \/ req'[r].pc = "accept" /\ t = rows[i].code /\ rows[i].code # 0
           \/ req'[r].pc = "count"
    BY <1>1, <1>5 DEF TryCode, Goes, Idle
  <2>2. \A p \in Requests \ {r} : req'[p] = req[p]
    BY <1>1, <1>5 DEF TryCode, Goes
  <2> QED
    BY <1>1, <1>2, <1>5, <2>1, <2>2 DEF TryCode, Advances, AtProvider
<1>6. ASSUME NEW i \in Ids, NEW p \in Passwords, NEW q \in Passwords, ChangePassword(r, i, p, q)
      PROVE  Advances(r)
  BY <1>1, <1>2, <1>6 DEF ChangePassword, Advances, Goes, Idle, Named, AtProvider
<1>7. ASSUME ForgotPassword(r)
      PROVE  Advances(r)
  <2>1. Holder \in 1..made
    BY <1>2, <1>7, HolderExists DEF ForgotPassword
  <2> QED
    BY <1>1, <1>7, <2>1 DEF ForgotPassword, Advances, Goes, Idle, Named, AtProvider
<1>8. ASSUME NEW i \in Ids, NEW p \in Passwords, Remove(r, i, p)
      PROVE  Advances(r)
  BY <1>1, <1>2, <1>8 DEF Remove, Advances, Goes, Idle, Named, AtProvider
<1>9. ASSUME NEW d \in Identities, NEW m \in BOOLEAN, OAuthLogin(r, d, m)
      PROVE  Advances(r)
  <2>1. UNCHANGED <<rows, made, late>>
    BY <1>9 DEF OAuthLogin
  <2>2. ASSUME NEW i \in Known(d), Goes(r, [Idle EXCEPT !.pc = "signedIn", !.id = i, !.ident = d])
        PROVE  Advances(r)
    <3>1. i \in Ids /\ Exists(i) /\ rows[i].provider = "oauth" /\ i \in 1..made
      BY <1>2, NoneAssumption DEF Known, IInv, IdentsOwned
    <3> QED
      BY <1>1, <2>1, <2>2, <3>1 DEF Advances, Goes, Idle, AtProvider
  <2>3. ASSUME Goes(r, [Idle EXCEPT !.pc = IF m THEN "byMail" ELSE "insertOAuth", !.ident = d, !.flag = m])
        PROVE  Advances(r)
    <3>1. req'[r].pc \in {"byMail", "insertOAuth"} /\ req'[r].ident = d
      BY <1>1, <2>3 DEF Goes, Idle
    <3>2. \A p \in Requests \ {r} : req'[p] = req[p]
      BY <1>1, <2>3 DEF Goes
    <3> QED
      BY <2>1, <3>1, <3>2 DEF Advances, Named, AtProvider
  <2> QED
    BY <1>9, <2>2, <2>3 DEF OAuthLogin
<1>10. ASSUME NEW i \in Ids, VerifyEmail(r, i)
       PROVE  Advances(r)
  <2>1. req'[r].id = i /\ req'[r].token = rows[i].code /\ req'[r].pc = "accept"
    BY <1>1, <1>10 DEF VerifyEmail, Goes, Idle
  <2>2. \A p \in Requests \ {r} : req'[p] = req[p]
    BY <1>1, <1>10 DEF VerifyEmail, Goes
  <2> QED
    BY <1>1, <1>2, <1>10, <2>1, <2>2 DEF VerifyEmail, Advances, AtProvider
<1>11. ASSUME Resend(r)
       PROVE  Advances(r)
  <2>1. Holder \in 1..made
    BY <1>2, <1>11, HolderExists DEF Resend
  <2> QED
    BY <1>1, <1>11, <2>1 DEF Resend, Advances, Goes, Idle, Named, AtProvider
<1> QED
  BY <1>3, <1>4, <1>5, <1>6, <1>7, <1>8, <1>9, <1>10, <1>11 DEF Asks

LEMMA WritesAdvance ==
  ASSUME IInv, NEW r \in Requests, Writes(r)
  PROVE  Advances(r)
<1> USE DEF stored
<1>1. /\ req \in [Requests -> Request] /\ req[r] \in Request /\ made \in Nat /\ late \subseteq Requests
      /\ rows \in [Ids -> Row \cup {None}] /\ 1..made \subseteq Ids
  BY BoundsAssumption, GivenIds DEF IInv, TypeOK
<1>2. \A i \in Ids : Exists(i) => i \in 1..made
  BY <1>1 DEF IInv, IdsUsed, Ids
<1>3. req[r].pc \in Named => req[r].id \in 1..made
  BY DEF IInv, IdsUsed
<1>4. ASSUME Goes(r, Idle), late \ {r} \subseteq late'
      PROVE  Advances(r)
  BY <1>1, <1>4 DEF Goes, Idle, Advances, Named, AtProvider
<1>5. ASSUME Ends(r)
      PROVE  Advances(r)
  BY <1>4, <1>5 DEF Ends
<1>6. ASSUME NEW pc \in Stages \ Named, To(r, pc), late \ {r} \subseteq late',
             pc \in AtProvider => req[r].ident \in Identities
      PROVE  Advances(r)
  BY <1>1, <1>6 DEF To, Goes, Advances, Named, AtProvider, Request
<1>7. ASSUME NEW i \in 1..made', NEW f \in BOOLEAN, SignsIn(r, i, f), late' = late,
             f \/ rows'[i] = None \/ rows'[i].provider = "oauth"
      PROVE  Advances(r)
  <2>1. req'[r].pc = "signedIn" /\ req'[r].id = i /\ req'[r].flag = f
    BY <1>1, <1>7 DEF SignsIn, Goes, Request
  <2>2. \A p \in Requests \ {r} : req'[p] = req[p]
    BY <1>1, <1>7 DEF SignsIn, Goes
  <2> QED
    BY <1>7, <2>1, <2>2 DEF Advances, AtProvider
<1>8. req[r].pc \in AtProvider => req[r].ident \in Identities
  BY DEF IInv, Checked
<1>9. Holders # {} => Holder \in 1..made /\ Exists(Holder)
  BY <1>2, HolderExists
<1>10. CASE Find(r)
  <2>1. [req[r] EXCEPT !.id = 0] \in Request
    BY <1>1, IdleTypes
  <2>2. [req[r] EXCEPT !.id = 0].pc = "find"
    BY <1>1, <1>10 DEF Find, At, Request
  <2> QED
    BY <1>10, <2>1, <2>2, MeetsAdvances DEF Find, Named, AtProvider
<1>11. CASE Recheck(r)
  <2>1. req[r].id \in 1..made
    BY <1>3, <1>11 DEF Recheck, At, Named, AtProvider
  <2>2. CASE Goes(r, Idle)
    BY <1>4, <1>11, <2>2 DEF Recheck
  <2>3. CASE Exists(req[r].id) /\ Unverified(rows[req[r].id]) /\ Goes(r, [req[r] EXCEPT !.flag = FALSE, !.pc = "delete"])
    BY <1>1, <1>11, <2>1, <2>3 DEF Recheck, Goes, Advances, Unverified, Request, AtProvider
  <2>4. CASE Goes(r, [req[r] EXCEPT !.flag = FALSE, !.pc = "find"])
    <3>1. req'[r].pc = "find" /\ \A p \in Requests \ {r} : req'[p] = req[p]
      BY <1>1, <2>4 DEF Goes, Request
    <3> QED
      BY <1>11, <3>1 DEF Recheck, Advances, Named, AtProvider
  <2> QED
    BY <1>11, <2>2, <2>3, <2>4 DEF Recheck
<1>12. CASE HardDelete(r)
  BY <1>6, <1>12 DEF HardDelete, Stages, Named, AtProvider
<1>13. CASE Insert(r)
  BY <1>5, <1>13 DEF Insert
<1>14. CASE Refresh(r)
  BY <1>5, <1>14 DEF Refresh
<1>15. CASE Cooldown(r)
  <2>1. req[r].id \in 1..made
    BY <1>3, <1>15 DEF Cooldown, At, Named, AtProvider
  <2>2. CASE Goes(r, Idle)
    BY <1>4, <1>15, <2>2 DEF Cooldown
  <2>3. CASE Goes(r, [req[r] EXCEPT !.pc = "issue"])
    BY <1>1, <1>15, <2>1, <2>3 DEF Cooldown, Goes, Advances, Request, AtProvider
  <2> QED
    BY <1>15, <2>2, <2>3 DEF Cooldown
<1>16. CASE Issue(r)
  BY <1>5, <1>16 DEF Issue
<1>17. CASE CountMiss(r)
  BY <1>5, <1>17 DEF CountMiss
<1>18. CASE Accept(r)
  BY <1>4, <1>18 DEF Accept
<1>19. CASE SetPassword(r)
  BY <1>5, <1>19 DEF SetPassword
<1>20. CASE MailLink(r)
  BY <1>5, <1>20 DEF MailLink
<1>21. CASE Purge(r)
  <2>1. req[r].id \in 1..made /\ req[r].id \in Ids
    BY <1>1, <1>3, <1>21 DEF Purge, At, Named, AtProvider
  <2>2. CASE Goes(r, Idle)
    BY <1>4, <1>21, <2>2 DEF Purge
  <2>3. CASE rows' = [rows EXCEPT ![req[r].id] = None] /\ To(r, "blacklist")
    BY <1>1, <1>21, <2>1, <2>3 DEF Purge, To, Goes, Advances, Request, AtProvider
  <2> QED
    BY <1>21, <2>2, <2>3 DEF Purge
<1>22. CASE Blacklist(r)
  BY <1>5, <1>22 DEF Blacklist
<1>23. CASE ByMail(r)
  <2>1. CASE To(r, "insertOAuth")
    BY <1>6, <1>8, <1>23, <2>1 DEF ByMail, At, Stages, Named, AtProvider
  <2>2. CASE /\ Holders # {} /\ rows[Holder].provider = "oauth"
             /\ Goes(r, [req[r] EXCEPT !.pc = "relink", !.id = Holder])
    BY <1>1, <1>9, <1>8, <1>23, <2>2 DEF ByMail, At, Goes, Advances, Request, AtProvider
  <2>3. CASE Goes(r, Idle)
    BY <1>4, <1>23, <2>3 DEF ByMail
  <2> QED
    BY <1>23, <2>1, <2>2, <2>3 DEF ByMail
<1>24. CASE Relink(r)
  <2>1. req[r].id \in 1..made /\ req[r].id \in Ids /\ At(r, "relink")
    BY <1>1, <1>3, <1>24 DEF Relink, At, Named, AtProvider
  <2>2. Exists(req[r].id) => rows[req[r].id].provider = "oauth" /\ rows[req[r].id] \in Row
    BY <1>1, <2>1 DEF IInv, Checked, Exists
  <2>3. rows'[req[r].id] = None \/ rows'[req[r].id].provider = "oauth"
    BY <1>1, <1>24, <2>1, <2>2 DEF Relink, Put, Row
  <2> QED
    BY <1>7, <1>24, <2>1, <2>3 DEF Relink
<1>25. CASE InsertOAuth(r)
  <2>1. CASE To(r, "againIdent")
    BY <1>6, <1>8, <1>25, <2>1 DEF InsertOAuth, At, Stages, Named, AtProvider
  <2>2. CASE /\ made < MaxRows /\ made' = made + 1 /\ SignsIn(r, made + 1, FALSE)
             /\ rows' = [rows EXCEPT ![made + 1] = OAuthRow(req[r].ident, req[r].flag)]
    <3>1. made + 1 \in 1..made' /\ made + 1 \in Ids
      BY <1>1, <2>2, BoundsAssumption DEF Ids
    <3>2. rows'[made + 1].provider = "oauth"
      BY <1>1, <2>2, <3>1 DEF OAuthRow, EmailRow
    <3> QED
      BY <1>7, <1>25, <2>2, <3>1, <3>2 DEF InsertOAuth
  <2> QED
    BY <1>25, <2>1, <2>2 DEF InsertOAuth
<1>26. CASE AgainIdent(r)
  <2>1. req[r].ident \in Identities
    BY <1>8, <1>26 DEF AgainIdent, At, AtProvider
  <2>2. ASSUME NEW i \in Known(req[r].ident), SignsIn(r, i, FALSE)
        PROVE  Advances(r)
    <3>1. i \in Ids /\ Exists(i) /\ rows[i].provider = "oauth"
      BY <2>1, NoneAssumption DEF Known, IInv, IdentsOwned
    <3>2. UNCHANGED <<rows, made, late>>
      BY <1>26 DEF AgainIdent
    <3> QED
      BY <1>2, <1>7, <2>2, <3>1, <3>2
  <2>3. CASE To(r, "againMail")
    BY <1>6, <1>26, <2>1, <2>3 DEF AgainIdent, Stages, Named
  <2> QED
    BY <1>26, <2>2, <2>3 DEF AgainIdent
<1>27. CASE AgainMail(r)
  <2>1. CASE Goes(r, Idle)
    BY <1>4, <1>27, <2>1 DEF AgainMail
  <2>2. CASE Holders # {} /\ SignsIn(r, Holder, TRUE)
    BY <1>7, <1>9, <1>27, <2>2 DEF AgainMail
  <2> QED
    BY <1>27, <2>1, <2>2 DEF AgainMail
<1>28. CASE Answered(r)
  BY <1>4, <1>28 DEF Answered
<1>29. CASE IssueToken(r)
  BY <1>5, <1>29 DEF IssueToken
<1>30. CASE AcceptToken(r)
  BY <1>4, <1>30 DEF AcceptToken
<1> QED
  BY <1>10, <1>11, <1>12, <1>13, <1>14, <1>15, <1>16, <1>17, <1>18, <1>19, <1>20, <1>21,
     <1>22, <1>23, <1>24, <1>25, <1>26, <1>27, <1>28, <1>29, <1>30 DEF Writes

-----------------------------------------------------------------------------
(* The invariant holds initially and at every step. *)

LEMMA TypeStep ==
  ASSUME TypeOK, IdsUsed, Next
  PROVE  TypeOK'
BY AsksTypes, WritesTypes, RestTypes DEF Next

LEMMA RequestSteps ==
  ASSUME IInv, Next
  PROVE  UNCHANGED <<req, late>> \/ \E r \in Requests : Advances(r)
BY AsksAdvance, WritesAdvance DEF Next, ResetPassword, Cleanup, CodeExpires, TimePasses

\* An id that was given is not given again: what is gone stays gone.
LEMMA StaysGone ==
  ASSUME IInv, Next, NEW i \in 1..made, ~Exists(i)
  PROVE  ~Exists(i)'
<1>1. i \in Ids /\ made \in Nat
  BY GivenIds, BoundsAssumption DEF IInv, TypeOK
<1>2. RowStep(i)
  BY <1>1, RowSteps DEF IInv
<1> QED
  BY <1>1, <1>2 DEF RowStep, Touched, Gone, Born, Exists

LEMMA IdsStep ==
  ASSUME IInv, Next
  PROVE  IdsUsed'
<1>1. Grows /\ \A i \in Ids : RowStep(i)
  BY RowSteps DEF IInv
<1>2. made \in Nat /\ made' \in Nat /\ made <= made'
  BY <1>1, BoundsAssumption DEF IInv, TypeOK, Grows
<1>3. ASSUME NEW i \in Ids, i > made'
      PROVE  ~Exists(i)'
  <2>1. i > made /\ i \in Nat /\ ~Exists(i)
    BY <1>2, <1>3 DEF IInv, IdsUsed, Ids
  <2>2. RowStep(i)
    BY <1>1
  <2> QED
    BY <1>2, <1>3, <2>1, <2>2 DEF RowStep, Touched, Gone, Born, Exists
<1>4. ASSUME NEW q \in Requests, req'[q].pc \in Named
      PROVE  req'[q].id \in 1..made'
  <2>1. CASE req'[q] = req[q]
    BY <1>2, <1>4, <2>1 DEF IInv, IdsUsed
  <2>2. CASE Advances(q)
    BY <1>4, <2>2 DEF Advances
  <2> QED
    BY <2>1, <2>2, RequestSteps DEF Advances
<1>5. black' \subseteq 1..made'
  <2>1. black \subseteq 1..made'
    BY <1>2 DEF IInv, IdsUsed
  <2>2. ASSUME NEW r \in Requests, Blacklist(r)
        PROVE  black' \subseteq 1..made'
    <3>1. req[r].id \in 1..made'
      BY <1>2, <2>2 DEF Blacklist, At, Named, IInv, IdsUsed
    <3> QED
      BY <2>1, <2>2, <3>1 DEF Blacklist
  <2>3. (\A r \in Requests : ~Blacklist(r)) => black' = black
    BY DEF Next, Asks, Writes, stored, Register, SendCode, Resend, VerifyEmail, TryCode, ChangePassword,
           ForgotPassword, Remove, OAuthLogin, IssueToken, AcceptToken, Find, Recheck, HardDelete, Insert, Refresh, Cooldown, Issue, CountMiss, Accept,
           SetPassword, MailLink, Purge, ByMail, Relink, InsertOAuth, AgainIdent, AgainMail, Answered,
           ResetPassword, Cleanup, CodeExpires, TimePasses
  <2> QED
    BY <2>1, <2>2, <2>3
<1> QED
  BY <1>3, <1>4, <1>5 DEF IdsUsed

LEMMA TokensStep ==
  ASSUME IInv, Next
  PROVE  TokensOwned' /\ IdentsOwned'
<1>1. Grows /\ \A i \in Ids : RowStep(i)
  BY RowSteps DEF IInv
<1>2. issued \in Nat
  BY BoundsAssumption DEF IInv, TypeOK
<1>3. ASSUME NEW i \in Ids, rows'[i] # None
      PROVE  /\ rows'[i].code # 0 => rows'[i].code \in 1..issued' /\ mailed'[rows'[i].code] = i
             /\ rows'[i].link # 0 => rows'[i].link \in 1..issued' /\ mailed'[rows'[i].link] = i
             /\ rows'[i].ident # None => rows'[i].provider = "oauth"
  <2>1. CASE rows'[i] = rows[i]
    BY <1>1, <1>2, <1>3, <2>1 DEF IInv, TokensOwned, IdentsOwned, Grows, Exists
  <2>2. CASE Touched(i)
    <3>1. \A r \in Requests : At(r, "relink") /\ req[r].id = i => rows[i].provider = "oauth"
      BY <2>2 DEF Touched, IInv, Checked
    <3> QED
      BY <1>1, <1>2, <1>3, <2>2, <3>1 DEF IInv, TokensOwned, IdentsOwned, Grows, Touched
  <2>3. CASE Born(i)
    BY <2>3 DEF Born
  <2> QED
    BY <1>1, <1>3, <2>1, <2>2, <2>3 DEF RowStep, Gone
<1> QED
  BY <1>3 DEF TokensOwned, IdentsOwned, Exists

LEMMA BlackStep ==
  ASSUME IInv, Next
  PROVE  BlacklistedIsGone'
<1>1. ASSUME NEW r \in Requests, Blacklist(r), NEW i \in black'
      PROVE  ~Exists(i)'
  <2>1. i \in 1..made /\ ~Exists(i)
    BY <1>1 DEF Blacklist, At, Named, IInv, IdsUsed, Checked, BlacklistedIsGone
  <2> QED
    BY <2>1, StaysGone
<1>2. ASSUME black' = black, NEW i \in black'
      PROVE  ~Exists(i)'
  BY <1>2, StaysGone DEF IInv, IdsUsed, BlacklistedIsGone
<1>3. black' = black \/ \E r \in Requests : Blacklist(r)
  BY DEF Next, Asks, Writes, stored, Register, SendCode, Resend, VerifyEmail, TryCode, ChangePassword,
         ForgotPassword, Remove, OAuthLogin, IssueToken, AcceptToken, Find, Recheck, HardDelete, Insert, Refresh, Cooldown, Issue, CountMiss, Accept,
         SetPassword, MailLink, Purge, ByMail, Relink, InsertOAuth, AgainIdent, AgainMail, Answered,
         ResetPassword, Cleanup, CodeExpires, TimePasses
<1> QED
  BY <1>1, <1>2, <1>3 DEF BlacklistedIsGone

LEMMA CheckedStep ==
  ASSUME IInv, Next
  PROVE  Checked'
<1>1. Grows /\ \A i \in Ids : RowStep(i)
  BY RowSteps DEF IInv
<1>2. made \in Nat /\ issued \in Nat /\ 1..made \subseteq Ids /\ req \in [Requests -> Request]
  BY BoundsAssumption, GivenIds DEF IInv, TypeOK
<1> DEFINE Right(q) ==
      /\ req'[q].pc = "accept" => req'[q].token \in 1..issued' /\ mailed'[req'[q].token] = req'[q].id
      /\ req'[q].pc = "blacklist" => rows'[req'[q].id] = None
      /\ (req'[q].pc \in {"delete", "refresh"} /\ rows'[req'[q].id] # None /\ rows'[req'[q].id].verified) => q \in late'
      /\ req'[q].pc \in AtProvider => req'[q].ident \in Identities
      /\ (req'[q].pc = "relink" /\ rows'[req'[q].id] # None) => rows'[req'[q].id].provider = "oauth"
      /\ (req'[q].pc = "signedIn" /\ ~req'[q].flag /\ rows'[req'[q].id] # None) => rows'[req'[q].id].provider = "oauth"
<1>3. ASSUME NEW q \in Requests, req'[q] = req[q], q \in late => q \in late'
      PROVE  Right(q)
  <2> DEFINE i == req[q].id
  <2>0. req[q].pc \in Named => i \in 1..made /\ i \in Ids /\ RowStep(i)
    BY <1>1, <1>2 DEF IInv, IdsUsed
  <2>1. req[q].pc = "accept" => req[q].token \in 1..issued' /\ mailed'[req[q].token] = i
    BY <1>1, <1>2 DEF IInv, Checked, At, Grows
  <2>2. req[q].pc = "blacklist" => rows'[i] = None
    BY <2>0, StaysGone DEF IInv, Checked, At, Named, Exists
  <2>3. ASSUME req[q].pc \in {"delete", "refresh"}, rows'[i] # None, rows'[i].verified
        PROVE  q \in late'
    <3>1. i \in 1..made /\ i \in Ids /\ RowStep(i) /\ Exists(i)
      BY <2>0, <2>3, StaysGone DEF Named, Exists
    <3>2. ~Born(i) /\ ~Gone(i)
      BY <1>2, <2>3, <3>1 DEF Born, Gone
    <3>3. CASE rows[i].verified
      BY <1>3, <2>3, <3>1, <3>3 DEF IInv, Checked, At
    <3>4. CASE ~rows[i].verified
      BY <1>2, <2>3, <3>1, <3>2, <3>4 DEF RowStep, Touched, Overtakes
    <3> QED
      BY <3>3, <3>4
  <2>4. ASSUME req[q].pc \in Named, rows'[i] # None
        PROVE  Exists(i) /\ rows'[i].provider = rows[i].provider
    <3>1. i \in 1..made /\ i \in Ids /\ RowStep(i) /\ Exists(i)
      BY <2>0, <2>4, StaysGone DEF Exists
    <3> QED
      BY <1>2, <2>4, <3>1 DEF RowStep, Touched, Gone, Born
  <2>5. /\ req[q].pc \in AtProvider => req[q].ident \in Identities
        /\ At(q, "relink") /\ Exists(i) => rows[i].provider = "oauth"
        /\ At(q, "signedIn") /\ ~req[q].flag /\ Exists(i) => rows[i].provider = "oauth"
    BY DEF IInv, Checked
  <2> QED
    BY <1>3, <2>1, <2>2, <2>3, <2>4, <2>5 DEF At, Named
<1>4. ASSUME NEW q \in Requests, Advances(q)
      PROVE  Right(q)
  <2>1. req'[q].pc = "accept" => req'[q].token \in 1..issued' /\ mailed'[req'[q].token] = req'[q].id
    <3>1. ASSUME req'[q].pc = "accept"
          PROVE  req'[q].id \in Ids
      BY <1>4, <3>1, TypeStep, IdsStep, GivenIds DEF IInv, TypeOK, Request, Advances, Named, Ids
    <3> QED
      BY <1>1, <1>2, <1>4, <3>1 DEF Advances, IInv, TokensOwned, Grows
  <2> QED
    BY <1>4, <2>1 DEF Advances
<1>5. \A q \in Requests : Right(q)
  <2>1. CASE UNCHANGED <<req, late>>
    BY <1>3, <2>1
  <2>2. ASSUME NEW r \in Requests, Advances(r)
        PROVE  \A q \in Requests : Right(q)
    <3>1. ASSUME NEW q \in Requests \ {r}
          PROVE  Right(q)
      BY <1>3, <2>2 DEF Advances
    <3> QED
      BY <1>4, <2>2, <3>1
  <2> QED
    BY <2>1, <2>2, RequestSteps
<1> QED
  BY <1>5 DEF Checked, At, Exists

\* The invariant at the beginning and at every step.
LEMMA Inductive ==
  /\ Init => IInv
  /\ IInv /\ [Next]_vars => IInv'
<1>1. ASSUME Init
      PROVE  IInv
  <2>0. Idle \in Request
    BY IdleTypes
  <2>1. TypeOK
    BY <1>1, <2>0, BoundsAssumption DEF Init, TypeOK, Tokens
  <2>2. IdsUsed /\ TokensOwned /\ IdentsOwned /\ Checked /\ BlacklistedIsGone
    BY <1>1 DEF Init, IdsUsed, TokensOwned, IdentsOwned, Checked, BlacklistedIsGone, Exists, At, Idle, Named, AtProvider
  <2> QED
    BY <2>1, <2>2 DEF IInv
<1>2. ASSUME IInv, Next
      PROVE  IInv'
  BY <1>2, TypeStep, IdsStep, TokensStep, CheckedStep, BlackStep DEF IInv
<1>3. ASSUME IInv, UNCHANGED vars
      PROVE  IInv'
  BY <1>3 DEF IInv, vars, TypeOK, IdsUsed, TokensOwned, IdentsOwned, Checked, BlacklistedIsGone, Exists, At
<1> QED
  BY <1>1, <1>2, <1>3

-----------------------------------------------------------------------------
(* The theorems. *)

\* Every variable keeps its type, whatever the requests do.
THEOREM TypeCorrect == Spec => []TypeOK
<1>1. IInv => TypeOK
  BY DEF IInv
<1> QED
  BY <1>1, Inductive, PTL DEF Spec

\* No account that still exists is on the blacklist (users.service.ts:535 comes after the commit).
THEOREM BlacklistSafe == Spec => []BlacklistedIsGone
<1>1. IInv => BlacklistedIsGone
  BY DEF IInv
<1> QED
  BY <1>1, Inductive, PTL DEF Spec

\* A login by OAuth ends in an account of the provider unless another account took the address meanwhile.
THEOREM OAuthOwnAccount == Spec => []OwnAccount
<1>1. IInv => OwnAccount
  BY DEF IInv, Checked, OwnAccount
<1> QED
  BY <1>1, Inductive, PTL DEF Spec

\* A row is verified only by a code that was mailed for it (users.service.ts:761 updates by id).
THEOREM OnlyItsCode == Spec => VerifiedByCode
<1>1. ASSUME IInv, [Next]_vars
      PROVE  [\A i \in Ids :
                (Exists(i) /\ rows'[i] # None /\ ~rows[i].verified /\ rows'[i].verified)
                  => \E r \in Requests : At(r, "accept") /\ req[r].id = i /\ mailed[req[r].token] = i]_vars
  <2>1. ASSUME Next, NEW i \in Ids, Exists(i), rows'[i] # None, ~rows[i].verified, rows'[i].verified
        PROVE  \E r \in Requests : At(r, "accept") /\ req[r].id = i /\ mailed[req[r].token] = i
    <3>1. RowStep(i) /\ i <= made /\ made \in Nat
      BY <1>1, <2>1, RowSteps, BoundsAssumption DEF IInv, IdsUsed, TypeOK, Ids
    <3>2. Touched(i)
      BY <2>1, <3>1 DEF RowStep, Gone, Born
    <3>3. rows'[i].verified # rows[i].verified
      BY <2>1
    <3>4. PICK r \in Requests : At(r, "accept") /\ req[r].id = i
      BY <3>2, <3>3 DEF Touched
    <3> QED
      BY <1>1, <3>4 DEF IInv, Checked
  <2> QED
    BY <1>1, <2>1
<1> QED
  BY <1>1, Inductive, PTL DEF Spec, VerifiedByCode

\* A verified account is deleted only by its owner or by a request that had checked it before the verification.
THEOREM VerifiedStays == Spec => VerifiedKept
<1>1. ASSUME IInv, [Next]_vars
      PROVE  [\A i \in Ids :
                (Exists(i) /\ rows[i].verified /\ rows'[i] = None)
                  => \E r \in Requests : req[r].id = i /\ (At(r, "purge") \/ (At(r, "delete") /\ r \in late))]_vars
  <2>1. ASSUME Next, NEW i \in Ids, Exists(i), rows[i].verified, rows'[i] = None
        PROVE  \E r \in Requests : req[r].id = i /\ (At(r, "purge") \/ (At(r, "delete") /\ r \in late))
    <3>1. RowStep(i)
      BY <1>1, <2>1, RowSteps DEF IInv
    <3>2. Gone(i)
      BY <2>1, <3>1 DEF RowStep, Touched, Born, Exists
    <3> QED
      BY <1>1, <2>1, <3>2 DEF Gone, Unverified, IInv, Checked
  <2> QED
    BY <1>1, <2>1
<1> QED
  BY <1>1, Inductive, PTL DEF Spec, VerifiedKept

\* The password of a verified account changes only for its owner or for a request that had checked it before.
THEOREM PasswordStays == Spec => PasswordKept
<1>1. ASSUME IInv, [Next]_vars
      PROVE  [\A i \in Ids :
                (Exists(i) /\ rows[i].verified /\ rows'[i] # None /\ rows'[i].pw # rows[i].pw)
                  => \/ \E r \in Requests : req[r].id = i /\ (At(r, "set") \/ (At(r, "refresh") /\ r \in late))
                     \/ rows[i].link # 0 /\ mailed[rows[i].link] = i /\ req' = req]_vars
  <2>1. ASSUME Next, NEW i \in Ids, Exists(i), rows[i].verified, rows'[i] # None, rows'[i].pw # rows[i].pw
        PROVE  \/ \E r \in Requests : req[r].id = i /\ (At(r, "set") \/ (At(r, "refresh") /\ r \in late))
               \/ rows[i].link # 0 /\ mailed[rows[i].link] = i /\ req' = req
    <3>1. RowStep(i) /\ i <= made /\ made \in Nat
      BY <1>1, <2>1, RowSteps, BoundsAssumption DEF IInv, IdsUsed, TypeOK, Ids
    <3>2. Touched(i)
      BY <2>1, <3>1 DEF RowStep, Gone, Born
    <3> QED
      BY <1>1, <2>1, <3>2 DEF Touched, IInv, Checked, TokensOwned
  <2> QED
    BY <1>1, <2>1
<1> QED
  BY <1>1, Inductive, PTL DEF Spec, PasswordKept

-----------------------------------------------------------------------------
(* The counter of attempts. *)

\* The attempts that have compared a wrong code and have not counted it.
Pending(i) == {r \in Requests : req[r].pc = "count" /\ req[r].id = i}

(* A wrong code is on the counter or about to be counted; a new row starts *)
(* with none.                                                              *)
Counted ==
  \A i \in Ids :
    /\ i > made => missed[i] = 0
    /\ Exists(i) => missed[i] <= rows[i].tries + Cardinality(Pending(i))
    /\ missed[i] < MaxTries + Cardinality(Requests)

\* What a step does to the counter of one row.
Zeroed(i) == missed'[i] = 0 /\ (rows'[i] # None => rows'[i].tries \in Nat)
Untouched(i) ==
  /\ missed'[i] = missed[i] /\ Pending(i)' = Pending(i)
  /\ rows'[i] = None \/ (Exists(i) /\ rows'[i].tries = rows[i].tries) \/ (i = made + 1 /\ rows'[i].tries = 0)
Counts(i, r) ==
  /\ missed'[i] = missed[i] /\ Pending(i)' = Pending(i) \ {r} /\ r \in Requests
  /\ rows'[i] = rows[i] \/ (Exists(i) /\ rows'[i].tries = rows[i].tries + 1)
  /\ rows'[i] = rows[i] => ~Exists(i)
Misses(i, r) ==
  /\ missed'[i] = missed[i] + 1 /\ Pending(i)' = Pending(i) \cup {r} /\ r \in Requests \ Pending(i)
  /\ rows' = rows /\ Exists(i) /\ rows[i].tries < MaxTries

LEMMA PendingFacts ==
  ASSUME NEW i \in Ids
  PROVE  /\ IsFiniteSet(Pending(i)) /\ Cardinality(Pending(i)) \in Nat /\ Cardinality(Requests) \in Nat
         /\ Cardinality(Pending(i)) <= Cardinality(Requests)
         /\ \A r \in Requests : Cardinality(Pending(i) \ {r}) >= Cardinality(Pending(i)) - 1
         /\ \A r \in Requests \ Pending(i) :
              /\ Cardinality(Pending(i) \cup {r}) = Cardinality(Pending(i)) + 1
              /\ Cardinality(Pending(i)) + 1 <= Cardinality(Requests)
<1>1. Pending(i) \subseteq Requests
  BY DEF Pending
<1>2. IsFiniteSet(Pending(i)) /\ Cardinality(Pending(i)) <= Cardinality(Requests)
  BY <1>1, RequestsAssumption, FS_Subset
<1>3. Cardinality(Pending(i)) \in Nat /\ Cardinality(Requests) \in Nat
  BY <1>2, RequestsAssumption, FS_CardinalityType
<1>4. ASSUME NEW r \in Requests
      PROVE  Cardinality(Pending(i) \ {r}) >= Cardinality(Pending(i)) - 1
  <2>1. CASE r \in Pending(i)
    <3>1. Cardinality(Pending(i) \ {r}) = Cardinality(Pending(i)) - 1
      BY <1>2, <2>1, FS_RemoveElement
    <3> QED
      BY <1>3, <3>1
  <2>2. CASE r \notin Pending(i)
    <3>1. Pending(i) \ {r} = Pending(i)
      BY <2>2
    <3> QED
      BY <1>3, <3>1
  <2> QED
    BY <2>1, <2>2
<1>5. ASSUME NEW r \in Requests \ Pending(i)
      PROVE  /\ Cardinality(Pending(i) \cup {r}) = Cardinality(Pending(i)) + 1
             /\ Cardinality(Pending(i)) + 1 <= Cardinality(Requests)
  <2>1. Cardinality(Pending(i) \cup {r}) = Cardinality(Pending(i)) + 1
    BY <1>2, FS_AddElement
  <2>2. Pending(i) \cup {r} \subseteq Requests
    BY <1>1
  <2>3. Cardinality(Pending(i) \cup {r}) <= Cardinality(Requests)
    BY <2>2, RequestsAssumption, FS_Subset
  <2> QED
    BY <2>1, <2>3
<1> QED
  BY <1>2, <1>3, <1>4, <1>5

\* A step that takes no request to or from the stage "count" leaves the pending attempts.
LEMMA PendingKept ==
  ASSUME NEW r \in Requests, req[r].pc # "count", req'[r].pc # "count",
         \A q \in Requests \ {r} : req'[q] = req[q], NEW i \in Ids
  PROVE  Pending(i)' = Pending(i)
BY DEF Pending

LEMMA CountSteps ==
  ASSUME IInv, Next, NEW i \in Ids
  PROVE  Zeroed(i) \/ Untouched(i) \/ \E r \in Requests : Counts(i, r) \/ Misses(i, r)
<1> USE DEF stored
<1>1. /\ req \in [Requests -> Request] /\ missed \in [Ids -> Nat] /\ made \in Nat
      /\ rows \in [Ids -> Row \cup {None}] /\ \A j \in Ids : Exists(j) => rows[j] \in Row
      /\ TypeOK'
  BY TypeStep, BoundsAssumption DEF IInv, TypeOK, Exists
<1>2. rows'[i] # None => rows'[i].tries \in Nat
  BY <1>1 DEF TypeOK, Row
<1>3. ASSUME NEW r \in Requests, NEW j \in Ids, NEW t \in 0..issued, TryCode(r, j, t)
      PROVE  Untouched(i) \/ Misses(i, r)
  <2>1. /\ req'[r].id = j /\ req'[r].pc \in {"accept", "count"}
        /\ req'[r].pc = "count" <=> t # rows[j].code
        /\ req[r].pc # "count" /\ \A q \in Requests \ {r} : req'[q] = req[q]
    BY <1>1, <1>3 DEF TryCode, At, Goes, Idle
  <2>2. rows' = rows /\ Exists(j) /\ rows[j].tries < MaxTries
    BY <1>3 DEF TryCode
  <2>3. CASE t # rows[j].code /\ i = j
    <3>1. missed'[i] = missed[i] + 1
      BY <1>1, <1>3, <2>3 DEF TryCode
    <3>2. Pending(i)' = Pending(i) \cup {r} /\ r \notin Pending(i)
      BY <2>1, <2>3 DEF Pending
    <3> QED
      BY <2>2, <2>3, <3>1, <3>2 DEF Misses
  <2>4. CASE t = rows[j].code \/ i # j
    <3>1. missed'[i] = missed[i]
      BY <1>1, <1>3, <2>4 DEF TryCode
    <3>2. Pending(i)' = Pending(i)
      BY <2>1, <2>4 DEF Pending
    <3> QED
      BY <2>2, <3>1, <3>2 DEF Untouched, Exists
  <2> QED
    BY <2>3, <2>4
<1>4. ASSUME NEW r \in Requests, CountMiss(r)
      PROVE  Untouched(i) \/ Counts(i, r)
  <2>1. /\ req'[r].pc # "count" /\ req[r].pc = "count" /\ \A q \in Requests \ {r} : req'[q] = req[q]
        /\ req[r].id \in Ids
    BY <1>1, <1>4, PutTypes DEF CountMiss, At, Ends, Goes, Idle, Named, IInv
  <2>2. missed' = missed
    BY <1>4 DEF CountMiss
  <2>3. CASE i = req[r].id
    <3>1. Pending(i)' = Pending(i) \ {r}
      BY <2>1 DEF Pending
    <3>2. rows'[i] = IF Exists(i) THEN [rows[i] EXCEPT !.tries = @ + 1] ELSE None
      BY <1>1, <1>4, <2>1, <2>3 DEF CountMiss, Put
    <3>3. CASE Exists(i)
      BY <1>1, <2>2, <3>1, <3>2, <3>3 DEF Counts, Row
    <3>4. CASE ~Exists(i)
      BY <2>2, <3>1, <3>2, <3>4 DEF Counts, Exists
    <3> QED
      BY <3>3, <3>4
  <2>4. CASE i # req[r].id
    <3>1. Pending(i)' = Pending(i)
      BY <2>1, <2>4 DEF Pending
    <3>2. rows'[i] = rows[i]
      BY <1>1, <1>4, <2>1, <2>4 DEF CountMiss, Put
    <3> QED
      BY <2>2, <3>1, <3>2 DEF Untouched, Exists
  <2> QED
    BY <2>3, <2>4
<1>5. ASSUME NEW r \in Requests, Asks(r), \A j \in Ids, t \in 0..issued : ~TryCode(r, j, t)
      PROVE  Untouched(i)
  <2>1. req[r].pc # "count" /\ rows' = rows /\ missed' = missed
    BY <1>5 DEF Asks, Register, SendCode, Resend, VerifyEmail, ChangePassword, ForgotPassword, Remove,
                OAuthLogin, At
  <2>2. req'[r].pc # "count"
    BY <1>5, AsksAdvance DEF Advances
  <2>3. \A q \in Requests \ {r} : req'[q] = req[q]
    BY <1>5, AsksAdvance DEF Advances
  <2> QED
    BY <2>1, <2>2, <2>3, PendingKept DEF Untouched, Exists
<1>6. ASSUME NEW r \in Requests, Writes(r), ~CountMiss(r)
      PROVE  req[r].pc # "count" /\ req'[r].pc # "count" /\ Pending(i)' = Pending(i)
  <2>1. req[r].pc # "count"
    BY <1>6 DEF Writes, At, IssueToken, AcceptToken,
                Find, Recheck, HardDelete, Insert, Refresh, Cooldown, Issue, Accept, SetPassword,
                MailLink, Purge, Blacklist, ByMail, Relink, InsertOAuth, AgainIdent, AgainMail, Answered
  <2>2. req'[r].pc # "count"
    <3>1. \A j \in Ids, t \in 0..issued : ~TryCode(r, j, t)
      BY <1>6 DEF TryCode, Writes, At, IssueToken, AcceptToken, Find, Recheck, HardDelete, Insert, Refresh, Cooldown, Issue, Accept,
                  SetPassword, MailLink, Purge, Blacklist, ByMail, Relink, InsertOAuth, AgainIdent, AgainMail, Answered
    <3> QED
      BY <1>6, <3>1, WritesAdvance DEF Advances
  <2>3. \A q \in Requests \ {r} : req'[q] = req[q]
    BY <1>6, WritesAdvance DEF Advances
  <2> QED
    BY <2>1, <2>2, <2>3, PendingKept
<1>7. ASSUME NEW r \in Requests, Refresh(r) \/ Issue(r) \/ Accept(r)
      PROVE  Zeroed(i) \/ Untouched(i)
  <2>1. req[r].id \in Ids /\ missed' = [missed EXCEPT ![req[r].id] = 0]
    BY <1>7, PutTypes DEF Refresh, Issue, Accept, At, Named, IInv
  <2>2. CASE i = req[r].id
    BY <1>1, <1>2, <2>1, <2>2 DEF Zeroed
  <2>3. CASE i # req[r].id
    <3>1. rows'[i] = rows[i] /\ missed'[i] = missed[i]
      BY <1>1, <1>7, <2>1, <2>3 DEF Refresh, Issue, Accept, Put
    <3>2. Pending(i)' = Pending(i)
      BY <1>6, <1>7 DEF Writes, CountMiss, Refresh, Issue, Accept, At
    <3> QED
      BY <3>1, <3>2 DEF Untouched, Exists
  <2> QED
    BY <2>2, <2>3
<1>8. ASSUME NEW r \in Requests,
             SetPassword(r) \/ MailLink(r) \/ Relink(r) \/ IssueToken(r) \/ AcceptToken(r)
      PROVE  Untouched(i)
  <2>1. missed' = missed
    BY <1>8 DEF SetPassword, MailLink, Relink, IssueToken, AcceptToken
  <2>2. Pending(i)' = Pending(i)
    BY <1>6, <1>8 DEF Writes, CountMiss, SetPassword, MailLink, Relink, IssueToken, AcceptToken, At
  <2>3. rows'[i] = None \/ (Exists(i) /\ rows'[i].tries = rows[i].tries)
    <3>1. \/ Put(req[r].id, [rows[req[r].id] EXCEPT !.pw = req[r].pw])
          \/ Put(req[r].id, [rows[req[r].id] EXCEPT !.link = issued + 1])
          \/ Put(req[r].id, [rows[req[r].id] EXCEPT !.ident = req[r].ident])
          \/ Put(req[r].id, [rows[req[r].id] EXCEPT !.code = issued + 1])
          \/ Put(req[r].id, [rows[req[r].id] EXCEPT !.verified = TRUE])
      BY <1>8 DEF SetPassword, MailLink, Relink, IssueToken, AcceptToken
    <3>2. req[r].id \in Ids
      BY <1>8, PutTypes DEF SetPassword, MailLink, Relink, IssueToken, AcceptToken, At, Named, IInv
    <3>3. CASE i # req[r].id
      BY <1>1, <3>1, <3>2, <3>3 DEF Put, Exists
    <3>4. CASE i = req[r].id /\ ~Exists(i)
      BY <1>1, <3>1, <3>4 DEF Put
    <3>5. CASE i = req[r].id /\ Exists(i)
      <4>1. \/ rows'[i] = [rows[i] EXCEPT !.pw = req[r].pw]
            \/ rows'[i] = [rows[i] EXCEPT !.link = issued + 1]
            \/ rows'[i] = [rows[i] EXCEPT !.ident = req[r].ident]
            \/ rows'[i] = [rows[i] EXCEPT !.code = issued + 1]
            \/ rows'[i] = [rows[i] EXCEPT !.verified = TRUE]
        BY <1>1, <3>1, <3>5 DEF Put
      <4> QED
        BY <1>1, <3>5, <4>1 DEF Row
    <3> QED
      BY <3>3, <3>4, <3>5
  <2> QED
    BY <2>1, <2>2, <2>3 DEF Untouched
<1>9. ASSUME NEW r \in Requests,
             \/ Find(r) \/ Recheck(r) \/ HardDelete(r) \/ Cooldown(r) \/ Purge(r) \/ Blacklist(r)
             \/ ByMail(r) \/ AgainIdent(r) \/ AgainMail(r) \/ Answered(r)
      PROVE  Untouched(i)
  <2>1. missed' = missed
    BY <1>9 DEF Find, Recheck, HardDelete, Cooldown, Purge, Blacklist, ByMail, AgainIdent, AgainMail, Answered
  <2>2. Pending(i)' = Pending(i)
    <3>1. ~CountMiss(r)
      BY <1>9 DEF CountMiss, Find, Recheck, HardDelete, Cooldown, Purge, Blacklist, ByMail, AgainIdent, AgainMail,
                  Answered, At
    <3> QED
      BY <1>6, <1>9, <3>1 DEF Writes
  <2>3. rows'[i] = None \/ (Exists(i) /\ rows'[i] = rows[i])
    BY <1>1, <1>9 DEF Find, Recheck, HardDelete, Cooldown, Purge, Blacklist, ByMail, AgainIdent, AgainMail,
                      Answered, Exists
  <2> QED
    BY <2>1, <2>2, <2>3 DEF Untouched
<1>10. ASSUME NEW r \in Requests, Insert(r) \/ InsertOAuth(r)
       PROVE  Untouched(i)
  <2>1. missed' = missed
    BY <1>10 DEF Insert, InsertOAuth
  <2>2. Pending(i)' = Pending(i)
    <3>1. ~CountMiss(r)
      BY <1>10 DEF CountMiss, Insert, InsertOAuth, At
    <3> QED
      BY <1>6, <1>10, <3>1 DEF Writes
  <2>3. rows'[i] = None \/ (Exists(i) /\ rows'[i] = rows[i]) \/ (i = made + 1 /\ rows'[i].tries = 0)
    <3>1. \/ rows' = rows
          \/ rows' = [rows EXCEPT ![made + 1] = EmailRow(req[r].pw)]
          \/ rows' = [rows EXCEPT ![made + 1] = OAuthRow(req[r].ident, req[r].flag)]
      BY <1>10 DEF Insert, InsertOAuth
    <3>2. EmailRow(req[r].pw).tries = 0 /\ OAuthRow(req[r].ident, req[r].flag).tries = 0
      BY DEF OAuthRow, EmailRow
    <3>3. i # made + 1 => rows'[i] = rows[i]
      BY <1>1, <3>1
    <3>4. i = made + 1 => rows'[i] = rows[i] \/ rows'[i].tries = 0
      BY <1>1, <3>1, <3>2
    <3> QED
      BY <3>3, <3>4 DEF Exists
  <2> QED
    BY <2>1, <2>2, <2>3 DEF Untouched
<1>12. ASSUME NEW j \in Ids, \/ TimePasses(j) \/ CodeExpires(j)
                             \/ \E t \in 1..issued, p \in Passwords : ResetPassword(j, t, p)
       PROVE  Untouched(i)
  <2>1. req' = req /\ missed' = missed
    BY <1>12 DEF TimePasses, CodeExpires, ResetPassword
  <2>2. rows'[i] = None \/ (Exists(i) /\ rows'[i].tries = rows[i].tries)
    <3>1. \/ Put(j, [rows[j] EXCEPT !.recent = FALSE])
          \/ Put(j, [rows[j] EXCEPT !.link = 0])
          \/ Put(j, [rows[j] EXCEPT !.code = 0])
          \/ Put(j, [rows[j] EXCEPT !.old = TRUE, !.recent = FALSE])
          \/ \E p \in Passwords : Put(j, [rows[j] EXCEPT !.pw = p])
      BY <1>12 DEF TimePasses, CodeExpires, ResetPassword
    <3>2. CASE i # j
      BY <1>1, <3>1, <3>2 DEF Put, Exists
    <3>3. CASE i = j /\ ~Exists(i)
      BY <1>1, <3>1, <3>3 DEF Put
    <3>4. CASE i = j /\ Exists(i)
      <4>1. \/ rows'[i] = [rows[i] EXCEPT !.recent = FALSE]
            \/ rows'[i] = [rows[i] EXCEPT !.link = 0]
            \/ rows'[i] = [rows[i] EXCEPT !.code = 0]
            \/ rows'[i] = [rows[i] EXCEPT !.old = TRUE, !.recent = FALSE]
            \/ \E p \in Passwords : rows'[i] = [rows[i] EXCEPT !.pw = p]
        BY <1>1, <3>1, <3>4 DEF Put
      <4> QED
        BY <1>1, <3>4, <4>1 DEF Row
    <3> QED
      BY <3>2, <3>3, <3>4
  <2> QED
    BY <2>1, <2>2 DEF Untouched, Pending
<1>13. CASE Cleanup
  BY <1>1, <1>13 DEF Cleanup, Untouched, Exists, Pending
<1> QED
  BY <1>3, <1>4, <1>5, <1>7, <1>8, <1>9, <1>10, <1>12, <1>13 DEF Next, Writes

LEMMA CountedStep ==
  ASSUME IInv, Counted, Next
  PROVE  Counted'
<1>1. /\ made \in Nat /\ made' \in Nat /\ made <= made' /\ MaxTries \in Nat \ {0} /\ missed \in [Ids -> Nat]
      /\ Ids \subseteq Nat
  BY RowSteps, BoundsAssumption, LimitAssumption DEF IInv, TypeOK, Grows, Ids
<1>2. ASSUME NEW i \in Ids
      PROVE  /\ i > made' => missed'[i] = 0
             /\ rows'[i] # None => missed'[i] <= rows'[i].tries + Cardinality(Pending(i)')
             /\ missed'[i] < MaxTries + Cardinality(Requests)
  <2>1. /\ i > made => missed[i] = 0
        /\ Exists(i) => missed[i] <= rows[i].tries + Cardinality(Pending(i)) /\ rows[i].tries \in Nat
        /\ missed[i] < MaxTries + Cardinality(Requests) /\ missed[i] \in Nat
        /\ i > made => ~Exists(i)
    BY <1>1 DEF Counted, IInv, IdsUsed, TypeOK, Exists, Row
  <2>2. Cardinality(Pending(i)') \in Nat
    <3>1. Pending(i)' \subseteq Requests
      BY DEF Pending
    <3> QED
      BY <3>1, RequestsAssumption, FS_Subset, FS_CardinalityType
  <2>3. CASE Zeroed(i)
    BY <1>1, <2>2, <2>3, PendingFacts DEF Zeroed
  <2>4. CASE Untouched(i)
    BY <1>1, <2>1, <2>2, <2>4, PendingFacts DEF Untouched
  <2>5. ASSUME NEW r \in Requests, Counts(i, r)
        PROVE  /\ i > made' => missed'[i] = 0
               /\ rows'[i] # None => missed'[i] <= rows'[i].tries + Cardinality(Pending(i)')
               /\ missed'[i] < MaxTries + Cardinality(Requests)
    BY <1>1, <2>1, <2>2, <2>5, PendingFacts DEF Counts, Exists
  <2>6. ASSUME NEW r \in Requests, Misses(i, r)
        PROVE  /\ i > made' => missed'[i] = 0
               /\ rows'[i] # None => missed'[i] <= rows'[i].tries + Cardinality(Pending(i)')
               /\ missed'[i] < MaxTries + Cardinality(Requests)
    BY <1>1, <2>1, <2>2, <2>6, PendingFacts DEF Misses, Exists
  <2> QED
    BY <2>3, <2>4, <2>5, <2>6, CountSteps
<1> QED
  BY <1>2 DEF Counted, Exists

(* However many attempts overlap, POST /auth/verify-email-code compares     *)
(* fewer than MaxTries + Cardinality(Requests) wrong codes with one row      *)
(* between two resets of its counter (users.service.ts:743).                 *)
THEOREM GuessesLimited == Spec => []GuessesBounded
<1>1. Init => Counted
  <2>1. Cardinality(Requests) \in Nat
    BY RequestsAssumption, FS_CardinalityType
  <2> QED
    BY <2>1, LimitAssumption DEF Init, Counted, Exists
<1>2. ASSUME IInv, Counted, [Next]_vars
      PROVE  Counted'
  <2>1. CASE UNCHANGED vars
    BY <1>2, <2>1 DEF vars, Counted, Exists, Pending
  <2> QED
    BY <1>2, <2>1, CountedStep
<1>3. Counted => GuessesBounded
  BY DEF Counted, GuessesBounded
<1> QED
  BY <1>1, <1>2, <1>3, Inductive, PTL DEF Spec
=============================================================================
