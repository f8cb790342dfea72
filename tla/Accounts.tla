------------------------------ MODULE Accounts ------------------------------
(***************************************************************************)
(* The accounts of one e-mail address: registration by password and by an  *)
(* OAuth provider, verification codes, password changes and resets, and    *)
(* deletion (users/users.service.ts, auth/auth.service.ts).                *)
(*                                                                         *)
(* Every handler reads the row, awaits bcrypt, the database or the mailer, *)
(* and then writes by the id it read; only the reset of a password locks   *)
(* the row.  TypeORM's update skips a column whose new value is undefined, *)
(* so "emailVerificationToken: undefined" leaves the code where it is, and *)
(* a reset link survives its use; only their expiry takes them away, which *)
(* is modelled by 0, no token.                                             *)
(***************************************************************************)
EXTENDS Integers, FiniteSets

CONSTANTS
  Requests,        \* requests at work at once
  Passwords,       \* the passwords that people choose
  Identities,      \* provider ids under which one person comes from the provider
  None,            \* no row, no password, no provider id
  MaxTries,        \* MAX_EMAIL_VERIFICATION_ATTEMPTS
  MaxRows, MaxTokens   \* bounds: rows ever inserted, codes and links ever mailed

ASSUME NoneAssumption == None \notin Passwords \cup Identities
ASSUME RequestsAssumption == IsFiniteSet(Requests)
ASSUME LimitAssumption == MaxTries \in Nat \ {0}
ASSUME BoundsAssumption == MaxRows \in Nat /\ MaxTokens \in Nat

Ids == 1..MaxRows
Tokens == 0..MaxTokens

VARIABLES
  rows,     \* table users, by id
  made,     \* how many ids have been used
  mailed,   \* for each token that was mailed the row it was made for
  issued,   \* how many tokens have been mailed
  black,    \* the ids with a key deleted_user:<id>
  req,      \* the requests at work
  missed,   \* for each row the wrong codes compared since its counter was zero
  late      \* the requests whose row was verified after they had checked it

stored == <<rows, made, mailed, issued, black>>
vars == <<rows, made, mailed, issued, black, req, missed, late>>

Row == [provider : {"email", "oauth"}, mail : BOOLEAN, ident : Identities \cup {None},
        pw : Passwords \cup {None}, verified : BOOLEAN, old : BOOLEAN,
        code : Tokens, tries : Nat, recent : BOOLEAN, link : Tokens]

ASSUME RowAssumption == None \notin Row

EmailRow(p) == [provider |-> "email", mail |-> TRUE, ident |-> None, pw |-> p, verified |-> FALSE,
                old |-> FALSE, code |-> 0, tries |-> 0, recent |-> FALSE, link |-> 0]
OAuthRow(d, m) == [EmailRow(None) EXCEPT !.provider = "oauth", !.mail = m, !.ident = d, !.verified = TRUE]

Exists(i) == rows[i] # None
Holders == {i \in Ids : Exists(i) /\ rows[i].mail}          \* the e-mail column is unique
Holder == CHOOSE i \in Holders : TRUE
Known(d) == {i \in Ids : Exists(i) /\ rows[i].ident = d}    \* the provider id is not

\* Slip: the row is judged by its provider alone
EmailProvider(row) == row.provider = "email"
Unverified(row) == row.provider = "email" /\ ~row.verified

Stages == {"idle", "find", "recheck", "delete", "insert", "refresh", "cooldown", "issue", "resend", "count", "accept",
           "set", "link", "purge", "blacklist",
           "byMail", "relink", "insertOAuth", "againIdent", "againMail", "signedIn"}

Idle == [pc |-> "idle", id |-> 0, pw |-> None, token |-> 0, ident |-> None, flag |-> FALSE]

(* flag is confirmReset in a registration, "found by its code" in a        *)
(* verification, "the identity has an e-mail" in an OAuth login, and       *)
(* "found by the e-mail of another" once it signed in.                     *)
Request == [pc : Stages, id : {0} \cup Ids, pw : Passwords \cup {None}, token : Tokens,
            ident : Identities \cup {None}, flag : BOOLEAN]

Init ==
  /\ rows = [i \in Ids |-> None]
  /\ made = 0
  /\ mailed = [t \in Tokens |-> 0]
  /\ issued = 0
  /\ black = {}
  /\ req = [r \in Requests |-> Idle]
  /\ missed = [i \in Ids |-> 0]
  /\ late = {}

At(r, pc) == req[r].pc = pc
Goes(r, q) == req' = [req EXCEPT ![r] = q]
To(r, pc) == Goes(r, [req[r] EXCEPT !.pc = pc])
Ends(r) == Goes(r, Idle) /\ late' = late \ {r}

\* UPDATE ... WHERE id = i, which is no error when there is no such row
Put(i, row) == rows' = [rows EXCEPT ![i] = IF Exists(i) THEN row ELSE None]

-----------------------------------------------------------------------------
(* POST /auth/register and /auth/register-force.                           *)

\* findByEmail, and what register or registerForce does about the row
Meets(r, q) ==
  \/ Holders = {} /\ Goes(r, [q EXCEPT !.pc = "insert"])
  \/ /\ Holders # {} /\ Unverified(rows[Holder])
     /\ Goes(r, [q EXCEPT !.pc = IF q.flag THEN "recheck" ELSE "refresh", !.id = Holder])
  \/ Holders # {} /\ ~Unverified(rows[Holder]) /\ Goes(r, Idle)        \* EMAIL_EXISTS

Register(r, p, force) ==
  /\ At(r, "idle")
  /\ Meets(r, [Idle EXCEPT !.pw = p, !.flag = force])
  /\ UNCHANGED <<stored, missed, late>>

Find(r) ==
  /\ At(r, "find")
  /\ Meets(r, [req[r] EXCEPT !.id = 0])
  /\ UNCHANGED <<stored, missed, late>>

\* Slip: hardDeleteUnverifiedUser relies on its caller for the second condition
RecheckProvider(r) ==
  /\ At(r, "recheck")
  /\ Goes(r, IF Exists(req[r].id) /\ ~EmailProvider(rows[req[r].id]) THEN Idle
             ELSE [req[r] EXCEPT !.flag = FALSE, !.pc = IF Exists(req[r].id) THEN "delete" ELSE "find"])
  /\ UNCHANGED <<stored, missed, late>>

\* the findOne of hardDeleteUnverifiedUser
Recheck(r) ==
  /\ At(r, "recheck")
  /\ Goes(r, IF Exists(req[r].id) /\ ~Unverified(rows[req[r].id]) THEN Idle
             ELSE [req[r] EXCEPT !.flag = FALSE, !.pc = IF Exists(req[r].id) THEN "delete" ELSE "find"])
  /\ UNCHANGED <<stored, missed, late>>

HardDelete(r) ==
  /\ At(r, "delete")
  /\ rows' = [rows EXCEPT ![req[r].id] = None]
  /\ To(r, "find")
  /\ late' = late \ {r}
  /\ UNCHANGED <<made, mailed, issued, black, missed>>

\* the unique index refuses a second row of the address: 500
Insert(r) ==
  /\ At(r, "insert")
  /\ \/ Holders # {} /\ UNCHANGED <<rows, made>>
     \/ /\ Holders = {} /\ made < MaxRows
        /\ made' = made + 1
        /\ rows' = [rows EXCEPT ![made + 1] = EmailRow(req[r].pw)]
  /\ Ends(r)
  /\ UNCHANGED <<mailed, issued, black, missed>>

\* refreshUnverifiedRegistration: the code and the time it was sent stay
Refresh(r) ==
  /\ At(r, "refresh")
  /\ Put(req[r].id, [rows[req[r].id] EXCEPT !.pw = req[r].pw, !.tries = 0])
  /\ missed' = [missed EXCEPT ![req[r].id] = 0]
  /\ Ends(r)
  /\ UNCHANGED <<made, mailed, issued, black>>

-----------------------------------------------------------------------------
(* The code of six digits.                                                 *)

SendCode(r, i) ==
  /\ At(r, "idle") /\ Exists(i) /\ Unverified(rows[i])
  /\ Goes(r, [Idle EXCEPT !.pc = "cooldown", !.id = i])
  /\ UNCHANGED <<stored, missed, late>>

\* canResendVerificationCode, which allows it for a row that is gone
Cooldown(r) ==
  /\ At(r, "cooldown")
  /\ Goes(r, IF Exists(req[r].id) /\ rows[req[r].id].recent THEN Idle ELSE [req[r] EXCEPT !.pc = "issue"])
  /\ UNCHANGED <<stored, missed, late>>

Mails(i) ==
  /\ issued < MaxTokens
  /\ issued' = issued + 1
  /\ mailed' = [mailed EXCEPT ![issued + 1] = i]

Issue(r) ==
  /\ At(r, "issue")
  /\ Mails(req[r].id)
  /\ Put(req[r].id, [rows[req[r].id] EXCEPT !.code = issued + 1, !.tries = 0, !.recent = TRUE])
  /\ missed' = [missed EXCEPT ![req[r].id] = 0]
  /\ Ends(r)
  /\ UNCHANGED <<made, black>>

\* The requests that have checked row i and are about to write it all the same
Overtakes(i) == {q \in Requests : req[q].pc \in {"delete", "refresh"} /\ req[q].id = i}

\* POST /auth/resend-verification, which knows the address only
Resend(r) ==
  /\ At(r, "idle") /\ Holders # {} /\ ~rows[Holder].verified
  /\ Goes(r, [Idle EXCEPT !.pc = "resend", !.id = Holder])
  /\ UNCHANGED <<stored, missed, late>>

\* generateEmailVerificationToken: the code is replaced, its attempts stay
IssueToken(r) ==
  /\ At(r, "resend")
  /\ Mails(req[r].id)
  /\ Put(req[r].id, [rows[req[r].id] EXCEPT !.code = issued + 1])
  /\ Ends(r)
  /\ UNCHANGED <<made, black, missed>>

\* POST /auth/verify-email: who sends a code finds the row that has it, and
\* neither the row nor the attempts are asked
VerifyEmail(r, i) ==
  /\ At(r, "idle") /\ Exists(i) /\ rows[i].code # 0
  /\ Goes(r, [Idle EXCEPT !.pc = "accept", !.id = i, !.token = rows[i].code, !.flag = TRUE])
  /\ UNCHANGED <<stored, missed, late>>

AcceptToken(r) ==
  /\ At(r, "accept") /\ req[r].flag
  /\ Put(req[r].id, [rows[req[r].id] EXCEPT !.verified = TRUE])
  /\ Goes(r, Idle)
  /\ late' = late \cup Overtakes(req[r].id)
  /\ UNCHANGED <<made, mailed, issued, black, missed>>

\* Slip: the limit is compared with >
TryCodeOnceMore(r, i, t) ==
  /\ At(r, "idle") /\ Exists(i) /\ Unverified(rows[i])
  /\ rows[i].tries <= MaxTries /\ rows[i].code # 0
  /\ Goes(r, [Idle EXCEPT !.pc = IF t = rows[i].code THEN "accept" ELSE "count", !.id = i, !.token = t])
  /\ missed' = [missed EXCEPT ![i] = IF t = rows[i].code THEN @ ELSE @ + 1]
  /\ UNCHANGED <<stored, late>>

\* verifyEmailCode reads the row and compares; 0 is a code that nobody mailed
TryCode(r, i, t) ==
  /\ At(r, "idle") /\ Exists(i) /\ Unverified(rows[i])
  /\ rows[i].tries < MaxTries /\ rows[i].code # 0
  /\ Goes(r, [Idle EXCEPT !.pc = IF t = rows[i].code THEN "accept" ELSE "count", !.id = i, !.token = t])
  /\ missed' = [missed EXCEPT ![i] = IF t = rows[i].code THEN @ ELSE @ + 1]
  /\ UNCHANGED <<stored, late>>

CountMiss(r) ==
  /\ At(r, "count")
  /\ Put(req[r].id, [rows[req[r].id] EXCEPT !.tries = @ + 1])
  /\ Ends(r)
  /\ UNCHANGED <<made, mailed, issued, black, missed>>

\* Slip: the update names the address instead of the id
AcceptByMail(r) ==
  /\ At(r, "accept") /\ ~req[r].flag
  /\ IF Holders = {} THEN UNCHANGED rows
     ELSE Put(Holder, [rows[Holder] EXCEPT !.verified = TRUE, !.tries = 0])
  /\ missed' = [missed EXCEPT ![req[r].id] = 0]
  /\ Goes(r, Idle)
  /\ late' = late \cup Overtakes(req[r].id)
  /\ UNCHANGED <<made, mailed, issued, black>>

Accept(r) ==
  /\ At(r, "accept") /\ ~req[r].flag
  /\ Put(req[r].id, [rows[req[r].id] EXCEPT !.verified = TRUE, !.tries = 0])
  /\ missed' = [missed EXCEPT ![req[r].id] = 0]
  /\ Goes(r, Idle)
  /\ late' = late \cup Overtakes(req[r].id)
  /\ UNCHANGED <<made, mailed, issued, black>>

-----------------------------------------------------------------------------
(* The password, by its old value and by a mailed link.                    *)

ChangePassword(r, i, old, new) ==
  /\ At(r, "idle") /\ Exists(i) /\ rows[i].verified /\ rows[i].pw = old
  /\ Goes(r, [Idle EXCEPT !.pc = "set", !.id = i, !.pw = new])
  /\ UNCHANGED <<stored, missed, late>>

SetPassword(r) ==
  /\ At(r, "set")
  /\ Put(req[r].id, [rows[req[r].id] EXCEPT !.pw = req[r].pw])
  /\ Ends(r)
  /\ UNCHANGED <<made, mailed, issued, black, missed>>

ForgotPassword(r) ==
  /\ At(r, "idle") /\ Holders # {} /\ EmailProvider(rows[Holder])
  /\ Goes(r, [Idle EXCEPT !.pc = "link", !.id = Holder])
  /\ UNCHANGED <<stored, missed, late>>

MailLink(r) ==
  /\ At(r, "link")
  /\ Mails(req[r].id)
  /\ Put(req[r].id, [rows[req[r].id] EXCEPT !.link = issued + 1])
  /\ Ends(r)
  /\ UNCHANGED <<made, black, missed>>

\* one transaction, the row locked; the counter of attempts is back at zero when it ends
ResetPassword(i, t, p) ==
  /\ Exists(i) /\ t # 0 /\ rows[i].link = t
  /\ Put(i, [rows[i] EXCEPT !.pw = p])
  /\ UNCHANGED <<made, mailed, issued, black, req, missed, late>>

-----------------------------------------------------------------------------
(* DELETE /users/me, and the hourly cleanup.                               *)

Remove(r, i, p) ==
  /\ At(r, "idle") /\ Exists(i) /\ rows[i].verified
  /\ rows[i].provider = "email" => rows[i].pw = p
  /\ Goes(r, [Idle EXCEPT !.pc = "purge", !.id = i])
  /\ UNCHANGED <<stored, missed, late>>

\* the transaction of purgeUserAccount, which fails when the row is gone or the database does
Purge(r) ==
  /\ At(r, "purge")
  /\ \/ Exists(req[r].id) /\ rows' = [rows EXCEPT ![req[r].id] = None] /\ To(r, "blacklist")
     \/ UNCHANGED rows /\ Goes(r, Idle)
  /\ UNCHANGED <<made, mailed, issued, black, missed, late>>

Blacklist(r) ==
  /\ At(r, "blacklist")
  /\ black' \in {black, black \cup {req[r].id}}
  /\ Ends(r)
  /\ UNCHANGED <<rows, made, mailed, issued, missed>>

\* cleanupUnverifiedRegistrations: one statement
Cleanup ==
  /\ \E i \in Ids : Exists(i) /\ Unverified(rows[i]) /\ rows[i].old
  /\ rows' = [i \in Ids |-> IF Exists(i) /\ Unverified(rows[i]) /\ rows[i].old THEN None ELSE rows[i]]
  /\ UNCHANGED <<made, mailed, issued, black, req, missed, late>>

-----------------------------------------------------------------------------
(* A login by OAuth: oauthLogin and createOrFindOAuthUser.                 *)

SignsIn(r, i, byMail) == Goes(r, [req[r] EXCEPT !.pc = "signedIn", !.id = i, !.flag = byMail])

OAuthLogin(r, d, m) ==
  /\ At(r, "idle")
  /\ \/ \E i \in Known(d) : Goes(r, [Idle EXCEPT !.pc = "signedIn", !.id = i, !.ident = d])
     \/ /\ Known(d) = {}
        /\ Goes(r, [Idle EXCEPT !.pc = IF m THEN "byMail" ELSE "insertOAuth", !.ident = d, !.flag = m])
  /\ UNCHANGED <<stored, missed, late>>

\* Slip: an account of the same address is taken for the same person
ByMailAnyProvider(r) ==
  /\ At(r, "byMail")
  /\ IF Holders = {} THEN To(r, "insertOAuth") ELSE SignsIn(r, Holder, FALSE)
  /\ UNCHANGED <<stored, missed, late>>

\* findByEmail: nobody, the same provider, or another one (409)
ByMail(r) ==
  /\ At(r, "byMail")
  /\ \/ Holders = {} /\ To(r, "insertOAuth")
     \/ Holders # {} /\ rows[Holder].provider = "oauth" /\ Goes(r, [req[r] EXCEPT !.pc = "relink", !.id = Holder])
     \/ Holders # {} /\ rows[Holder].provider # "oauth" /\ Goes(r, Idle)
  /\ UNCHANGED <<stored, missed, late>>

Relink(r) ==
  /\ At(r, "relink")
  /\ Put(req[r].id, [rows[req[r].id] EXCEPT !.ident = req[r].ident])
  /\ SignsIn(r, req[r].id, FALSE)
  /\ UNCHANGED <<made, mailed, issued, black, missed, late>>

InsertOAuth(r) ==
  /\ At(r, "insertOAuth")
  /\ \/ req[r].flag /\ Holders # {} /\ To(r, "againIdent") /\ UNCHANGED <<rows, made>>
     \/ /\ ~req[r].flag \/ Holders = {}
        /\ made < MaxRows
        /\ made' = made + 1
        /\ rows' = [rows EXCEPT ![made + 1] = OAuthRow(req[r].ident, req[r].flag)]
        /\ SignsIn(r, made + 1, FALSE)
  /\ UNCHANGED <<mailed, issued, black, missed, late>>

AgainIdent(r) ==
  /\ At(r, "againIdent")
  /\ \/ \E i \in Known(req[r].ident) : SignsIn(r, i, FALSE)
     \/ Known(req[r].ident) = {} /\ To(r, "againMail")
  /\ UNCHANGED <<stored, missed, late>>

\* the row that took the address after the first findByEmail, of whatever provider
AgainMail(r) ==
  /\ At(r, "againMail")
  /\ IF Holders = {} THEN Goes(r, Idle) ELSE SignsIn(r, Holder, TRUE)
  /\ UNCHANGED <<stored, missed, late>>

Answered(r) ==
  /\ At(r, "signedIn")
  /\ Goes(r, Idle)
  /\ UNCHANGED <<stored, missed, late>>

-----------------------------------------------------------------------------
(* Ten minutes, sixty seconds, an hour and a day go by.                    *)

CodeExpires(i) ==
  /\ Exists(i) /\ rows[i].code # 0
  /\ Put(i, [rows[i] EXCEPT !.code = 0])
  /\ UNCHANGED <<made, mailed, issued, black, req, missed, late>>

TimePasses(i) ==
  /\ Exists(i)
  /\ \/ rows[i].recent /\ Put(i, [rows[i] EXCEPT !.recent = FALSE])
     \/ rows[i].link # 0 /\ Put(i, [rows[i] EXCEPT !.link = 0])
     \/ ~rows[i].old /\ Put(i, [rows[i] EXCEPT !.old = TRUE, !.recent = FALSE])
  /\ UNCHANGED <<made, mailed, issued, black, req, missed, late>>

Writes(r) ==
  \/ Find(r) \/ Recheck(r) \/ HardDelete(r) \/ Insert(r) \/ Refresh(r)
  \/ Cooldown(r) \/ Issue(r) \/ IssueToken(r) \/ CountMiss(r) \/ Accept(r) \/ AcceptToken(r)
  \/ SetPassword(r) \/ MailLink(r) \/ Purge(r) \/ Blacklist(r)
  \/ ByMail(r) \/ Relink(r) \/ InsertOAuth(r) \/ AgainIdent(r) \/ AgainMail(r) \/ Answered(r)

Asks(r) ==
  \/ \E p \in Passwords, force \in BOOLEAN : Register(r, p, force)
  \/ \E i \in Ids : SendCode(r, i) \/ VerifyEmail(r, i)
  \/ Resend(r)
  \/ \E i \in Ids, t \in 0..issued : TryCode(r, i, t)
  \/ \E i \in Ids, p, q \in Passwords : ChangePassword(r, i, p, q)
  \/ ForgotPassword(r)
  \/ \E i \in Ids, p \in Passwords : Remove(r, i, p)
  \/ \E d \in Identities, m \in BOOLEAN : OAuthLogin(r, d, m)

Next ==
  \/ \E r \in Requests : Asks(r) \/ Writes(r)
  \/ \E i \in Ids, t \in 1..issued, p \in Passwords : ResetPassword(i, t, p)
  \/ Cleanup
  \/ \E i \in Ids : CodeExpires(i) \/ TimePasses(i)

Spec == Init /\ [][Next]_vars

-----------------------------------------------------------------------------
TypeOK ==
  /\ rows \in [Ids -> Row \cup {None}]
  /\ made \in 0..MaxRows
  /\ mailed \in [Tokens -> {0} \cup Ids]
  /\ issued \in 0..MaxTokens
  /\ black \subseteq Ids
  /\ req \in [Requests -> Request]
  /\ missed \in [Ids -> Nat]
  /\ late \subseteq Requests

(* However the attempts overlap, POST /auth/verify-email-code compares no  *)
(* more than MaxTries - 1 wrong codes, and the ones compared at that       *)
(* moment, between two resets of the counter: increment                    *)
(* (users.service.ts:743) is one statement of the database, whatever the   *)
(* row said that the attempt had read, and no resend brings it back        *)
(* without a new code.  A refreshed registration resets it, and POST       *)
(* /auth/verify-email counts nothing (see the claims below).               *)
GuessesBounded ==
  \A i \in Ids : missed[i] < MaxTries + Cardinality(Requests)

(* A row is verified only by a code that was made for that very row: a     *)
(* request that was overtaken by the deletion of its row and by a new      *)
(* registration of the address verifies nothing (users.service.ts:761).    *)
VerifiedByCode ==
  [][\A i \in Ids :
       (Exists(i) /\ rows'[i] # None /\ ~rows[i].verified /\ rows'[i].verified)
         => \E r \in Requests : At(r, "accept") /\ req[r].id = i /\ mailed[req[r].token] = i]_vars

(* An account that is verified is deleted only by its owner's request, or  *)
(* by a registration with confirmReset that checked it before it was       *)
(* verified (users.service.ts:176), which the code's comments exclude (see *)
(* the claims below); never by the cleanup, and never for what was read    *)
(* when the request began.                                                 *)
VerifiedKept ==
  [][\A i \in Ids :
       (Exists(i) /\ rows[i].verified /\ rows'[i] = None)
         => \E r \in Requests : req[r].id = i /\ (At(r, "purge") \/ (At(r, "delete") /\ r \in late))]_vars

(* The password of a verified account changes only for who knew it, who    *)
(* got a link for this account, or whose registration had been checked     *)
(* before the verification (users.service.ts:139).                         *)
PasswordKept ==
  [][\A i \in Ids :
       (Exists(i) /\ rows[i].verified /\ rows'[i] # None /\ rows'[i].pw # rows[i].pw)
         => \/ \E r \in Requests : req[r].id = i /\ (At(r, "set") \/ (At(r, "refresh") /\ r \in late))
            \/ rows[i].link # 0 /\ mailed[rows[i].link] = i /\ req' = req]_vars

(* A login by OAuth ends in an account of that provider, unless an         *)
(* account by password took the address between its lookup and its INSERT  *)
(* (users.service.ts:116 then finds that row by its e-mail).               *)
OwnAccount ==
  \A r \in Requests :
    (At(r, "signedIn") /\ ~req[r].flag /\ Exists(req[r].id)) => rows[req[r].id].provider = "oauth"

(* No account that still exists is on the blacklist, which would lock its  *)
(* owner out for 30 days (users.service.ts:535): the key is written after  *)
(* the deletion is committed, and no id comes back.                        *)
BlacklistedIsGone == \A i \in black : ~Exists(i)

-----------------------------------------------------------------------------
(* Claims of the comments that the code does not keep.                     *)

(* auth.service.ts:180: "Only EMAIL provider + isEmailVerified=false rows  *)
(* may be deleted", and users.service.ts:173: "Any attempt to delete a     *)
(* verified [...] row is rejected".  The row is verified between the check *)
(* and the DELETE.                                                         *)
VerifiedKeptAlways ==
  [][\A r \in Requests, i \in Ids :
       (At(r, "delete") /\ req[r].id = i /\ Exists(i) /\ rows'[i] = None) => ~rows[i].verified]_vars

(* users.service.ts:33: after the maximum of attempts "the code is         *)
(* invalidated and the user must request a new one".  POST                 *)
(* /auth/verify-email takes it.                                            *)
SpentCodeIsInvalid ==
  [][\A r \in Requests :
       (~At(r, "accept") /\ req'[r].pc = "accept") => rows[req'[r].id].tries < MaxTries]_vars

(* users.service.ts:704: "Max 5 attempts per code".  A refreshed           *)
(* registration keeps the code and has its attempts back at zero.          *)
AttemptsPerCode ==
  [][\A i \in Ids :
       (Exists(i) /\ rows'[i] # None /\ rows[i].code # 0 /\ rows'[i].code = rows[i].code)
         => rows'[i].verified \/ rows'[i].tries >= rows[i].tries]_vars
=============================================================================
