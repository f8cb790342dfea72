------------------------------ MODULE Session ------------------------------
(***************************************************************************)
(* The session of one installed app: the rotation of refresh tokens on the *)
(* server (auth/auth.service.ts), the 401 interceptor that refreshes them  *)
(* on the device (services/api.ts), and login, logout and the deletion of  *)
(* the account with their lock (contexts/AuthContext.tsx).                 *)
(*                                                                         *)
(* Tokens are minted in pairs and numbered in that order: token n stands   *)
(* for an access token and for the refresh token with the same jti.  0 is  *)
(* no token.  The storage of the device is read and written through its    *)
(* memory cache, so a write is visible when it is started.                 *)
(***************************************************************************)
EXTENDS Integers, Sequences, FiniteSets

CONSTANTS
  Users,        \* the rows of the users table
  NoUser,       \* nobody
  Calls,        \* API calls the app has in flight at once
  Exit,         \* the call that a logout or a deletion awaits
  Requests,     \* POST /auth/refresh requests the server works on at once
  FaultKinds,   \* which faults occur
  MaxFaults, MaxLogins, MaxTokens   \* bounds

Faults == {"network", "timeout", "storage", "server", "password"}
AllCalls == Calls \cup {Exit}

ASSUME NamesAssumption ==
  /\ NoUser \notin Users
  /\ Exit \notin Calls
ASSUME BoundsAssumption ==
  /\ FaultKinds \subseteq Faults
  /\ MaxFaults \in Nat /\ MaxLogins \in Nat /\ MaxTokens \in Nat

VARIABLES
  issued,     \* every token pair: its owner, and the token it was exchanged for
  valid,      \* the tokens n with an entry refresh:<jti> in Redis
  expired,    \* the access tokens older than 15 minutes
  deleted,    \* users whose row is gone
  cut,        \* pwd_changed:<id>: tokens up to this one predate the change
  req,        \* the refresh requests the server has
  access, refresh,   \* AUTH_TOKEN and REFRESH_TOKEN in secureStorage
  cached,     \* the profile in offlineCache
  user,       \* the user the app shows as logged in
  lock,       \* isLoggingOut
  exit,       \* the logout or deletion in progress
  flow,       \* the refresh in progress; isRefreshing while it is not "off"
  call,       \* the API calls; the queued ones are refreshSubscribers
  revoked,    \* history: tokens whose logout reached the server
  unsure,     \* history: tokens whose exchange failed half-way, or seemed to
  faults      \* counted for the bound only

serverVars == <<issued, valid, expired, deleted, cut, req>>
tokenVars  == <<access, refresh>>
appVars    == <<cached, user, lock, exit>>
vars == <<serverVars, tokenVars, appVars, flow, call, revoked, unsure, faults>>

Free   == [pc |-> "free", tok |-> 0]
Off    == [pc |-> "off", lead |-> Exit, tok |-> 0, req |-> 0]
Idle   == [pc |-> "idle", kind |-> "data", tok |-> 0, again |-> FALSE]
Inside == [pc |-> "in", tok |-> 0]

Owner(n)   == issued[n].owner
\* JwtStrategy.
Accepts(n) == n # 0 /\ n \notin expired /\ Owner(n) \notin deleted
Logins     == {n \in DOMAIN issued : issued[n].from = 0}

Fault(kind) == kind \in FaultKinds /\ faults < MaxFaults /\ faults' = faults + 1

Init ==
  /\ issued = <<>> /\ valid = {} /\ expired = {} /\ deleted = {}
  /\ cut = [u \in Users |-> 0]
  /\ req = [r \in Requests |-> Free]
  /\ access = 0 /\ refresh = 0
  /\ cached = NoUser /\ user = NoUser /\ lock = FALSE
  /\ exit = Inside /\ flow = Off
  /\ call = [c \in AllCalls |-> Idle]
  /\ revoked = {} /\ unsure = {} /\ faults = 0
-----------------------------------------------------------------------------
\* The server: AuthService.refreshToken, one await after the other.

NewPair(owner, from) ==
  /\ issued' = Append(issued, [owner |-> owner, from |-> from])
  /\ valid' = valid \cup {Len(issued) + 1}

Reply(r, pc) == req' = [req EXCEPT ![r].pc = pc]

\* The jti is looked up ...
FindToken(r) ==
  /\ req[r].pc = "find"
  /\ Reply(r, IF req[r].tok \in valid THEN "use" ELSE "refused")
  /\ UNCHANGED <<issued, valid, expired, deleted, cut, tokenVars, appVars, flow,
                 call, revoked, unsure, faults>>

\* ... and then deleted: the token is for one use.
UseToken(r) ==
  /\ req[r].pc = "use"
  /\ valid' = valid \ {req[r].tok}
  /\ Reply(r, "check")
  /\ UNCHANGED <<issued, expired, deleted, cut, tokenVars, appVars, flow, call,
                 revoked, unsure, faults>>

\* The account exists and its password is older than the token.
CheckAccount(r) ==
  /\ req[r].pc = "check"
  /\ LET n == req[r].tok
     IN  Reply(r, IF Owner(n) \in deleted \/ n <= cut[Owner(n)] THEN "refused"
                                                               ELSE "mint")
  /\ UNCHANGED <<issued, valid, expired, deleted, cut, tokenVars, appVars, flow,
                 call, revoked, unsure, faults>>

\* generateTokens: the answer names the new pair.
MintTokens(r) ==
  /\ req[r].pc = "mint"
  /\ NewPair(Owner(req[r].tok), req[r].tok)
  /\ req' = [req EXCEPT ![r] = [pc |-> "granted", tok |-> Len(issued) + 1]]
  /\ UNCHANGED <<expired, deleted, cut, tokenVars, appVars, flow, call, revoked,
                 unsure, faults>>

\* Any other failure of the handler is turned into a 401 as well.
RefreshBreaks(r) ==
  /\ req[r].pc \in {"find", "use", "check", "mint"} /\ Fault("server")
  /\ Reply(r, "refused")
  /\ unsure' = unsure \cup {req[r].tok}
  /\ UNCHANGED <<issued, valid, expired, deleted, cut, tokenVars, appVars, flow,
                 call, revoked>>

\* The answer of a request that the device no longer waits for.
DropAnswer(r) ==
  /\ req[r].pc \in {"refused", "granted"} /\ flow.req # r
  /\ req' = [req EXCEPT ![r] = Free]
  /\ UNCHANGED <<issued, valid, expired, deleted, cut, tokenVars, appVars, flow,
                 call, revoked, unsure, faults>>

\* 15 minutes have passed.
AccessExpires ==
  /\ access \notin expired \cup {0} /\ Len(issued) < MaxTokens
  /\ expired' = expired \cup {access}
  /\ UNCHANGED <<issued, valid, deleted, cut, req, tokenVars, appVars, flow, call,
                 revoked, unsure, faults>>

\* On another device the password is changed.  Tokens are dated in seconds: one
\* that was minted within the same second is not refused.
PasswordChanges(u) ==
  /\ Fault("password")
  /\ \E n \in {Len(issued) - 1, Len(issued)} :
       n > cut[u] /\ cut' = [cut EXCEPT ![u] = n]
  /\ UNCHANGED <<issued, valid, expired, deleted, req, tokenVars, appVars, flow,
                 call, revoked, unsure>>
-----------------------------------------------------------------------------
\* API calls and the 401 interceptor.

Sent(kind, n) == [pc |-> "sent", kind |-> kind, tok |-> n, again |-> FALSE]
Queued == {c \in AllCalls : call[c].pc = "queued"}

\* Rejected calls: getProfile falls back on the cached profile, and a deletion
\* that is rejected ends in the catch of handleConfirmDelete.
Rejected(calls, others, shown) ==
  /\ call' = [c \in AllCalls |-> IF c \in calls THEN Idle ELSE others[c]]
  /\ exit' = IF exit.pc = "delete" /\ Exit \in calls THEN Inside ELSE exit
  /\ LET Falls(kind) == \E c \in calls : call[c].kind = kind
     IN  user' = IF cached # NoUser /\ (Falls("login") \/ (Falls("user") /\ ~lock))
                 THEN cached ELSE shown
  /\ UNCHANGED <<cached, lock>>

\* A screen calls the API with the stored access token.
SendData(c) ==
  /\ user # NoUser /\ call[c] = Idle
  /\ call' = [call EXCEPT ![c] = Sent("data", access)]
  /\ UNCHANGED <<serverVars, tokenVars, appVars, flow, revoked, unsure, faults>>

\* silentRefresh and refreshUser ask for the profile.
RefreshUser(c) ==
  /\ user # NoUser /\ ~lock /\ refresh # 0 /\ call[c] = Idle
  /\ call' = [call EXCEPT ![c] = Sent("user", access)]
  /\ UNCHANGED <<serverVars, tokenVars, appVars, flow, revoked, unsure, faults>>

\* Slip: the lock is looked at only before the profile is asked for.
ProfileArrivesAnyway(c) ==
  /\ call[c].kind \in {"user", "login"}
  /\ cached' = Owner(call[c].tok)
  /\ user' = Owner(call[c].tok)
  /\ call' = [call EXCEPT ![c] = Idle]
  /\ UNCHANGED <<lock, exit, deleted>>

\* The profile arrives; silentRefresh and refreshUser look at the lock again.
ProfileArrives(c) ==
  /\ call[c].kind \in {"user", "login"}
  /\ cached' = Owner(call[c].tok)
  /\ user' = IF call[c].kind = "user" /\ lock THEN user ELSE Owner(call[c].tok)
  /\ call' = [call EXCEPT ![c] = Idle]
  /\ UNCHANGED <<lock, exit, deleted>>

\* POST /users/me/delete: the account is gone, and logout() is called.
AccountDeleted(c) ==
  /\ call[c].kind = "delete"
  /\ deleted' = deleted \cup {Owner(call[c].tok)}
  /\ exit' = [pc |-> "leave", tok |-> refresh]
  /\ call' = [call EXCEPT ![c] = Sent("push", access)]
  /\ UNCHANGED <<cached, user, lock>>

Serve(c) ==
  /\ call[c].pc = "sent" /\ Accepts(call[c].tok)
  /\ \/ ProfileArrives(c)
     \/ AccountDeleted(c)
     \/ /\ call[c].kind \in {"data", "push"}
        /\ call' = [call EXCEPT ![c] = Idle]
        /\ UNCHANGED <<appVars, deleted>>
  /\ UNCHANGED <<issued, valid, expired, cut, req, tokenVars, flow, revoked,
                 unsure, faults>>

\* The call fails otherwise: no network, a 5xx, a wrong password.  A deletion
\* may have taken place all the same.
CallFails(c) ==
  /\ call[c].pc = "sent" /\ Fault("network")
  /\ Rejected({c}, call, user)
  /\ \/ UNCHANGED deleted
     \/ /\ call[c].kind = "delete" /\ Accepts(call[c].tok)
        /\ deleted' = deleted \cup {Owner(call[c].tok)}
  /\ UNCHANGED <<issued, valid, expired, cut, req, tokenVars, flow, revoked, unsure>>

Refused(c) == call[c].pc = "sent" /\ ~Accepts(call[c].tok)

\* A second 401 is final.
RejectAgain(c) ==
  /\ Refused(c) /\ call[c].again
  /\ Rejected({c}, call, user)
  /\ UNCHANGED <<serverVars, tokenVars, flow, revoked, unsure, faults>>

\* A refresh is in progress: the call is queued.
Subscribe(c) ==
  /\ Refused(c) /\ ~call[c].again /\ flow.pc # "off"
  /\ call' = [call EXCEPT ![c].pc = "queued", ![c].again = TRUE]
  /\ UNCHANGED <<serverVars, tokenVars, appVars, flow, revoked, unsure, faults>>

\* Slip: isRefreshing is not looked at.
PostEveryRefresh(c) ==
  /\ Refused(c) /\ ~call[c].again /\ refresh # 0
  /\ \E r \in Requests :
       /\ req[r] = Free
       /\ req' = [req EXCEPT ![r] = [pc |-> "find", tok |-> refresh]]
       /\ flow' = [pc |-> "posted", lead |-> c, tok |-> refresh, req |-> r]
  /\ call' = [call EXCEPT ![c].pc = "lead", ![c].again = TRUE]
  /\ UNCHANGED <<issued, valid, expired, deleted, cut, tokenVars, appVars, revoked,
                 unsure, faults>>

\* The first refused call asks for new tokens.
PostRefresh(c) ==
  /\ Refused(c) /\ ~call[c].again /\ flow.pc = "off" /\ refresh # 0
  /\ \E r \in Requests :
       /\ req[r] = Free
       /\ req' = [req EXCEPT ![r] = [pc |-> "find", tok |-> refresh]]
       /\ flow' = [pc |-> "posted", lead |-> c, tok |-> refresh, req |-> r]
  /\ call' = [call EXCEPT ![c].pc = "lead", ![c].again = TRUE]
  /\ UNCHANGED <<issued, valid, expired, deleted, cut, tokenVars, appVars, revoked,
                 unsure, faults>>

\* There is no refresh token: the session cannot be recovered.
NoRefreshToken(c) ==
  /\ Refused(c) /\ ~call[c].again /\ flow.pc = "off" /\ refresh = 0
  /\ flow' = [Off EXCEPT !.pc = "expire", !.lead = c]
  /\ Rejected(Queued, [call EXCEPT ![c].pc = "lead", ![c].again = TRUE], user)
  /\ access' = 0
  /\ UNCHANGED <<serverVars, refresh, revoked, unsure, faults>>
-----------------------------------------------------------------------------
\* The refresh in progress, as the device sees it.

Answered(pc) == flow.pc = "posted" /\ req[flow.req].pc = pc

\* The new tokens are stored, one key after the other ...
StoreAccess ==
  /\ Answered("granted")
  /\ access' = req[flow.req].tok
  /\ flow' = [flow EXCEPT !.pc = "store"]
  /\ UNCHANGED <<serverVars, refresh, appVars, call, revoked, unsure, faults>>

\* Slip: only the access token is replaced.
KeepRefresh ==
  /\ flow.pc = "store"
  /\ flow' = [flow EXCEPT !.pc = "stored"]
  /\ UNCHANGED <<serverVars, tokenVars, appVars, call, revoked, unsure, faults>>

StoreRefresh ==
  /\ flow.pc = "store"
  /\ refresh' = req[flow.req].tok
  /\ flow' = [flow EXCEPT !.pc = "stored"]
  /\ UNCHANGED <<serverVars, access, appVars, call, revoked, unsure, faults>>

\* Slip: the queued calls are forgotten.
RefreshedLeader ==
  /\ flow.pc = "stored"
  /\ call' = [call EXCEPT ![flow.lead].pc = "sent",
                          ![flow.lead].tok = req[flow.req].tok]
  /\ req' = [req EXCEPT ![flow.req] = Free]
  /\ flow' = Off
  /\ UNCHANGED <<issued, valid, expired, deleted, cut, tokenVars, appVars, revoked,
                 unsure, faults>>

\* ... and the refused calls are sent again with the new one (onRefreshed).
Refreshed ==
  /\ flow.pc = "stored"
  /\ LET n == req[flow.req].tok
     IN  call' = [c \in AllCalls |-> IF c \in Queued \cup {flow.lead}
                                     THEN [call[c] EXCEPT !.pc = "sent", !.tok = n]
                                     ELSE call[c]]
  /\ req' = [req EXCEPT ![flow.req] = Free]
  /\ flow' = Off
  /\ UNCHANGED <<issued, valid, expired, deleted, cut, tokenVars, appVars, revoked,
                 unsure, faults>>

\* The refresh fails without an answer: the calls are rejected (onRefreshFailed)
\* and the tokens kept.
Fails == /\ Rejected(Queued \cup {flow.lead}, call, user)
         /\ flow' = Off

\* It is given up after 10 seconds, although the server may still be at it.
RefreshTimesOut ==
  /\ flow.pc = "posted" /\ Fault("timeout")
  /\ unsure' = unsure \cup {flow.tok}
  /\ Fails
  /\ UNCHANGED <<serverVars, tokenVars, revoked>>

\* It does not reach the server.
RefreshIsLost ==
  /\ Answered("find") /\ Fault("network")
  /\ req' = [req EXCEPT ![flow.req] = Free]
  /\ Fails
  /\ UNCHANGED <<issued, valid, expired, deleted, cut, tokenVars, revoked, unsure>>

\* The keychain throws while one of the new tokens is stored; the memory cache has it.
StorageFails ==
  /\ flow.pc \in {"store", "stored"} /\ Fault("storage")
  /\ unsure' = unsure \cup {flow.tok}
  /\ req' = [req EXCEPT ![flow.req] = Free]
  /\ Fails
  /\ UNCHANGED <<issued, valid, expired, deleted, cut, tokenVars, revoked>>

\* The server refuses: the queued calls are rejected and the tokens removed,
\* one key after the other ...
ClearAccess ==
  /\ Answered("refused")
  /\ access' = 0
  /\ req' = [req EXCEPT ![flow.req] = Free]
  /\ flow' = [flow EXCEPT !.pc = "clear", !.req = 0]
  /\ Rejected(Queued, call, user)
  /\ UNCHANGED <<issued, valid, expired, deleted, cut, refresh, revoked, unsure, faults>>

ClearRefresh ==
  /\ flow.pc = "clear"
  /\ refresh' = 0
  /\ flow' = [flow EXCEPT !.pc = "expire"]
  /\ UNCHANGED <<serverVars, access, appVars, call, revoked, unsure, faults>>

\* ... and the user is sent to the login screen (onAuthExpired), unless a logout
\* is in progress; the call that asked for the refresh is rejected last.
Expire ==
  /\ flow.pc = "expire"
  /\ Rejected({flow.lead}, call, IF lock THEN user ELSE NoUser)
  /\ flow' = Off
  /\ UNCHANGED <<serverVars, tokenVars, revoked, unsure, faults>>
-----------------------------------------------------------------------------
\* AuthContext and ProfileScreen.

\* login: the tokens are stored, the user is shown, the profile is fetched.
Login(u, c) ==
  /\ user = NoUser /\ exit = Inside /\ u \notin deleted
  /\ Cardinality(Logins) < MaxLogins /\ call[c] = Idle
  /\ NewPair(u, 0)
  /\ access' = Len(issued) + 1 /\ refresh' = Len(issued) + 1
  /\ user' = u
  /\ call' = [call EXCEPT ![c] = Sent("login", Len(issued) + 1)]
  /\ UNCHANGED <<expired, deleted, cut, req, cached, lock, exit, flow, revoked,
                 unsure, faults>>

\* logout: the lock is set first; the server is told, and the push token removed.
Logout ==
  /\ user # NoUser /\ exit = Inside /\ Len(issued) < MaxTokens
  /\ lock' = TRUE
  /\ exit' = [pc |-> "leave", tok |-> refresh]
  /\ call' = [call EXCEPT ![Exit] = Sent("push", access)]
  /\ UNCHANGED <<serverVars, tokenVars, cached, user, flow, revoked, unsure, faults>>

\* handleConfirmDelete: markAccountTerminating sets the lock.
DeleteAccount ==
  /\ user # NoUser /\ exit = Inside
  /\ lock' = TRUE
  /\ exit' = [pc |-> "delete", tok |-> 0]
  /\ call' = [call EXCEPT ![Exit] = Sent("delete", access)]
  /\ UNCHANGED <<serverVars, tokenVars, cached, user, flow, revoked, unsure,
                 faults>>

\* POST /auth/logout removes the jti, if it arrives.
RevokeToken ==
  /\ exit.pc = "leave" /\ exit.tok # 0
  /\ exit' = [exit EXCEPT !.tok = 0]
  /\ \/ /\ valid' = valid \ {exit.tok}
        /\ revoked' = revoked \cup {exit.tok}
        /\ UNCHANGED faults
     \/ Fault("network") /\ UNCHANGED <<valid, revoked>>
  /\ UNCHANGED <<issued, expired, deleted, cut, req, tokenVars, cached, user, lock,
                 flow, call, unsure>>

\* Both calls are over, and Google and RevenueCat are signed out.
WipeAccess ==
  /\ exit = [pc |-> "leave", tok |-> 0] /\ call[Exit] = Idle
  /\ access' = 0
  /\ exit' = [exit EXCEPT !.pc = "wipe"]
  /\ UNCHANGED <<serverVars, refresh, cached, user, lock, flow, call, revoked,
                 unsure, faults>>

WipeRefresh ==
  /\ exit.pc = "wipe"
  /\ refresh' = 0
  /\ exit' = [exit EXCEPT !.pc = "show"]
  /\ UNCHANGED <<serverVars, access, cached, user, lock, flow, call, revoked,
                 unsure, faults>>

\* offlineCache.clearAll, then setUser(null).
ShowLogin ==
  /\ exit.pc = "show"
  /\ cached' = NoUser /\ user' = NoUser
  /\ exit' = [exit EXCEPT !.pc = "release"]
  /\ UNCHANGED <<serverVars, tokenVars, lock, flow, call, revoked, unsure, faults>>

\* The timer set in the finally block of logout.
ReleaseLock ==
  /\ exit.pc = "release"
  /\ lock' = FALSE /\ exit' = Inside
  /\ UNCHANGED <<serverVars, tokenVars, cached, user, flow, call, revoked, unsure,
                 faults>>
-----------------------------------------------------------------------------
Exchange(r) == FindToken(r) \/ UseToken(r) \/ CheckAccount(r) \/ MintTokens(r)
               \/ DropAnswer(r)

Respond(c) == \/ Serve(c) \/ RejectAgain(c) \/ Subscribe(c) \/ PostRefresh(c)
              \/ NoRefreshToken(c)

Refresh == \/ StoreAccess \/ StoreRefresh \/ Refreshed
           \/ ClearAccess \/ ClearRefresh \/ Expire

Leave == RevokeToken \/ WipeAccess \/ WipeRefresh \/ ShowLogin \/ ReleaseLock

Next ==
  \/ \E r \in Requests : Exchange(r) \/ RefreshBreaks(r)
  \/ AccessExpires \/ \E u \in Users : PasswordChanges(u)
  \/ \E c \in AllCalls : Respond(c) \/ CallFails(c)
  \/ \E c \in Calls : \/ SendData(c) \/ RefreshUser(c)
                      \/ \E u \in Users : Login(u, c)
  \/ Refresh \/ RefreshTimesOut \/ RefreshIsLost \/ StorageFails
  \/ Logout \/ DeleteAccount \/ Leave

Spec == Init /\ [][Next]_vars

\* Calls are answered or time out, the server works on its requests, and the
\* event loop of the app runs what is ready.
FairSpec ==
  /\ Spec
  /\ \A r \in Requests : WF_vars(Exchange(r))
  /\ \A c \in AllCalls : WF_vars(Respond(c))
  /\ WF_vars(Refresh) /\ WF_vars(Leave)
-----------------------------------------------------------------------------
\* Invariants.

\* The set every variable is drawn from.
TypeOK ==
  /\ issued \in Seq([owner : Users, from : Nat])
  /\ \A n \in DOMAIN issued : issued[n].from \in 0..(n - 1)
  /\ valid \subseteq DOMAIN issued /\ expired \subseteq DOMAIN issued
  /\ revoked \subseteq DOMAIN issued /\ unsure \subseteq DOMAIN issued
  /\ deleted \subseteq Users
  /\ cut \in [Users -> Nat]
  /\ req \in [Requests -> [pc : {"free", "find", "use", "check", "mint", "refused",
                                "granted"}, tok : {0} \cup DOMAIN issued]]
  /\ {access, refresh} \subseteq {0} \cup DOMAIN issued
  /\ {cached, user} \subseteq Users \cup {NoUser}
  /\ lock \in BOOLEAN
  /\ exit \in [pc : {"in", "delete", "leave", "wipe", "show", "release"},
               tok : {0} \cup DOMAIN issued]
  /\ flow \in [pc : {"off", "posted", "store", "stored", "clear", "expire"},
               lead : AllCalls, tok : {0} \cup DOMAIN issued, req : {0} \cup Requests]
  /\ call \in [AllCalls -> [pc : {"idle", "sent", "lead", "queued"},
                            kind : {"data", "user", "login", "push", "delete"},
                            tok : {0} \cup DOMAIN issued, again : BOOLEAN]]
  /\ faults \in Nat

\* Although each of several refused calls may want a refresh, and each refresh
\* token is good for one, the app never defeats itself: an exchange is refused
\* only for a token that was logged out, that belongs to a deleted account or a
\* changed password, or whose earlier exchange was seen to fail.
RefusedForCause ==
  \A r \in Requests : req[r].pc = "refused" =>
    LET n == req[r].tok
    IN  n \in revoked \cup unsure \/ Owner(n) \in deleted \/ n <= cut[Owner(n)]

\* The lookup of a refresh token and its deletion are two statements, yet a
\* token is exchanged once, unless the app gave up on an exchange and repeats it.
ExchangedOnce ==
  \A m, n \in DOMAIN issued :
    m # n /\ issued[m].from = issued[n].from /\ issued[m].from # 0
      => issued[m].from \in unsure
-----------------------------------------------------------------------------
\* Properties of behaviours.

\* A call that waits for the answer to a refresh is answered itself, whether the
\* refresh is granted, refused, lost or given up, and whoever logs out meanwhile.
QueuedCallSettles ==
  \A c \in AllCalls :
    call[c].pc = "queued" /\ flow.pc \in {"posted", "store", "stored"}
      ~> call[c].pc # "queued"

\* While a logout or a deletion holds the lock, no profile that silentRefresh or
\* refreshUser asked for brings the user back, be it fetched (AuthContext.tsx:387) or
\* the cached one of a call whose refresh was refused (api.ts:450); only the getProfile
\* of a login that the logout has overtaken does, which looks at no lock.
LockHolds ==
  [][lock /\ user = NoUser /\ user' # NoUser => \E c \in AllCalls : call[c].kind = "login"]_vars
=============================================================================
