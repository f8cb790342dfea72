--------------------------- MODULE SessionProofs ---------------------------
(***************************************************************************)
(* Theorems about Session, for any number of users, calls in flight,       *)
(* refresh requests, logins, tokens and faults.                            *)
(***************************************************************************)
EXTENDS Session, TLAPS

-----------------------------------------------------------------------------
(* The inductive invariant. *)

Has(n) == n \in DOMAIN issued
NoHeir(n) == \A m \in DOMAIN issued : issued[m].from # n

\* The app may spend n: it is still good, or its refusal has a cause.
Fresh(n) == Has(n) /\ (n \in unsure \/ (n \in valid \cup revoked /\ NoHeir(n)))

AtWork == {"find", "use", "check", "mint", "refused"}

\* A request holds a token.
Carries == \A r \in Requests : req[r].pc # "free" => Has(req[r].tok)

\* The app waits for every request whose outcome it does not take for unknown.
Awaited ==
  \A r \in Requests : req[r].pc \in AtWork => req[r].tok \in unsure \/ (flow.pc = "posted" /\ flow.req = r)

\* What the refresh in progress and its request know of each other.
FlowInv ==
  flow.pc \in {"posted", "store", "stored"} =>
    /\ flow.req \in Requests /\ Has(flow.tok)
    /\ req[flow.req].pc # "free"
    /\ flow.pc # "posted" => req[flow.req].pc = "granted"
    /\ req[flow.req].pc \in AtWork => req[flow.req].tok = flow.tok
    /\ req[flow.req].pc \in {"find", "use"} => Fresh(flow.tok)
    /\ req[flow.req].pc \in {"check", "mint"} => flow.tok \in unsure \/ NoHeir(flow.tok)
    /\ req[flow.req].pc = "granted" => Fresh(req[flow.req].tok)

\* The stored refresh token can be spent, unless the refresh in progress spends it.
StoredInv == refresh # 0 => Fresh(refresh) \/ (flow.pc \in {"posted", "store", "clear"} /\ refresh = flow.tok)

(* RefusedForCause and ExchangedOnce need to know why the token that the    *)
(* app is about to spend is still good; so do the types of the histories.  *)
Core == Carries /\ Awaited /\ FlowInv /\ StoredInv /\ RefusedForCause /\ ExchangedOnce

\* A deletion is asked for by its own call, and a lock without a user ends soon.
DeletesOnce == \A c \in AllCalls : call[c].kind = "delete" => c = Exit /\ exit.pc = "delete"
LockInv == lock /\ user = NoUser => exit.pc = "release"

-----------------------------------------------------------------------------
(* Types. *)

Pair    == [owner : Users, from : Nat]
Tok     == {0} \cup DOMAIN issued
ReqSet  == [pc : {"free", "find", "use", "check", "mint", "refused", "granted"}, tok : Tok]
ExitSet == [pc : {"in", "delete", "leave", "wipe", "show", "release"}, tok : Tok]
FlowSet == [pc : {"off", "posted", "store", "stored", "clear", "expire"},
            lead : AllCalls, tok : Tok, req : {0} \cup Requests]
CallSet == [pc : {"idle", "sent", "lead", "queued"},
            kind : {"data", "user", "login", "push", "delete"}, tok : Tok, again : BOOLEAN]

\* A new pair is the last one and changes none before it.
LEMMA Appended ==
  ASSUME issued \in Seq(Pair), NEW p \in Pair
  PROVE  /\ Append(issued, p) \in Seq(Pair)
         /\ Len(issued) \in Nat
         /\ DOMAIN issued = 1..Len(issued)
         /\ DOMAIN Append(issued, p) = 1..(Len(issued) + 1)
         /\ \A n \in DOMAIN issued : Append(issued, p)[n] = issued[n]
         /\ Append(issued, p)[Len(issued) + 1] = p
OBVIOUS

\* What a step that mints a pair leaves typed.
LEMMA Minted ==
  ASSUME TypeOK, NEW u \in Users, NEW t \in Tok, NewPair(u, t)
  PROVE  /\ issued' \in Seq(Pair)
         /\ \A n \in DOMAIN issued' : issued'[n].from \in 0..(n - 1)
         /\ DOMAIN issued' = DOMAIN issued \cup {Len(issued) + 1}
         /\ Len(issued) + 1 \notin DOMAIN issued
         /\ Len(issued) \in Nat
         /\ valid' \subseteq DOMAIN issued'
         /\ Tok \subseteq Tok'
         /\ Len(issued) + 1 \in Tok'
         /\ \A n \in DOMAIN issued : issued'[n] = issued[n]
         /\ issued'[Len(issued) + 1] = [owner |-> u, from |-> t]
<1> DEFINE p == [owner |-> u, from |-> t]
<1>1. issued \in Seq(Pair) /\ issued' = Append(issued, p) /\ valid' = valid \cup {Len(issued) + 1}
  BY DEF TypeOK, NewPair, Pair
<1>2. p \in Pair
  BY <1>1 DEF Pair, Tok
<1>3. t \in 0..Len(issued)
  BY <1>1 DEF Tok
<1>4. /\ issued' \in Seq(Pair)
      /\ Len(issued) \in Nat
      /\ DOMAIN issued = 1..Len(issued)
      /\ DOMAIN issued' = 1..(Len(issued) + 1)
      /\ \A n \in DOMAIN issued : issued'[n] = issued[n]
      /\ issued'[Len(issued) + 1] = p
  BY <1>1, <1>2, Appended
<1>5. \A n \in DOMAIN issued' : issued'[n].from \in 0..(n - 1)
  <2>1. \A n \in DOMAIN issued : issued[n].from \in 0..(n - 1)
    BY DEF TypeOK
  <2>2. \A n \in DOMAIN issued' : n \in DOMAIN issued \/ n = Len(issued) + 1
    BY <1>4
  <2>3. p.from \in 0..((Len(issued) + 1) - 1)
    BY <1>3, <1>4
  <2> QED
    BY <1>4, <2>1, <2>2, <2>3
<1>6. DOMAIN issued' = DOMAIN issued \cup {Len(issued) + 1} /\ Len(issued) + 1 \notin DOMAIN issued
  BY <1>4
<1>7. valid' \subseteq DOMAIN issued'
  BY <1>1, <1>6 DEF TypeOK
<1>8. Tok \subseteq Tok' /\ Len(issued) + 1 \in Tok'
  BY <1>6 DEF Tok
<1> QED
  BY <1>4, <1>5, <1>6, <1>7, <1>8

LEMMA RecordTypes ==
  ASSUME TypeOK
  PROVE  /\ req \in [Requests -> ReqSet] /\ exit \in ExitSet
         /\ flow \in FlowSet /\ call \in [AllCalls -> CallSet]
         /\ Free \in ReqSet /\ Inside \in ExitSet /\ Off \in FlowSet /\ Idle \in CallSet
BY DEF TypeOK, ReqSet, ExitSet, FlowSet, CallSet, Tok, Free, Inside, Off, Idle, AllCalls

LEMMA TypeInit == Init => TypeOK
<1> SUFFICES ASSUME Init PROVE TypeOK
  OBVIOUS
<1>1. issued = <<>> /\ DOMAIN issued = {} /\ issued \in Seq([owner : Users, from : Nat])
  BY DEF Init
<1>2. req \in [Requests -> ReqSet] /\ exit \in ExitSet /\ flow \in FlowSet /\ call \in [AllCalls -> CallSet]
  BY DEF Init, Free, Off, Idle, Inside, AllCalls, ReqSet, ExitSet, FlowSet, CallSet, Tok
<1>3. cut \in [Users -> Nat] /\ lock \in BOOLEAN /\ faults \in Nat
  BY DEF Init
<1> QED
  BY <1>1, <1>2, <1>3 DEF Init, TypeOK, ReqSet, ExitSet, FlowSet, CallSet, Tok

\* What Rejected leaves typed.
LEMMA RejectedTypes ==
  ASSUME TypeOK, NEW calls, NEW others, others \in [AllCalls -> CallSet],
         NEW shown, shown \in Users \cup {NoUser}, Rejected(calls, others, shown)
  PROVE  /\ call' \in [AllCalls -> CallSet] /\ exit' \in ExitSet
         /\ user' \in Users \cup {NoUser} /\ cached' \in Users \cup {NoUser} /\ lock' \in BOOLEAN
<1>1. call' \in [AllCalls -> CallSet]
  BY RecordTypes DEF Rejected
<1>2. exit' \in ExitSet
  BY RecordTypes DEF Rejected
<1> QED
  BY <1>1, <1>2 DEF Rejected, TypeOK

\* The sets that TypeOK draws the variables from, one by one.
LEMMA TypeFacts ==
  ASSUME TypeOK
  PROVE  /\ valid \subseteq DOMAIN issued /\ expired \subseteq DOMAIN issued
         /\ revoked \subseteq DOMAIN issued /\ unsure \subseteq DOMAIN issued
         /\ deleted \subseteq Users /\ cut \in [Users -> Nat]
         /\ req \in [Requests -> ReqSet]
         /\ access \in Tok /\ refresh \in Tok
         /\ cached \in Users \cup {NoUser} /\ user \in Users \cup {NoUser} /\ lock \in BOOLEAN
         /\ exit \in ExitSet /\ flow \in FlowSet /\ call \in [AllCalls -> CallSet]
         /\ faults \in Nat
BY RecordTypes DEF TypeOK, Tok

\* A step that mints nothing keeps the types when what it assigns is typed.
LEMMA TypeKept ==
  ASSUME TypeOK, issued' = issued,
         valid' \subseteq DOMAIN issued, expired' \subseteq DOMAIN issued,
         revoked' \subseteq DOMAIN issued, unsure' \subseteq DOMAIN issued,
         deleted' \subseteq Users, cut' \in [Users -> Nat],
         req' \in [Requests -> ReqSet],
         access' \in Tok, refresh' \in Tok,
         cached' \in Users \cup {NoUser}, user' \in Users \cup {NoUser}, lock' \in BOOLEAN,
         exit' \in ExitSet, flow' \in FlowSet, call' \in [AllCalls -> CallSet],
         faults' \in Nat
  PROVE  TypeOK'
<1>1. issued' \in Seq([owner : Users, from : Nat]) /\ \A n \in DOMAIN issued' : issued'[n].from \in 0..(n - 1)
  BY DEF TypeOK
<1>2. Tok' = Tok
  BY DEF Tok
<1>3. req' \in [Requests -> ReqSet]' /\ exit' \in ExitSet' /\ flow' \in FlowSet' /\ call' \in [AllCalls -> CallSet]'
  BY <1>2 DEF ReqSet, ExitSet, FlowSet, CallSet, AllCalls
<1> QED
  BY <1>1, <1>2, <1>3 DEF TypeOK, ReqSet, ExitSet, FlowSet, CallSet, Tok

\* The same for a step that mints a pair.
LEMMA TypeMinted ==
  ASSUME TypeOK, NEW u \in Users, NEW t \in Tok, NewPair(u, t),
         UNCHANGED <<expired, deleted, cut, lock, exit, flow, revoked, unsure, faults>>,
         req' \in [Requests -> ReqSet]', access' \in Tok', refresh' \in Tok',
         cached' \in Users \cup {NoUser}, user' \in Users \cup {NoUser},
         call' \in [AllCalls -> CallSet]'
  PROVE  TypeOK'
<1>1. /\ issued' \in Seq([owner : Users, from : Nat])
      /\ \A n \in DOMAIN issued' : issued'[n].from \in 0..(n - 1)
      /\ DOMAIN issued \subseteq DOMAIN issued' /\ Tok \subseteq Tok' /\ valid' \subseteq DOMAIN issued'
  BY Minted DEF Pair
<1>2. exit' \in ExitSet' /\ flow' \in FlowSet'
  BY <1>1, TypeFacts DEF ExitSet, FlowSet, AllCalls
<1>3. /\ expired' \subseteq DOMAIN issued' /\ revoked' \subseteq DOMAIN issued' /\ unsure' \subseteq DOMAIN issued'
      /\ deleted' \subseteq Users /\ cut' \in [Users -> Nat] /\ lock' \in BOOLEAN /\ faults' \in Nat
  BY <1>1, TypeFacts
<1> QED
  BY <1>1, <1>2, <1>3 DEF TypeOK, ReqSet, ExitSet, FlowSet, CallSet, Tok

\* Every owner is a user.
LEMMA Owners == ASSUME TypeOK, NEW n \in DOMAIN issued PROVE Owner(n) \in Users
<1>1. issued \in Seq(Pair)
  BY DEF TypeOK, Pair
<1>2. issued[n] \in Pair
  BY <1>1
<1> QED
  BY <1>2 DEF Owner, Pair

LEMMA Faulty == ASSUME TypeOK, NEW k, Fault(k) PROVE faults' \in Nat
BY DEF TypeOK, Fault

LEMMA ServerTypes ==
  ASSUME TypeOK, Carries, NEW r \in Requests, Exchange(r) \/ RefreshBreaks(r)
  PROVE  TypeOK'
<1>1. CASE FindToken(r)
  <2>1. req' \in [Requests -> ReqSet]
    BY <1>1, TypeFacts DEF FindToken, Reply, ReqSet
  <2> QED
    BY <1>1, <2>1, TypeFacts, TypeKept DEF FindToken, tokenVars, appVars
<1>2. CASE UseToken(r)
  <2>1. req' \in [Requests -> ReqSet]
    BY <1>2, TypeFacts DEF UseToken, Reply, ReqSet
  <2> QED
    BY <1>2, <2>1, TypeFacts, TypeKept DEF UseToken, tokenVars, appVars
<1>3. CASE CheckAccount(r)
  <2>1. req' \in [Requests -> ReqSet]
    BY <1>3, TypeFacts DEF CheckAccount, Reply, ReqSet
  <2> QED
    BY <1>3, <2>1, TypeFacts, TypeKept DEF CheckAccount, tokenVars, appVars
<1>4. CASE DropAnswer(r)
  <2>1. req' \in [Requests -> ReqSet]
    BY <1>4, TypeFacts, RecordTypes DEF DropAnswer
  <2> QED
    BY <1>4, <2>1, TypeFacts, TypeKept DEF DropAnswer, tokenVars, appVars
<1>5. CASE RefreshBreaks(r)
  <2>1. req' \in [Requests -> ReqSet]
    BY <1>5, TypeFacts DEF RefreshBreaks, Reply, ReqSet
  <2>2. unsure' \subseteq DOMAIN issued
    BY <1>5, TypeFacts DEF RefreshBreaks, Carries, Has
  <2>3. faults' \in Nat
    BY <1>5, Faulty DEF RefreshBreaks
  <2> QED
    BY <1>5, <2>1, <2>2, <2>3, TypeFacts, TypeKept DEF RefreshBreaks, tokenVars, appVars
<1>6. CASE MintTokens(r)
  <2> DEFINE n == req[r].tok
  <2>1. n \in DOMAIN issued /\ Owner(n) \in Users /\ n \in Tok /\ NewPair(Owner(n), n)
    BY <1>6, Owners, TypeFacts DEF MintTokens, Carries, Has, Tok
  <2>2. req' \in [Requests -> ReqSet]'
    <3>1. req' = [req EXCEPT ![r] = [pc |-> "granted", tok |-> Len(issued) + 1]]
      BY <1>6 DEF MintTokens
    <3>2. [pc |-> "granted", tok |-> Len(issued) + 1] \in ReqSet'
      BY <2>1, Minted DEF ReqSet
    <3>3. ReqSet \subseteq ReqSet'
      BY <2>1, Minted DEF ReqSet
    <3> QED
      BY <3>1, <3>2, <3>3, TypeFacts
  <2>3. access \in Tok' /\ refresh \in Tok' /\ call \in [AllCalls -> CallSet]'
    <3>1. Tok \subseteq Tok' /\ CallSet \subseteq CallSet' /\ AllCalls' = AllCalls
      BY <2>1, Minted DEF CallSet, AllCalls
    <3> QED
      BY <3>1, TypeFacts
  <2> QED
    BY <1>6, <2>1, <2>2, <2>3, TypeFacts, TypeMinted DEF MintTokens, tokenVars, appVars
<1> QED
  BY <1>1, <1>2, <1>3, <1>4, <1>5, <1>6 DEF Exchange


LEMMA SentTypes == ASSUME NEW k \in {"data", "user", "login", "push", "delete"}, NEW n \in Tok PROVE Sent(k, n) \in CallSet
BY DEF Sent, CallSet

\* The answers to the calls, and calls that are sent.
LEMMA CallTypes ==
  ASSUME TypeOK, NEW c \in AllCalls,
         \/ Serve(c) \/ CallFails(c) \/ RejectAgain(c) \/ Subscribe(c)
         \/ SendData(c) \/ RefreshUser(c)
  PROVE  TypeOK'
<1>1. CASE Serve(c)
  <2> DEFINE n == call[c].tok
  <2>1. n \in DOMAIN issued /\ Owner(n) \in Users
    BY <1>1, TypeFacts, Owners DEF Serve, Accepts, CallSet, Tok
  <2>2. CASE ProfileArrives(c)
    <3>1. call' \in [AllCalls -> CallSet]
      BY <2>2, TypeFacts, RecordTypes DEF ProfileArrives
    <3>2. cached' \in Users \cup {NoUser} /\ user' \in Users \cup {NoUser}
      BY <2>1, <2>2, TypeFacts DEF ProfileArrives
    <3> QED
      BY <1>1, <2>2, <3>1, <3>2, TypeFacts, TypeKept DEF Serve, ProfileArrives, tokenVars
  <2>3. CASE AccountDeleted(c)
    <3>1. call' \in [AllCalls -> CallSet]
      BY <2>3, TypeFacts, SentTypes DEF AccountDeleted
    <3>2. exit' \in ExitSet
      BY <2>3, TypeFacts DEF AccountDeleted, ExitSet
    <3>3. deleted' \subseteq Users
      BY <2>1, <2>3, TypeFacts DEF AccountDeleted
    <3> QED
      BY <1>1, <2>3, <3>1, <3>2, <3>3, TypeFacts, TypeKept DEF Serve, AccountDeleted, tokenVars
  <2>4. CASE call' = [call EXCEPT ![c] = Idle] /\ UNCHANGED <<appVars, deleted>>
    <3>1. call' \in [AllCalls -> CallSet]
      BY <2>4, TypeFacts, RecordTypes
    <3> QED
      BY <1>1, <2>4, <3>1, TypeFacts, TypeKept DEF Serve, tokenVars, appVars
  <2> QED
    BY <1>1, <2>2, <2>3, <2>4 DEF Serve
<1>2. CASE CallFails(c)
  <2>1. /\ call' \in [AllCalls -> CallSet] /\ exit' \in ExitSet
        /\ user' \in Users \cup {NoUser} /\ cached' \in Users \cup {NoUser} /\ lock' \in BOOLEAN
    BY <1>2, TypeFacts, RejectedTypes DEF CallFails
  <2>2. faults' \in Nat
    BY <1>2, Faulty DEF CallFails
  <2>3. deleted' \subseteq Users
    <3>1. CASE deleted' = deleted
      BY <3>1, TypeFacts
    <3>2. CASE Accepts(call[c].tok) /\ deleted' = deleted \cup {Owner(call[c].tok)}
      <4>1. call[c].tok \in DOMAIN issued
        BY <3>2, TypeFacts DEF Accepts, CallSet, Tok
      <4> QED
        BY <3>2, <4>1, TypeFacts, Owners
    <3> QED
      BY <1>2, <3>1, <3>2 DEF CallFails
  <2> QED
    BY <1>2, <2>1, <2>2, <2>3, TypeFacts, TypeKept DEF CallFails, tokenVars
<1>3. CASE RejectAgain(c)
  <2>1. /\ call' \in [AllCalls -> CallSet] /\ exit' \in ExitSet
        /\ user' \in Users \cup {NoUser} /\ cached' \in Users \cup {NoUser} /\ lock' \in BOOLEAN
    BY <1>3, TypeFacts, RejectedTypes DEF RejectAgain
  <2> QED
    BY <1>3, <2>1, TypeFacts, TypeKept DEF RejectAgain, serverVars, tokenVars
<1>4. CASE Subscribe(c)
  <2>1. call' \in [AllCalls -> CallSet]
    BY <1>4, TypeFacts DEF Subscribe, CallSet
  <2> QED
    BY <1>4, <2>1, TypeFacts, TypeKept DEF Subscribe, serverVars, tokenVars, appVars
<1>5. CASE SendData(c) \/ RefreshUser(c)
  <2>1. call' \in [AllCalls -> CallSet]
    BY <1>5, TypeFacts, SentTypes DEF SendData, RefreshUser
  <2> QED
    BY <1>5, <2>1, TypeFacts, TypeKept DEF SendData, RefreshUser, serverVars, tokenVars, appVars
<1> QED
  BY <1>1, <1>2, <1>3, <1>4, <1>5

\* The refresh in progress.
LEMMA FlowTypes ==
  ASSUME TypeOK, Carries, FlowInv,
         \/ \E c \in AllCalls : PostRefresh(c) \/ NoRefreshToken(c)
         \/ Refresh \/ RefreshTimesOut \/ RefreshIsLost \/ StorageFails
  PROVE  TypeOK'
<1>1. ASSUME NEW c \in AllCalls, PostRefresh(c) PROVE TypeOK'
  <2>1. PICK r \in Requests : /\ req' = [req EXCEPT ![r] = [pc |-> "find", tok |-> refresh]]
                              /\ flow' = [pc |-> "posted", lead |-> c, tok |-> refresh, req |-> r]
    BY <1>1 DEF PostRefresh
  <2>2. req' \in [Requests -> ReqSet] /\ flow' \in FlowSet
    BY <2>1, TypeFacts DEF ReqSet, FlowSet
  <2>3. call' \in [AllCalls -> CallSet]
    BY <1>1, TypeFacts DEF PostRefresh, CallSet
  <2> QED
    BY <1>1, <2>2, <2>3, TypeFacts, TypeKept DEF PostRefresh, tokenVars, appVars
<1>2. ASSUME NEW c \in AllCalls, NoRefreshToken(c) PROVE TypeOK'
  <2> DEFINE others == [call EXCEPT ![c].pc = "lead", ![c].again = TRUE]
  <2>1. others \in [AllCalls -> CallSet]
    BY TypeFacts DEF CallSet
  <2>2. /\ call' \in [AllCalls -> CallSet] /\ exit' \in ExitSet
        /\ user' \in Users \cup {NoUser} /\ cached' \in Users \cup {NoUser} /\ lock' \in BOOLEAN
    BY <1>2, <2>1, TypeFacts, RejectedTypes DEF NoRefreshToken
  <2>3. flow' \in FlowSet /\ access' \in Tok
    BY <1>2, RecordTypes DEF NoRefreshToken, FlowSet, Tok
  <2> QED
    BY <1>2, <2>2, <2>3, TypeFacts, TypeKept DEF NoRefreshToken, serverVars
<1>3. ASSUME flow.pc \in {"posted", "store", "stored"}
      PROVE  flow.req \in Requests /\ req[flow.req] \in ReqSet /\ req[flow.req].tok \in Tok /\ flow.tok \in DOMAIN issued
  BY <1>3, TypeFacts DEF FlowInv, Has, ReqSet
<1>4. CASE StoreAccess
  <2>1. flow' \in FlowSet
    BY <1>4, TypeFacts DEF StoreAccess, FlowSet
  <2>2. access' \in Tok
    BY <1>3, <1>4 DEF StoreAccess, Answered
  <2> QED
    BY <1>4, <2>1, <2>2, TypeFacts, TypeKept DEF StoreAccess, serverVars, appVars
<1>5. CASE StoreRefresh
  <2>1. flow' \in FlowSet
    BY <1>5, TypeFacts DEF StoreRefresh, FlowSet
  <2>2. refresh' \in Tok
    BY <1>3, <1>5 DEF StoreRefresh
  <2> QED
    BY <1>5, <2>1, <2>2, TypeFacts, TypeKept DEF StoreRefresh, serverVars, appVars
<1>6. CASE Refreshed
  <2>1. req' \in [Requests -> ReqSet] /\ flow' \in FlowSet
    BY <1>6, TypeFacts, RecordTypes DEF Refreshed
  <2>2. call' \in [AllCalls -> CallSet]
    BY <1>3, <1>6, TypeFacts DEF Refreshed, CallSet
  <2> QED
    BY <1>6, <2>1, <2>2, TypeFacts, TypeKept DEF Refreshed, tokenVars, appVars
<1>7. CASE ClearAccess
  <2>1. req' \in [Requests -> ReqSet] /\ access' \in Tok
    BY <1>7, TypeFacts, RecordTypes DEF ClearAccess, Tok
  <2>2. flow' \in FlowSet
    BY <1>7, TypeFacts DEF ClearAccess, FlowSet
  <2>3. /\ call' \in [AllCalls -> CallSet] /\ exit' \in ExitSet
        /\ user' \in Users \cup {NoUser} /\ cached' \in Users \cup {NoUser} /\ lock' \in BOOLEAN
    BY <1>7, TypeFacts, RejectedTypes DEF ClearAccess
  <2> QED
    BY <1>7, <2>1, <2>2, <2>3, TypeFacts, TypeKept DEF ClearAccess
<1>8. CASE ClearRefresh
  <2>1. flow' \in FlowSet /\ refresh' \in Tok
    BY <1>8, TypeFacts DEF ClearRefresh, FlowSet, Tok
  <2> QED
    BY <1>8, <2>1, TypeFacts, TypeKept DEF ClearRefresh, serverVars, appVars
<1>9. CASE Expire
  <2>1. (IF lock THEN user ELSE NoUser) \in Users \cup {NoUser}
    BY TypeFacts
  <2>2. /\ call' \in [AllCalls -> CallSet] /\ exit' \in ExitSet
        /\ user' \in Users \cup {NoUser} /\ cached' \in Users \cup {NoUser} /\ lock' \in BOOLEAN
    BY <1>9, <2>1, TypeFacts, RejectedTypes DEF Expire
  <2> QED
    BY <1>9, <2>2, TypeFacts, RecordTypes, TypeKept DEF Expire, serverVars, tokenVars
<1>10. ASSUME Fails
       PROVE  /\ call' \in [AllCalls -> CallSet] /\ exit' \in ExitSet /\ flow' \in FlowSet
              /\ user' \in Users \cup {NoUser} /\ cached' \in Users \cup {NoUser} /\ lock' \in BOOLEAN
  BY <1>10, TypeFacts, RecordTypes, RejectedTypes DEF Fails
<1>11. CASE RefreshTimesOut
  <2>1. unsure' \subseteq DOMAIN issued
    BY <1>3, <1>11, TypeFacts DEF RefreshTimesOut
  <2>2. faults' \in Nat
    BY <1>11, Faulty DEF RefreshTimesOut
  <2> QED
    BY <1>10, <1>11, <2>1, <2>2, TypeFacts, TypeKept DEF RefreshTimesOut, serverVars, tokenVars
<1>12. CASE RefreshIsLost
  <2>1. req' \in [Requests -> ReqSet]
    BY <1>12, TypeFacts, RecordTypes DEF RefreshIsLost
  <2>2. faults' \in Nat
    BY <1>12, Faulty DEF RefreshIsLost
  <2> QED
    BY <1>10, <1>12, <2>1, <2>2, TypeFacts, TypeKept DEF RefreshIsLost, tokenVars
<1>13. CASE StorageFails
  <2>1. unsure' \subseteq DOMAIN issued /\ req' \in [Requests -> ReqSet]
    BY <1>3, <1>13, TypeFacts, RecordTypes DEF StorageFails
  <2>2. faults' \in Nat
    BY <1>13, Faulty DEF StorageFails
  <2> QED
    BY <1>10, <1>13, <2>1, <2>2, TypeFacts, TypeKept DEF StorageFails, tokenVars
<1> QED
  BY <1>1, <1>2, <1>4, <1>5, <1>6, <1>7, <1>8, <1>9, <1>11, <1>12, <1>13 DEF Refresh

\* Time, passwords, login, logout and deletion.
LEMMA AppTypes ==
  ASSUME TypeOK,
         \/ AccessExpires \/ \E u \in Users : PasswordChanges(u)
         \/ \E c \in Calls, u \in Users : Login(u, c)
         \/ Logout \/ DeleteAccount \/ Leave
  PROVE  TypeOK'
<1>1. CASE AccessExpires
  <2>1. expired' \subseteq DOMAIN issued
    BY <1>1, TypeFacts DEF AccessExpires, Tok
  <2> QED
    BY <1>1, <2>1, TypeFacts, TypeKept DEF AccessExpires, tokenVars, appVars
<1>2. ASSUME NEW u \in Users, PasswordChanges(u) PROVE TypeOK'
  <2>1. PICK n \in {Len(issued) - 1, Len(issued)} : n > cut[u] /\ cut' = [cut EXCEPT ![u] = n]
    BY <1>2 DEF PasswordChanges
  <2>2. n \in Nat
    <3>1. Len(issued) \in Nat
      BY DEF TypeOK
    <3>2. cut[u] \in Nat
      BY TypeFacts
    <3> QED
      BY <2>1, <3>1, <3>2
  <2>3. cut' \in [Users -> Nat]
    BY <2>1, <2>2, TypeFacts
  <2>4. faults' \in Nat
    BY <1>2, Faulty DEF PasswordChanges
  <2> QED
    BY <1>2, <2>3, <2>4, TypeFacts, TypeKept DEF PasswordChanges, tokenVars, appVars
<1>3. ASSUME NEW c \in Calls, NEW u \in Users, Login(u, c) PROVE TypeOK'
  <2> DEFINE n == Len(issued) + 1
  <2>1. NewPair(u, 0) /\ 0 \in Tok /\ AllCalls' = AllCalls
    BY <1>3 DEF Login, Tok, AllCalls
  <2>2. n \in Tok' /\ Tok \subseteq Tok' /\ CallSet \subseteq CallSet' /\ ReqSet \subseteq ReqSet'
    BY <2>1, Minted DEF CallSet, ReqSet
  <2>3. Sent("login", n) \in CallSet'
    BY <2>2 DEF Sent, CallSet
  <2>4. call' \in [AllCalls -> CallSet]'
    BY <1>3, <2>1, <2>2, <2>3, TypeFacts DEF Login
  <2>5. req' \in [Requests -> ReqSet]'
    BY <1>3, <2>2, TypeFacts DEF Login
  <2>6. access' \in Tok' /\ refresh' \in Tok'
    BY <1>3, <2>2 DEF Login
  <2>7. cached' \in Users \cup {NoUser} /\ user' \in Users \cup {NoUser}
    BY <1>3, TypeFacts DEF Login
  <2> QED
    BY <1>3, <2>1, <2>4, <2>5, <2>6, <2>7, TypeMinted DEF Login
<1>4. CASE Logout
  <2>1. call' \in [AllCalls -> CallSet] /\ exit' \in ExitSet
    BY <1>4, TypeFacts, SentTypes DEF Logout, ExitSet
  <2> QED
    BY <1>4, <2>1, TypeFacts, TypeKept DEF Logout, serverVars, tokenVars
<1>5. CASE DeleteAccount
  <2>1. call' \in [AllCalls -> CallSet] /\ exit' \in ExitSet
    BY <1>5, TypeFacts, SentTypes DEF DeleteAccount, ExitSet, Tok
  <2> QED
    BY <1>5, <2>1, TypeFacts, TypeKept DEF DeleteAccount, serverVars, tokenVars
<1>6. CASE RevokeToken
  <2>1. exit' \in ExitSet /\ exit.tok \in DOMAIN issued
    BY <1>6, TypeFacts DEF RevokeToken, ExitSet, Tok
  <2>2. valid' \subseteq DOMAIN issued /\ revoked' \subseteq DOMAIN issued /\ faults' \in Nat
    BY <1>6, <2>1, TypeFacts, Faulty DEF RevokeToken
  <2> QED
    BY <1>6, <2>1, <2>2, TypeFacts, TypeKept DEF RevokeToken, tokenVars
<1>7. CASE WipeAccess
  <2>1. exit' \in ExitSet /\ access' \in Tok
    BY <1>7, TypeFacts DEF WipeAccess, ExitSet, Tok
  <2> QED
    BY <1>7, <2>1, TypeFacts, TypeKept DEF WipeAccess, serverVars
<1>8. CASE WipeRefresh
  <2>1. exit' \in ExitSet /\ refresh' \in Tok
    BY <1>8, TypeFacts DEF WipeRefresh, ExitSet, Tok
  <2> QED
    BY <1>8, <2>1, TypeFacts, TypeKept DEF WipeRefresh, serverVars
<1>9. CASE ShowLogin
  <2>1. exit' \in ExitSet
    BY <1>9, TypeFacts DEF ShowLogin, ExitSet
  <2> QED
    BY <1>9, <2>1, TypeFacts, TypeKept DEF ShowLogin, serverVars, tokenVars
<1>10. CASE ReleaseLock
  <2>1. exit' \in ExitSet
    BY <1>10, RecordTypes DEF ReleaseLock
  <2> QED
    BY <1>10, <2>1, TypeFacts, TypeKept DEF ReleaseLock, serverVars, tokenVars
<1> QED
  BY <1>1, <1>2, <1>3, <1>4, <1>5, <1>6, <1>7, <1>8, <1>9, <1>10 DEF Leave

LEMMA TypeStep == ASSUME TypeOK, Carries, FlowInv, [Next]_vars PROVE TypeOK'
<1>1. CASE UNCHANGED vars
  BY <1>1, TypeFacts, TypeKept DEF vars, serverVars, tokenVars, appVars
<1>2. CASE Next
  <2>1. \A c \in Calls : c \in AllCalls
    BY DEF AllCalls
  <2> QED
    BY <1>2, <2>1, ServerTypes, CallTypes, FlowTypes, AppTypes DEF Next, Respond
<1> QED
  BY <1>1, <1>2

-----------------------------------------------------------------------------
(* The tokens. *)

LEMMA CoreInit == Init => Core
<1> SUFFICES ASSUME Init PROVE Core
  OBVIOUS
<1>1. \A r \in Requests : req[r].pc = "free"
  BY DEF Init, Free
<1>2. flow.pc = "off" /\ refresh = 0 /\ DOMAIN issued = {}
  BY DEF Init, Off
<1> QED
  BY <1>1, <1>2 DEF Core, Carries, Awaited, FlowInv, StoredInv, RefusedForCause, ExchangedOnce, AtWork

\* What the exchanges do not see.
LEMMA Quiet ==
  ASSUME Core, UNCHANGED <<issued, valid, cut, req, refresh, flow, revoked, unsure>>, deleted \subseteq deleted'
  PROVE  Core'
<1>1. \A n : (Has(n) <=> Has(n)') /\ (NoHeir(n) <=> NoHeir(n)') /\ (Fresh(n) <=> Fresh(n)')
  BY DEF Has, NoHeir, Fresh
<1>2. Carries' /\ Awaited' /\ FlowInv' /\ StoredInv'
  BY <1>1 DEF Core, Carries, Awaited, FlowInv, StoredInv
<1>3. RefusedForCause' /\ ExchangedOnce'
  BY DEF Core, RefusedForCause, ExchangedOnce, Owner
<1> QED
  BY <1>2, <1>3 DEF Core

\* A token stays fit to be spent while nothing is minted, unless it is used up.
LEMMA FreshKept ==
  ASSUME NEW n, Fresh(n), issued' = issued, revoked \subseteq revoked', unsure \subseteq unsure',
         n \in valid \ valid' => n \in revoked' \cup unsure'
  PROVE  Fresh(n)'
BY DEF Fresh, Has, NoHeir

\* What a new pair leaves true of the old tokens.
LEMMA Grown ==
  ASSUME TypeOK, NEW u \in Users, NEW t \in Tok, NewPair(u, t), UNCHANGED <<revoked, unsure>>
  PROVE  /\ \A n : Has(n) => Has(n)' /\ Owner(n)' = Owner(n)
         /\ \A n : Has(n) /\ NoHeir(n) /\ n # t => NoHeir(n)'
         /\ \A n : Fresh(n) /\ (n # t \/ n \in unsure) => Fresh(n)'
         /\ \A k : k = Len(issued) + 1 => Fresh(k)'
<1>0. PICK k : k = Len(issued) + 1
  OBVIOUS
<1>1. /\ DOMAIN issued' = DOMAIN issued \cup {k} /\ k \notin DOMAIN issued
      /\ \A n \in DOMAIN issued : issued'[n] = issued[n]
      /\ issued'[k].from = t
      /\ \A n \in DOMAIN issued' : issued'[n].from \in 0..(n - 1)
      /\ DOMAIN issued = 1..Len(issued) /\ Len(issued) \in Nat
  <2>1. DOMAIN issued = 1..Len(issued)
    BY DEF TypeOK
  <2>2. /\ \A n \in DOMAIN issued' : issued'[n].from \in 0..(n - 1)
        /\ DOMAIN issued' = DOMAIN issued \cup {Len(issued) + 1}
        /\ Len(issued) + 1 \notin DOMAIN issued
        /\ Len(issued) \in Nat
        /\ \A n \in DOMAIN issued : issued'[n] = issued[n]
        /\ issued'[Len(issued) + 1] = [owner |-> u, from |-> t]
    BY Minted
  <2> QED
    BY <1>0, <2>1, <2>2
<1>2. valid' = valid \cup {k}
  BY <1>0 DEF NewPair
<1>3. \A n : Has(n) => Has(n)' /\ Owner(n)' = Owner(n)
  BY <1>1 DEF Has, Owner
<1>4. \A n : Has(n) /\ NoHeir(n) /\ n # t => NoHeir(n)'
  BY <1>1 DEF Has, NoHeir
<1>5. \A n : Fresh(n) /\ (n # t \/ n \in unsure) => Fresh(n)'
  BY <1>2, <1>3, <1>4 DEF Fresh
<1>6. NoHeir(k)'
  <2> SUFFICES ASSUME NEW m \in DOMAIN issued' PROVE issued'[m].from # k
    BY DEF NoHeir
  <2>1. issued'[m].from \in 0..(m - 1) /\ m \in 1..(Len(issued) + 1) /\ Len(issued) \in Nat
    BY <1>0, <1>1
  <2> QED
    BY <1>0, <2>1
<1>7. Fresh(k)'
  BY <1>1, <1>2, <1>6 DEF Fresh, Has
<1> QED
  BY <1>0, <1>3, <1>4, <1>5, <1>7

\* What a reply changes, and what the end of a request does.
LEMMA Replies ==
  ASSUME TypeOK, NEW r \in Requests, NEW pc, Reply(r, pc)
  PROVE  req'[r].pc = pc /\ req'[r].tok = req[r].tok /\ \A q \in Requests \ {r} : req'[q] = req[q]
BY TypeFacts DEF Reply, ReqSet

LEMMA Freed ==
  ASSUME TypeOK, NEW r \in Requests, req' = [req EXCEPT ![r] = Free]
  PROVE  req'[r].pc = "free" /\ \A q \in Requests \ {r} : req'[q] = req[q]
BY TypeFacts DEF Free

\* The server's part.
LEMMA FindTokenCore == ASSUME TypeOK, Core, NEW r \in Requests, FindToken(r) PROVE Core'
<1>1. /\ req'[r].pc \in {"use", "refused"} /\ req'[r].tok = req[r].tok
      /\ req'[r].pc = "refused" => req[r].tok \notin valid
      /\ \A q \in Requests \ {r} : req'[q] = req[q]
  BY Replies DEF FindToken
<1>2. UNCHANGED <<issued, valid, deleted, cut, refresh, flow, revoked, unsure>> /\ req[r].pc = "find"
  BY DEF FindToken, tokenVars
<1>3. \A n : (Has(n) <=> Has(n)') /\ (NoHeir(n) <=> NoHeir(n)') /\ (Fresh(n) <=> Fresh(n)')
  BY <1>2 DEF Has, NoHeir, Fresh
<1>4. Carries' /\ Awaited' /\ StoredInv'
  BY <1>1, <1>2, <1>3 DEF Core, Carries, Awaited, StoredInv, AtWork
<1>5. FlowInv'
  BY <1>1, <1>2, <1>3 DEF Core, FlowInv, AtWork
<1>6. req'[r].pc = "refused" => req[r].tok \in revoked \cup unsure
  BY <1>1, <1>2 DEF Core, Awaited, FlowInv, AtWork, Fresh
<1>7. RefusedForCause' /\ ExchangedOnce'
  BY <1>1, <1>2, <1>6 DEF Core, RefusedForCause, ExchangedOnce, Owner
<1> QED
  BY <1>4, <1>5, <1>7 DEF Core

LEMMA UseTokenCore == ASSUME TypeOK, Core, NEW r \in Requests, UseToken(r) PROVE Core'
<1> DEFINE t == req[r].tok
<1>1. req'[r].pc = "check" /\ req'[r].tok = t /\ \A q \in Requests \ {r} : req'[q] = req[q]
  BY Replies DEF UseToken
<1>2. /\ UNCHANGED <<issued, deleted, cut, refresh, flow, revoked, unsure>> /\ req[r].pc = "use"
      /\ valid' = valid \ {t}
  BY DEF UseToken, tokenVars
<1>3. \A n : (Has(n) <=> Has(n)') /\ (NoHeir(n) <=> NoHeir(n)')
  BY <1>2 DEF Has, NoHeir
<1>4. \A n : Fresh(n) /\ (n # t \/ n \in unsure) => Fresh(n)'
  BY <1>2, FreshKept
<1>5. t \in unsure \/ (flow.pc = "posted" /\ flow.req = r /\ flow.tok = t)
  BY <1>2 DEF Core, Awaited, FlowInv, AtWork
<1>6. Carries' /\ Awaited'
  BY <1>1, <1>2, <1>3 DEF Core, Carries, Awaited, AtWork
<1>7. StoredInv'
  BY <1>2, <1>4, <1>5 DEF Core, StoredInv
<1>8. FlowInv'
  <2> SUFFICES ASSUME flow.pc \in {"posted", "store", "stored"} PROVE FlowInv'
    BY <1>2 DEF FlowInv
  <2>1. CASE flow.req = r
    <3>1. flow.tok = t /\ Fresh(t) /\ flow.pc = "posted" /\ Has(t)
      BY <1>2, <2>1 DEF Core, FlowInv, AtWork
    <3>2. t \in unsure \/ NoHeir(t)
      BY <3>1 DEF Fresh
    <3> QED
      BY <1>1, <1>2, <1>3, <2>1, <3>1, <3>2 DEF FlowInv, AtWork
  <2>2. CASE flow.req # r
    <3>1. t \in unsure
      BY <1>5, <2>2
    <3>2. \A n : Fresh(n) => Fresh(n)'
      BY <1>4, <3>1
    <3>3. flow.req \in Requests \ {r} /\ req'[flow.req] = req[flow.req]
      BY <1>1, <2>2 DEF Core, FlowInv
    <3> QED
      BY <1>2, <1>3, <3>2, <3>3 DEF Core, FlowInv
  <2> QED
    BY <2>1, <2>2
<1>9. RefusedForCause' /\ ExchangedOnce'
  BY <1>1, <1>2 DEF Core, RefusedForCause, ExchangedOnce, Owner
<1> QED
  BY <1>6, <1>7, <1>8, <1>9 DEF Core

LEMMA CheckAccountCore == ASSUME TypeOK, Core, NEW r \in Requests, CheckAccount(r) PROVE Core'
<1> DEFINE t == req[r].tok
<1>1. /\ req'[r].pc \in {"mint", "refused"} /\ req'[r].tok = t
      /\ req'[r].pc = "refused" => Owner(t) \in deleted \/ t <= cut[Owner(t)]
      /\ \A q \in Requests \ {r} : req'[q] = req[q]
  BY Replies DEF CheckAccount
<1>2. UNCHANGED <<issued, valid, deleted, cut, refresh, flow, revoked, unsure>> /\ req[r].pc = "check"
  BY DEF CheckAccount, tokenVars
<1>3. \A n : (Has(n) <=> Has(n)') /\ (NoHeir(n) <=> NoHeir(n)') /\ (Fresh(n) <=> Fresh(n)')
  BY <1>2 DEF Has, NoHeir, Fresh
<1>4. Carries' /\ Awaited' /\ StoredInv'
  BY <1>1, <1>2, <1>3 DEF Core, Carries, Awaited, StoredInv, AtWork
<1>5. FlowInv'
  BY <1>1, <1>2, <1>3 DEF Core, FlowInv, AtWork
<1>6. RefusedForCause' /\ ExchangedOnce'
  BY <1>1, <1>2 DEF Core, RefusedForCause, ExchangedOnce, Owner
<1> QED
  BY <1>4, <1>5, <1>6 DEF Core

LEMMA MintTokensCore == ASSUME TypeOK, Core, NEW r \in Requests, MintTokens(r) PROVE Core'
<1>0. PICK t, k : t = req[r].tok /\ k = Len(issued) + 1
  OBVIOUS
<1>1. /\ req'[r].pc = "granted" /\ req'[r].tok = k
      /\ \A q \in Requests \ {r} : req'[q] = req[q]
  BY <1>0, TypeFacts DEF MintTokens
<1>2. UNCHANGED <<deleted, cut, refresh, flow, revoked, unsure>> /\ req[r].pc = "mint" /\ NewPair(Owner(t), t)
  BY <1>0 DEF MintTokens, tokenVars
<1>3. Has(t) /\ t \in Tok /\ Owner(t) \in Users
  BY <1>0, <1>2, Owners DEF Core, Carries, Has, Tok
<1>4. /\ \A n : Has(n) => Has(n)' /\ Owner(n)' = Owner(n)
      /\ \A n : Has(n) /\ NoHeir(n) /\ n # t => NoHeir(n)'
      /\ \A n : Fresh(n) /\ (n # t \/ n \in unsure) => Fresh(n)'
      /\ Fresh(k)'
  BY <1>0, <1>2, <1>3, Grown
<1>5. t \in unsure \/ (flow.pc = "posted" /\ flow.req = r /\ flow.tok = t /\ NoHeir(t))
  BY <1>0, <1>2 DEF Core, Awaited, FlowInv, AtWork
<1>6. Carries' /\ Awaited'
  <2>1. Has(k)'
    BY <1>4 DEF Fresh
  <2> QED
    BY <1>1, <1>2, <1>4, <2>1 DEF Core, Carries, Awaited, AtWork
<1>7. StoredInv'
  BY <1>2, <1>4, <1>5 DEF Core, StoredInv
<1>8. FlowInv'
  <2> SUFFICES ASSUME flow.pc \in {"posted", "store", "stored"} PROVE FlowInv'
    BY <1>2 DEF FlowInv
  <2>1. CASE flow.req = r
    BY <1>1, <1>2, <1>4, <2>1 DEF Core, FlowInv, AtWork
  <2>2. CASE flow.req # r
    <3>1. t \in unsure
      BY <1>5, <2>2
    <3>2. \A n : Fresh(n) => Fresh(n)'
      BY <1>4, <3>1
    <3>3. flow.req \in Requests \ {r} /\ req'[flow.req] = req[flow.req]
      BY <1>1, <2>2 DEF Core, FlowInv
    <3> QED
      BY <1>2, <1>4, <3>1, <3>2, <3>3 DEF Core, FlowInv
  <2> QED
    BY <2>1, <2>2
<1>9. RefusedForCause'
  <2> SUFFICES ASSUME NEW q \in Requests, req'[q].pc = "refused", NEW n, n = req'[q].tok
               PROVE  n \in revoked' \cup unsure' \/ issued'[n].owner \in deleted' \/ n <= cut'[issued'[n].owner]
    BY DEF RefusedForCause, Owner
  <2>1. q # r /\ req'[q] = req[q] /\ req[q].pc = "refused" /\ n = req[q].tok
    BY <1>1
  <2>2. issued'[n].owner = issued[n].owner
    BY <1>4, <2>1 DEF Core, Carries, Owner
  <2> QED
    BY <1>2, <2>1, <2>2 DEF Core, RefusedForCause, Owner
<1>10. ExchangedOnce'
  <2>1. /\ DOMAIN issued' = DOMAIN issued \cup {k}
        /\ \A n \in DOMAIN issued : issued'[n] = issued[n]
        /\ issued'[k].from = t
    <3>1. PICK u \in Users : NewPair(u, t)
      BY <1>2, <1>3
    <3>2. /\ DOMAIN issued' = DOMAIN issued \cup {Len(issued) + 1}
          /\ \A n \in DOMAIN issued : issued'[n] = issued[n]
          /\ issued'[Len(issued) + 1] = [owner |-> u, from |-> t]
      BY <1>3, <3>1, Minted
    <3> QED
      BY <1>0, <3>2
  <2>2. t \in unsure \/ \A m \in DOMAIN issued : issued[m].from # t
    BY <1>5 DEF NoHeir
  <2> SUFFICES ASSUME NEW m \in DOMAIN issued', NEW n \in DOMAIN issued', m # n,
                      issued'[m].from = issued'[n].from, issued'[m].from # 0
               PROVE  issued'[m].from \in unsure'
    BY DEF ExchangedOnce
  <2>3. CASE m = k \/ n = k
    BY <1>2, <2>1, <2>2, <2>3
  <2>4. CASE m # k /\ n # k
    BY <1>2, <2>1, <2>4 DEF Core, ExchangedOnce
  <2> QED
    BY <2>3, <2>4
<1> QED
  BY <1>6, <1>7, <1>8, <1>9, <1>10 DEF Core

LEMMA RefreshBreaksCore == ASSUME TypeOK, Core, NEW r \in Requests, RefreshBreaks(r) PROVE Core'
<1> DEFINE t == req[r].tok
<1>1. req'[r].pc = "refused" /\ req'[r].tok = t /\ \A q \in Requests \ {r} : req'[q] = req[q]
  BY Replies DEF RefreshBreaks
<1>2. /\ UNCHANGED <<issued, valid, deleted, cut, refresh, flow, revoked>>
      /\ unsure' = unsure \cup {t} /\ req[r].pc \in AtWork
  BY DEF RefreshBreaks, tokenVars, AtWork
<1>3. \A n : (Has(n) <=> Has(n)') /\ (NoHeir(n) <=> NoHeir(n)') /\ (Fresh(n) => Fresh(n)')
  BY <1>2 DEF Has, NoHeir, Fresh
<1>4. Carries' /\ Awaited' /\ StoredInv'
  BY <1>1, <1>2, <1>3 DEF Core, Carries, Awaited, StoredInv, AtWork
<1>5. FlowInv'
  <2> SUFFICES ASSUME flow.pc \in {"posted", "store", "stored"} PROVE FlowInv'
    BY <1>2 DEF FlowInv
  <2>1. CASE flow.req = r
    BY <1>1, <1>2, <1>3, <2>1 DEF Core, FlowInv, AtWork
  <2>2. CASE flow.req # r
    <3>1. flow.req \in Requests \ {r} /\ req'[flow.req] = req[flow.req]
      BY <1>1, <2>2 DEF Core, FlowInv
    <3> QED
      BY <1>2, <1>3, <3>1 DEF Core, FlowInv
  <2> QED
    BY <2>1, <2>2
<1>6. RefusedForCause' /\ ExchangedOnce'
  BY <1>1, <1>2 DEF Core, RefusedForCause, ExchangedOnce, Owner
<1> QED
  BY <1>4, <1>5, <1>6 DEF Core

\* While the app is not in an exchange, every request at work is one of unknown outcome.
LEMMA NotPosted ==
  ASSUME Core, flow.pc # "posted"
  PROVE  \A r \in Requests : req[r].pc \in AtWork => req[r].tok \in unsure
BY DEF Core, Awaited

LEMMA DropAnswerCore == ASSUME TypeOK, Core, NEW r \in Requests, DropAnswer(r) PROVE Core'
<1>1. req'[r].pc = "free" /\ \A q \in Requests \ {r} : req'[q] = req[q]
  BY Freed DEF DropAnswer
<1>2. UNCHANGED <<issued, valid, deleted, cut, refresh, flow, revoked, unsure>> /\ flow.req # r
  BY DEF DropAnswer, tokenVars
<1>3. \A n : (Has(n) <=> Has(n)') /\ (NoHeir(n) <=> NoHeir(n)') /\ (Fresh(n) <=> Fresh(n)')
  BY <1>2 DEF Has, NoHeir, Fresh
<1>4. Carries' /\ Awaited' /\ StoredInv'
  BY <1>1, <1>2, <1>3 DEF Core, Carries, Awaited, StoredInv, AtWork
<1>5. FlowInv'
  BY <1>1, <1>2, <1>3 DEF Core, FlowInv, AtWork
<1>6. RefusedForCause' /\ ExchangedOnce'
  BY <1>1, <1>2 DEF Core, RefusedForCause, ExchangedOnce, Owner
<1> QED
  BY <1>4, <1>5, <1>6 DEF Core

LEMMA PasswordChangesCore == ASSUME TypeOK, Core, NEW u \in Users, PasswordChanges(u) PROVE Core'
<1>1. UNCHANGED <<issued, valid, deleted, req, refresh, flow, revoked, unsure>>
  BY DEF PasswordChanges, tokenVars
<1>2. \A n : (Has(n) <=> Has(n)') /\ (NoHeir(n) <=> NoHeir(n)') /\ (Fresh(n) <=> Fresh(n)')
  BY <1>1 DEF Has, NoHeir, Fresh
<1>3. Carries' /\ Awaited' /\ FlowInv' /\ StoredInv' /\ ExchangedOnce'
  BY <1>1, <1>2 DEF Core, Carries, Awaited, FlowInv, StoredInv, ExchangedOnce
<1>4. \A v \in Users : cut[v] \in Nat /\ cut'[v] \in Int /\ cut[v] <= cut'[v]
  <2>1. PICK n \in {Len(issued) - 1, Len(issued)} : n > cut[u] /\ cut' = [cut EXCEPT ![u] = n]
    BY DEF PasswordChanges
  <2>2. cut \in [Users -> Nat] /\ Len(issued) \in Nat
    BY TypeFacts DEF TypeOK
  <2>3. n \in Int
    BY <2>2
  <2> QED
    BY <2>1, <2>2, <2>3
<1>5. RefusedForCause'
  <2> SUFFICES ASSUME NEW r \in Requests, req[r].pc = "refused", NEW n, n = req[r].tok
               PROVE  n \in revoked \cup unsure \/ Owner(n) \in deleted \/ n <= cut'[Owner(n)]
    BY <1>1 DEF RefusedForCause, Owner
  <2>1. n \in DOMAIN issued /\ Owner(n) \in Users /\ n \in Int
    <3>1. n \in DOMAIN issued
      BY DEF Core, Carries, Has
    <3>2. DOMAIN issued \subseteq Int
      BY DEF TypeOK
    <3> QED
      BY <3>1, <3>2, Owners
  <2>2. n \in revoked \cup unsure \/ Owner(n) \in deleted \/ n <= cut[Owner(n)]
    BY DEF Core, RefusedForCause
  <2>3. cut[Owner(n)] <= cut'[Owner(n)] /\ cut[Owner(n)] \in Int /\ cut'[Owner(n)] \in Int
    BY <1>4, <2>1
  <2> QED
    BY <2>1, <2>2, <2>3
<1> QED
  BY <1>3, <1>5 DEF Core

\* The app's part.
LEMMA PostRefreshCore == ASSUME TypeOK, Core, NEW c \in AllCalls, PostRefresh(c) PROVE Core'
<1>1. PICK r \in Requests : /\ req[r] = Free
                            /\ req' = [req EXCEPT ![r] = [pc |-> "find", tok |-> refresh]]
                            /\ flow' = [pc |-> "posted", lead |-> c, tok |-> refresh, req |-> r]
  BY DEF PostRefresh
<1>2. /\ UNCHANGED <<issued, valid, deleted, cut, refresh, revoked, unsure>>
      /\ flow.pc = "off" /\ refresh # 0
  BY DEF PostRefresh, tokenVars
<1>3. req'[r] = [pc |-> "find", tok |-> refresh] /\ \A q \in Requests \ {r} : req'[q] = req[q]
  BY <1>1, TypeFacts
<1>4. flow'.pc = "posted" /\ flow'.tok = refresh /\ flow'.req = r
  BY <1>1
<1>5. \A n : (Has(n) <=> Has(n)') /\ (NoHeir(n) <=> NoHeir(n)') /\ (Fresh(n) <=> Fresh(n)')
  BY <1>2 DEF Has, NoHeir, Fresh
<1>6. Fresh(refresh) /\ Has(refresh)
  BY <1>2 DEF Core, StoredInv, Fresh
<1>7. Carries' /\ StoredInv'
  BY <1>2, <1>3, <1>5, <1>6 DEF Core, Carries, StoredInv
<1>8. Awaited'
  BY <1>2, <1>3, <1>4, NotPosted DEF Awaited
<1>9. FlowInv'
  <2>1. Has(refresh)' /\ Fresh(refresh)'
    BY <1>2, <1>6 DEF Has, Fresh, NoHeir
  <2>2. req'[r].pc = "find" /\ req'[r].tok = refresh
    BY <1>3
  <2> QED
    BY <1>2, <1>4, <2>1, <2>2 DEF FlowInv
<1>10. RefusedForCause' /\ ExchangedOnce'
  BY <1>2, <1>3 DEF Core, RefusedForCause, ExchangedOnce, Owner
<1> QED
  BY <1>7, <1>8, <1>9, <1>10 DEF Core

LEMMA StoreCore == ASSUME TypeOK, Core, StoreAccess \/ StoreRefresh PROVE Core'
<1>1. UNCHANGED <<issued, valid, deleted, cut, req, revoked, unsure>>
  BY DEF StoreAccess, StoreRefresh, serverVars
<1>2. /\ flow.pc \in {"posted", "store"} /\ flow'.pc \in {"store", "stored"}
      /\ flow'.req = flow.req /\ flow'.tok = flow.tok
      /\ flow'.pc = "store" => refresh' = refresh
      /\ flow'.pc = "stored" => refresh' = req[flow.req].tok
      /\ flow.pc = "posted" => req[flow.req].pc = "granted"
      /\ flow.pc = "posted" => flow'.pc = "store"
      /\ flow.pc = "store" => flow'.pc = "stored"
  BY TypeFacts DEF StoreAccess, StoreRefresh, Answered, FlowSet
<1>3. \A n : (Has(n) <=> Has(n)') /\ (NoHeir(n) <=> NoHeir(n)') /\ (Fresh(n) <=> Fresh(n)')
  BY <1>1 DEF Has, NoHeir, Fresh
<1>4. /\ flow.req \in Requests /\ Has(flow.tok) /\ req[flow.req].pc = "granted"
      /\ Fresh(req[flow.req].tok)
  BY <1>2 DEF Core, FlowInv
<1>5. \A r \in Requests : req[r].pc \in AtWork => req[r].tok \in unsure
  BY <1>4 DEF Core, Awaited, AtWork
<1>6. Carries' /\ Awaited' /\ RefusedForCause' /\ ExchangedOnce'
  BY <1>1, <1>3, <1>5 DEF Core, Carries, Awaited, RefusedForCause, ExchangedOnce, Owner, AtWork
<1>7. FlowInv'
  BY <1>1, <1>2, <1>3, <1>4 DEF FlowInv, AtWork
<1>8. StoredInv'
  <2>1. CASE flow'.pc = "stored"
    BY <1>2, <1>3, <1>4, <2>1 DEF StoredInv
  <2>2. CASE flow'.pc = "store"
    BY <1>2, <1>3, <2>2 DEF Core, StoredInv
  <2> QED
    BY <1>2, <2>1, <2>2
<1> QED
  BY <1>6, <1>7, <1>8 DEF Core

\* The refresh ends: what it leaves must be sound without it.
LEMMA Over ==
  ASSUME TypeOK, Core, UNCHANGED <<issued, valid, deleted, cut, revoked>>,
         unsure \subseteq unsure',
         \A r \in Requests : req'[r] = req[r] \/ req'[r].pc = "free",
         flow'.pc \notin {"posted", "store", "stored"},
         \A r \in Requests : req[r].pc \in AtWork /\ req'[r] = req[r] => req[r].tok \in unsure',
         refresh' # 0 => Fresh(refresh') \/ (Has(refresh') /\ refresh' \in unsure') \/ (flow'.pc = "clear" /\ refresh' = flow'.tok)
  PROVE  Core'
<1>1. \A n : (Has(n) <=> Has(n)') /\ (NoHeir(n) <=> NoHeir(n)') /\ (Fresh(n) => Fresh(n)')
  BY DEF Has, NoHeir, Fresh
<1>2. Carries' /\ Awaited' /\ FlowInv'
  BY <1>1 DEF Core, Carries, Awaited, FlowInv, AtWork
<1>3. StoredInv'
  BY DEF StoredInv, Fresh, Has, NoHeir
<1>4. RefusedForCause' /\ ExchangedOnce'
  BY DEF Core, RefusedForCause, ExchangedOnce, Owner
<1> QED
  BY <1>2, <1>3, <1>4 DEF Core

LEMMA EndsCore ==
  ASSUME TypeOK, Core,
         \/ \E c \in AllCalls : NoRefreshToken(c)
         \/ Refreshed \/ ClearAccess \/ ClearRefresh \/ Expire
         \/ RefreshTimesOut \/ RefreshIsLost \/ StorageFails
  PROVE  Core'
<1>0. ASSUME flow.pc \in {"posted", "store", "stored"}
      PROVE  /\ flow.req \in Requests /\ Has(flow.tok)
             /\ flow.pc # "posted" => req[flow.req].pc = "granted"
             /\ req[flow.req].pc \in AtWork => req[flow.req].tok = flow.tok
             /\ req[flow.req].pc = "find" => Fresh(flow.tok)
  BY <1>0 DEF Core, FlowInv
<1>1. ASSUME NEW c \in AllCalls, NoRefreshToken(c) PROVE Core'
  <2>1. /\ UNCHANGED <<issued, valid, deleted, cut, revoked, req, unsure, refresh>>
        /\ flow.pc = "off" /\ refresh = 0 /\ flow'.pc = "expire"
    BY <1>1 DEF NoRefreshToken, serverVars, Off
  <2>2. \A r \in Requests : req[r].pc \in AtWork => req[r].tok \in unsure
    BY <2>1, NotPosted
  <2> QED
    BY <2>1, <2>2, Over
<1>2. CASE Refreshed
  <2>1. /\ UNCHANGED <<issued, valid, deleted, cut, revoked, unsure, refresh>>
        /\ flow.pc = "stored" /\ flow'.pc = "off" /\ req' = [req EXCEPT ![flow.req] = Free]
    BY <1>2 DEF Refreshed, tokenVars, Off
  <2>2. \A r \in Requests : req[r].pc \in AtWork => req[r].tok \in unsure
    BY <2>1, NotPosted
  <2>3. \A r \in Requests : req'[r] = req[r] \/ req'[r].pc = "free"
    BY <1>0, <2>1, Freed
  <2>4. refresh # 0 => Fresh(refresh)
    BY <2>1 DEF Core, StoredInv
  <2> QED
    BY <2>1, <2>2, <2>3, <2>4, Over
<1>3. CASE ClearAccess
  <2>1. /\ UNCHANGED <<issued, valid, deleted, cut, revoked, unsure, refresh>>
        /\ flow.pc = "posted" /\ flow'.pc = "clear" /\ flow'.tok = flow.tok
        /\ req' = [req EXCEPT ![flow.req] = Free]
    BY <1>3, TypeFacts DEF ClearAccess, Answered, FlowSet
  <2>2. /\ req'[flow.req].pc = "free" /\ \A r \in Requests \ {flow.req} : req'[r] = req[r]
    BY <1>0, <2>1, Freed
  <2>3. \A r \in Requests : req[r].pc \in AtWork /\ req'[r] = req[r] => req[r].tok \in unsure
    BY <2>2 DEF Core, Awaited, AtWork
  <2>4. refresh # 0 => Fresh(refresh) \/ refresh = flow.tok
    BY DEF Core, StoredInv
  <2> QED
    BY <2>1, <2>2, <2>3, <2>4, Over
<1>4. CASE ClearRefresh
  <2>1. /\ UNCHANGED <<issued, valid, deleted, cut, revoked, unsure, req>>
        /\ flow.pc = "clear" /\ flow'.pc = "expire" /\ refresh' = 0
    BY <1>4, TypeFacts DEF ClearRefresh, serverVars, FlowSet
  <2>2. \A r \in Requests : req[r].pc \in AtWork => req[r].tok \in unsure
    BY <2>1, NotPosted
  <2> QED
    BY <2>1, <2>2, Over
<1>5. CASE Expire
  <2>1. /\ UNCHANGED <<issued, valid, deleted, cut, revoked, unsure, req, refresh>>
        /\ flow.pc = "expire" /\ flow'.pc = "off"
    BY <1>5 DEF Expire, serverVars, tokenVars, Off
  <2>2. \A r \in Requests : req[r].pc \in AtWork => req[r].tok \in unsure
    BY <2>1, NotPosted
  <2>3. refresh # 0 => Fresh(refresh)
    BY <2>1 DEF Core, StoredInv
  <2> QED
    BY <2>1, <2>2, <2>3, Over
<1>6. CASE RefreshTimesOut
  <2>1. /\ UNCHANGED <<issued, valid, deleted, cut, revoked, req, refresh>>
        /\ unsure' = unsure \cup {flow.tok}
        /\ flow.pc = "posted" /\ flow'.pc = "off"
    BY <1>6 DEF RefreshTimesOut, Fails, serverVars, tokenVars, Off
  <2>2. \A r \in Requests : req[r].pc \in AtWork => req[r].tok \in unsure'
    BY <1>0, <2>1 DEF Core, Awaited
  <2>3. refresh # 0 => Fresh(refresh) \/ (Has(refresh) /\ refresh \in unsure')
    BY <1>0, <2>1 DEF Core, StoredInv
  <2> QED
    BY <2>1, <2>2, <2>3, Over
<1>7. CASE RefreshIsLost
  <2>1. /\ UNCHANGED <<issued, valid, deleted, cut, revoked, refresh, unsure>>
        /\ req' = [req EXCEPT ![flow.req] = Free]
        /\ flow.pc = "posted" /\ flow'.pc = "off" /\ req[flow.req].pc = "find"
    BY <1>7 DEF RefreshIsLost, Answered, Fails, tokenVars, Off
  <2>2. req'[flow.req].pc = "free" /\ \A r \in Requests \ {flow.req} : req'[r] = req[r]
    BY <1>0, <2>1, Freed
  <2>3. \A r \in Requests : req[r].pc \in AtWork /\ req'[r] = req[r] => req[r].tok \in unsure
    BY <2>2 DEF Core, Awaited, AtWork
  <2>4. refresh # 0 => Fresh(refresh)
    BY <1>0, <2>1 DEF Core, StoredInv
  <2> QED
    BY <2>1, <2>2, <2>3, <2>4, Over
<1>8. CASE StorageFails
  <2>1. /\ UNCHANGED <<issued, valid, deleted, cut, revoked, refresh>>
        /\ unsure' = unsure \cup {flow.tok}
        /\ req' = [req EXCEPT ![flow.req] = Free]
        /\ flow.pc \in {"store", "stored"} /\ flow'.pc = "off"
    BY <1>8 DEF StorageFails, Fails, tokenVars, Off
  <2>2. \A r \in Requests : req'[r] = req[r] \/ req'[r].pc = "free"
    BY <1>0, <2>1, Freed
  <2>3. \A r \in Requests : req[r].pc \in AtWork => req[r].tok \in unsure'
    BY <2>1, NotPosted
  <2>4. refresh # 0 => Fresh(refresh) \/ (Has(refresh) /\ refresh \in unsure')
    BY <1>0, <2>1 DEF Core, StoredInv
  <2> QED
    BY <2>1, <2>2, <2>3, <2>4, Over
<1> QED
  BY <1>1, <1>2, <1>3, <1>4, <1>5, <1>6, <1>7, <1>8

LEMMA LoginCore == ASSUME TypeOK, Core, NEW c \in Calls, NEW u \in Users, Login(u, c) PROVE Core'
<1>0. PICK k : k = Len(issued) + 1
  OBVIOUS
<1>1. UNCHANGED <<deleted, cut, req, flow, revoked, unsure>> /\ NewPair(u, 0) /\ 0 \in Tok /\ refresh' = k
  BY <1>0 DEF Login, Tok
<1>2. /\ \A n : Has(n) => Has(n)' /\ Owner(n)' = Owner(n)
      /\ \A n : Has(n) /\ NoHeir(n) /\ n # 0 => NoHeir(n)'
      /\ \A n : Fresh(n) /\ (n # 0 \/ n \in unsure) => Fresh(n)'
      /\ Fresh(k)'
  BY <1>0, <1>1, Grown
<1>3. \A n : Has(n) => n # 0
  BY DEF Has, TypeOK
<1>4. \A n : Fresh(n) => Fresh(n)'
  BY <1>2, <1>3 DEF Fresh
<1>5. Carries' /\ Awaited'
  BY <1>1, <1>2 DEF Core, Carries, Awaited
<1>6. FlowInv'
  BY <1>1, <1>2, <1>3, <1>4 DEF Core, FlowInv
<1>7. StoredInv'
  BY <1>1, <1>2 DEF StoredInv
<1>8. RefusedForCause'
  <2> SUFFICES ASSUME NEW q \in Requests, req[q].pc = "refused", NEW n, n = req[q].tok
               PROVE  n \in revoked \cup unsure \/ issued'[n].owner \in deleted \/ n <= cut[issued'[n].owner]
    BY <1>1 DEF RefusedForCause, Owner
  <2>1. issued'[n].owner = issued[n].owner
    BY <1>2 DEF Core, Carries, Owner
  <2> QED
    BY <2>1 DEF Core, RefusedForCause, Owner
<1>9. ExchangedOnce'
  <2>1. /\ DOMAIN issued' = DOMAIN issued \cup {k}
        /\ \A n \in DOMAIN issued : issued'[n] = issued[n]
        /\ issued'[k].from = 0
    <3>1. /\ DOMAIN issued' = DOMAIN issued \cup {Len(issued) + 1}
          /\ \A n \in DOMAIN issued : issued'[n] = issued[n]
          /\ issued'[Len(issued) + 1] = [owner |-> u, from |-> 0]
      BY <1>1, Minted
    <3> QED
      BY <1>0, <3>1
  <2> QED
    BY <1>1, <2>1 DEF Core, ExchangedOnce
<1> QED
  BY <1>5, <1>6, <1>7, <1>8, <1>9 DEF Core

LEMMA LeaveCore == ASSUME TypeOK, Core, RevokeToken \/ WipeRefresh PROVE Core'
<1>1. CASE RevokeToken
  <2>1. /\ UNCHANGED <<issued, deleted, cut, req, refresh, flow, unsure>> /\ revoked \subseteq revoked'
        /\ valid \ valid' \subseteq revoked'
    BY <1>1 DEF RevokeToken, tokenVars
  <2>2. \A n : (Has(n) <=> Has(n)') /\ (NoHeir(n) <=> NoHeir(n)') /\ (Fresh(n) => Fresh(n)')
    BY <2>1 DEF Has, NoHeir, Fresh
  <2>3. Carries' /\ Awaited' /\ FlowInv' /\ StoredInv'
    BY <2>1, <2>2 DEF Core, Carries, Awaited, FlowInv, StoredInv
  <2>4. RefusedForCause' /\ ExchangedOnce'
    BY <2>1 DEF Core, RefusedForCause, ExchangedOnce, Owner
  <2> QED
    BY <2>3, <2>4 DEF Core
<1>2. CASE WipeRefresh
  <2>1. UNCHANGED <<issued, valid, deleted, cut, req, flow, revoked, unsure>> /\ refresh' = 0
    BY <1>2 DEF WipeRefresh, serverVars
  <2>2. \A n : (Has(n) <=> Has(n)') /\ (NoHeir(n) <=> NoHeir(n)') /\ (Fresh(n) <=> Fresh(n)')
    BY <2>1 DEF Has, NoHeir, Fresh
  <2>3. Carries' /\ Awaited' /\ FlowInv' /\ StoredInv'
    BY <2>1, <2>2 DEF Core, Carries, Awaited, FlowInv, StoredInv
  <2>4. RefusedForCause' /\ ExchangedOnce'
    BY <2>1 DEF Core, RefusedForCause, ExchangedOnce, Owner
  <2> QED
    BY <2>3, <2>4 DEF Core
<1> QED
  BY <1>1, <1>2

LEMMA CoreStep == ASSUME TypeOK, Core, [Next]_vars PROVE Core'
<1>1. ASSUME \/ AccessExpires \/ Logout \/ DeleteAccount
             \/ WipeAccess \/ ShowLogin \/ ReleaseLock \/ UNCHANGED vars
      PROVE  Core'
  <2>1. UNCHANGED <<issued, valid, cut, req, refresh, flow, revoked, unsure, deleted>>
    BY <1>1 DEF AccessExpires, Logout, DeleteAccount, WipeAccess, ShowLogin, ReleaseLock,
                vars, serverVars, tokenVars, appVars
  <2> QED
    BY <2>1, Quiet
<1>2. ASSUME NEW c \in AllCalls,
             Serve(c) \/ CallFails(c) \/ RejectAgain(c) \/ Subscribe(c) \/ SendData(c) \/ RefreshUser(c)
      PROVE  Core'
  <2>1. UNCHANGED <<issued, valid, cut, req, refresh, flow, revoked, unsure>> /\ deleted \subseteq deleted'
    BY <1>2 DEF Serve, ProfileArrives, AccountDeleted, CallFails, RejectAgain, Subscribe,
                SendData, RefreshUser, serverVars, tokenVars, appVars
  <2> QED
    BY <2>1, Quiet
<1>3. ASSUME NEW r \in Requests, Exchange(r) \/ RefreshBreaks(r) PROVE Core'
  BY <1>3, FindTokenCore, UseTokenCore, CheckAccountCore, MintTokensCore, RefreshBreaksCore,
     DropAnswerCore DEF Exchange
<1>4. ASSUME NEW c \in AllCalls, PostRefresh(c) \/ NoRefreshToken(c) PROVE Core'
  BY <1>4, PostRefreshCore, EndsCore
<1>5. CASE Refresh \/ RefreshTimesOut \/ RefreshIsLost \/ StorageFails
  BY <1>5, StoreCore, EndsCore DEF Refresh
<1>6. \A c \in Calls : c \in AllCalls
  BY DEF AllCalls
<1> QED
  BY <1>1, <1>2, <1>3, <1>4, <1>5, <1>6, PasswordChangesCore, LoginCore, LeaveCore
     DEF Next, Respond, Leave

-----------------------------------------------------------------------------
(* The lock. *)

LoginPending == \E c \in AllCalls : call[c].kind = "login"

\* What a step must not do under the lock.
Locked == lock /\ user = NoUser /\ user' # NoUser => LoginPending

LEMMA LockStart == Init => DeletesOnce /\ LockInv
<1> SUFFICES ASSUME Init PROVE DeletesOnce /\ LockInv
  OBVIOUS
<1>1. \A c \in AllCalls : call[c].kind = "data"
  BY DEF Init, Idle
<1> QED
  BY <1>1 DEF Init, DeletesOnce, LockInv

\* Steps that show no user, and leave the lock and the kinds of the calls alone.
LEMMA SameCalls ==
  ASSUME DeletesOnce, LockInv, UNCHANGED <<lock, exit, user>>,
         \A c \in AllCalls : call'[c].kind \in {call[c].kind, "data", "user"}
  PROVE  DeletesOnce' /\ LockInv' /\ Locked
BY DEF DeletesOnce, LockInv, Locked, AllCalls

\* Rejected calls bring no user back, and end a deletion together with its call.
LEMMA RejectedLock ==
  ASSUME TypeOK, DeletesOnce, LockInv, NEW calls, NEW others, NEW shown,
         calls \subseteq AllCalls,
         \A c \in AllCalls : others[c].kind = call[c].kind, lock => shown = user,
         Rejected(calls, others, shown)
  PROVE  DeletesOnce' /\ LockInv' /\ Locked
<1>1. /\ \A c \in AllCalls : call'[c] = IF c \in calls THEN Idle ELSE others[c]
      /\ exit' = IF exit.pc = "delete" /\ Exit \in calls THEN Inside ELSE exit
      /\ lock' = lock
      /\ LET Falls(kind) == \E c \in calls : call[c].kind = kind
         IN  user' = IF cached # NoUser /\ (Falls("login") \/ (Falls("user") /\ ~lock))
                     THEN cached ELSE shown
  BY DEF Rejected
<1>2. \A c \in AllCalls : call'[c].kind = "delete" => call[c].kind = "delete" /\ c \notin calls
  BY <1>1 DEF Idle
<1>3. DeletesOnce'
  BY <1>1, <1>2 DEF DeletesOnce, AllCalls
<1>4. LockInv'
  BY <1>1 DEF LockInv
<1>5. Locked
  BY <1>1 DEF Locked, LoginPending
<1> QED
  BY <1>3, <1>4, <1>5

LEMMA LockStep ==
  ASSUME TypeOK, DeletesOnce, LockInv, [Next]_vars
  PROVE  DeletesOnce' /\ LockInv' /\ Locked
<1>0. /\ \A c \in Calls : c \in AllCalls
      /\ Exit \in AllCalls /\ Exit \notin Calls /\ NoUser \notin Users
      /\ call \in [AllCalls -> CallSet]
  BY TypeFacts, NamesAssumption DEF AllCalls
<1>1. ASSUME \/ \E r \in Requests : Exchange(r) \/ RefreshBreaks(r)
             \/ AccessExpires \/ \E u \in Users : PasswordChanges(u)
             \/ StoreAccess \/ StoreRefresh \/ ClearRefresh \/ UNCHANGED vars
      PROVE  DeletesOnce' /\ LockInv' /\ Locked
  <2>1. UNCHANGED <<lock, exit, user, call>>
    BY <1>1 DEF Exchange, FindToken, UseToken, CheckAccount, MintTokens, DropAnswer, RefreshBreaks,
                AccessExpires, PasswordChanges, StoreAccess, StoreRefresh, ClearRefresh,
                vars, appVars
  <2> QED
    BY <2>1, SameCalls
<1>2. ASSUME NEW c \in AllCalls, Subscribe(c) \/ PostRefresh(c)
      PROVE  DeletesOnce' /\ LockInv' /\ Locked
  <2>1. UNCHANGED <<lock, exit, user>> /\ \A d \in AllCalls : call'[d].kind = call[d].kind
    BY <1>0, <1>2 DEF Subscribe, PostRefresh, appVars, CallSet
  <2> QED
    BY <2>1, SameCalls
<1>3. ASSUME NEW c \in AllCalls, SendData(c) \/ RefreshUser(c)
      PROVE  DeletesOnce' /\ LockInv' /\ Locked
  <2>1. UNCHANGED <<lock, exit, user>> /\ \A d \in AllCalls : call'[d].kind \in {call[d].kind, "data", "user"}
    BY <1>0, <1>3 DEF SendData, RefreshUser, Sent, appVars
  <2> QED
    BY <2>1, SameCalls
<1>4. CASE Refreshed
  <2>1. UNCHANGED <<lock, exit, user>> /\ \A d \in AllCalls : call'[d].kind = call[d].kind
    BY <1>0, <1>4 DEF Refreshed, appVars, CallSet
  <2> QED
    BY <2>1, SameCalls
<1>5. ASSUME NEW c \in AllCalls, Serve(c) PROVE DeletesOnce' /\ LockInv' /\ Locked
  <2>1. Owner(call[c].tok) \in Users
    BY <1>5, TypeFacts, Owners DEF Serve, Accepts, CallSet, Tok
  <2>2. CASE ProfileArrives(c)
    <3>1. /\ \A d \in AllCalls : call'[d] = IF d = c THEN Idle ELSE call[d]
          /\ UNCHANGED <<lock, exit>> /\ call[c].kind \in {"user", "login"}
          /\ user' = IF call[c].kind = "user" /\ lock THEN user ELSE Owner(call[c].tok)
      BY <1>0, <2>2 DEF ProfileArrives
    <3>2. DeletesOnce'
      BY <3>1 DEF DeletesOnce, Idle
    <3>3. LockInv'
      BY <1>0, <2>1, <3>1 DEF LockInv
    <3>4. Locked
      BY <3>1 DEF Locked, LoginPending
    <3> QED
      BY <3>2, <3>3, <3>4
  <2>3. CASE AccountDeleted(c)
    <3>1. /\ \A d \in AllCalls : call'[d] = IF d = c THEN Sent("push", access) ELSE call[d]
          /\ UNCHANGED <<lock, user>> /\ call[c].kind = "delete"
      BY <1>0, <2>3 DEF AccountDeleted
    <3>2. c = Exit /\ exit.pc = "delete"
      BY <3>1 DEF DeletesOnce
    <3>3. DeletesOnce'
      BY <3>1, <3>2 DEF DeletesOnce, Sent
    <3>4. LockInv' /\ Locked
      BY <3>1, <3>2 DEF LockInv, Locked
    <3> QED
      BY <3>3, <3>4
  <2>4. CASE call' = [call EXCEPT ![c] = Idle] /\ UNCHANGED <<appVars, deleted>>
    <3>1. UNCHANGED <<lock, exit, user>> /\ \A d \in AllCalls : call'[d].kind \in {call[d].kind, "data", "user"}
      BY <1>0, <2>4 DEF Idle, appVars
    <3> QED
      BY <3>1, SameCalls
  <2> QED
    BY <1>5, <2>2, <2>3, <2>4 DEF Serve
<1>6. ASSUME NEW c \in AllCalls, CallFails(c) \/ RejectAgain(c)
      PROVE  DeletesOnce' /\ LockInv' /\ Locked
  <2>1. Rejected({c}, call, user)
    BY <1>6 DEF CallFails, RejectAgain
  <2> QED
    BY <2>1, RejectedLock
<1>7. ASSUME NEW c \in AllCalls, NoRefreshToken(c) PROVE DeletesOnce' /\ LockInv' /\ Locked
  <2> DEFINE others == [call EXCEPT ![c].pc = "lead", ![c].again = TRUE]
  <2>1. Rejected(Queued, others, user) /\ Queued \subseteq AllCalls
    BY <1>7 DEF NoRefreshToken, Queued
  <2>2. \A d \in AllCalls : others[d].kind = call[d].kind
    BY <1>0 DEF CallSet
  <2> HIDE DEF others
  <2> QED
    BY <2>1, <2>2, RejectedLock
<1>8. CASE ClearAccess
  <2>1. Rejected(Queued, call, user) /\ Queued \subseteq AllCalls
    BY <1>8 DEF ClearAccess, Queued
  <2> QED
    BY <2>1, RejectedLock
<1>9. CASE Expire
  <2>1. Rejected({flow.lead}, call, IF lock THEN user ELSE NoUser) /\ {flow.lead} \subseteq AllCalls
    BY <1>9, TypeFacts DEF Expire, FlowSet
  <2> QED
    BY <2>1, RejectedLock
<1>10. CASE RefreshTimesOut \/ RefreshIsLost \/ StorageFails
  <2>1. Rejected(Queued \cup {flow.lead}, call, user) /\ Queued \cup {flow.lead} \subseteq AllCalls
    BY <1>10, TypeFacts DEF RefreshTimesOut, RefreshIsLost, StorageFails, Fails, FlowSet, Queued
  <2> QED
    BY <2>1, RejectedLock
<1>11. ASSUME NEW c \in Calls, NEW u \in Users, Login(u, c) PROVE DeletesOnce' /\ LockInv' /\ Locked
  <2>1. /\ \A d \in AllCalls : call'[d].kind = IF d = c THEN "login" ELSE call[d].kind
        /\ UNCHANGED <<lock, exit>> /\ user' = u /\ user = NoUser /\ exit.pc = "in"
    BY <1>0, <1>11 DEF Login, Sent, Inside
  <2> QED
    BY <1>0, <2>1 DEF DeletesOnce, LockInv, Locked
<1>12. CASE Logout \/ DeleteAccount
  <2>1. /\ \A d \in AllCalls : d # Exit => call'[d] = call[d]
        /\ call'[Exit].kind = "delete" => exit'.pc = "delete"
        /\ user' = user /\ user # NoUser /\ exit.pc = "in"
    BY <1>0, <1>12 DEF Logout, DeleteAccount, Sent, Inside
  <2> QED
    BY <2>1 DEF DeletesOnce, LockInv, Locked
<1>13. CASE Leave
  <2>1. call' = call /\ exit.pc # "delete"
    BY <1>13 DEF Leave, RevokeToken, WipeAccess, WipeRefresh, ShowLogin, ReleaseLock
  <2>2. DeletesOnce'
    BY <2>1 DEF DeletesOnce
  <2>3. /\ user' \in {user, NoUser}
        /\ lock' /\ user' = NoUser => exit'.pc = "release"
    <3>1. CASE RevokeToken \/ WipeAccess \/ WipeRefresh
      <4>1. UNCHANGED <<lock, user>> /\ exit.pc # "release"
        BY <3>1 DEF RevokeToken, WipeAccess, WipeRefresh
      <4> QED
        BY <4>1 DEF LockInv
    <3>2. CASE ShowLogin
      BY <3>2, TypeFacts DEF ShowLogin, ExitSet
    <3>3. CASE ReleaseLock
      BY <3>3 DEF ReleaseLock
    <3> QED
      BY <1>13, <3>1, <3>2, <3>3 DEF Leave
  <2> QED
    BY <2>2, <2>3 DEF LockInv, Locked
<1> QED
  BY <1>0, <1>1, <1>2, <1>3, <1>4, <1>5, <1>6, <1>7, <1>8, <1>9, <1>10, <1>11, <1>12, <1>13
     DEF Next, Respond, Refresh

-----------------------------------------------------------------------------
(* The theorems. *)

\* The two invariants that every run of the app keeps.
LEMMA Inductive == Spec => [](TypeOK /\ Core /\ DeletesOnce /\ LockInv)
<1>1. Init => TypeOK /\ Core /\ DeletesOnce /\ LockInv
  BY TypeInit, CoreInit, LockStart
<1>2. TypeOK /\ Core /\ DeletesOnce /\ LockInv /\ [Next]_vars => (TypeOK /\ Core /\ DeletesOnce /\ LockInv)'
  BY TypeStep, CoreStep, LockStep DEF Core
<1> QED
  BY <1>1, <1>2, PTL DEF Spec

\* Every variable keeps its type; in particular, whatever the faults, the tokens
\* that the app stores and that the requests carry are tokens that were issued
\* (auth.service.ts, api.ts).
THEOREM TypeCorrect == Spec => []TypeOK
BY Inductive, PTL

\* The server never refuses a refresh token that the app had reason to believe in:
\* the single-flight refresh of the interceptor (api.ts) and the rotation of the
\* server (auth.service.ts) fit each other.
THEOREM RefusedForCauseHolds == Spec => []RefusedForCause
<1>1. Core => RefusedForCause
  BY DEF Core
<1> QED
  BY <1>1, Inductive, PTL

\* No refresh token has two heirs, unless the app has seen its exchange fail: the
\* lookup and the deletion of refreshToken (auth.service.ts) are never interleaved
\* with those of the same token, because the app asks one refresh at a time.
THEOREM ExchangedOnceHolds == Spec => []ExchangedOnce
<1>1. Core => ExchangedOnce
  BY DEF Core
<1> QED
  BY <1>1, Inductive, PTL

\* While the lock of a logout or a deletion is held (AuthContext.tsx), no profile
\* brings a user back but the one that an overtaken login asked for.
THEOREM LockIsKept == Spec => LockHolds
<1>1. TypeOK /\ DeletesOnce /\ LockInv /\ [Next]_vars
        => [lock /\ user = NoUser /\ user' # NoUser => \E c \in AllCalls : call[c].kind = "login"]_vars
  BY LockStep DEF Locked, LoginPending
<1> QED
  BY <1>1, Inductive, PTL DEF Spec, LockHolds
=============================================================================
