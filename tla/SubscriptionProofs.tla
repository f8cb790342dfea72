------------------------- MODULE SubscriptionProofs -------------------------
(***************************************************************************)
(* Theorems about Subscription, for any number of users, devices, webhook  *)
(* requests, events and faults.                                            *)
(***************************************************************************)
EXTENDS Subscription, TLAPS

-----------------------------------------------------------------------------
(* The log of events. *)

\* Posting an event appends it and leaves it to be answered.
LEMMA PostAppends ==
  ASSUME sent \in Seq(Event), pending \subseteq DOMAIN sent,
         NEW type \in Types, NEW s \in Subscribers, NEW exp \in Nat,
         Post(type, s, exp)
  PROVE  /\ sent' \in Seq(Event)
         /\ pending' \subseteq DOMAIN sent'
         /\ DOMAIN sent' = DOMAIN sent \cup {Len(sent) + 1}
         /\ Len(sent) + 1 \notin DOMAIN sent
         /\ \A i \in DOMAIN sent : sent'[i] = sent[i]
         /\ sent'[Len(sent) + 1].type = type
         /\ sent'[Len(sent) + 1].subscriber = s
         /\ sent'[Len(sent) + 1].exp = exp
<1>0. PICK date \in Dates :
        sent' = Append(sent, [type |-> type, subscriber |-> s, exp |-> exp, date |-> date])
  BY DEF Post
<1> DEFINE ev == [type |-> type, subscriber |-> s, exp |-> exp, date |-> date]
<1>1. ev \in Event
  BY DEF Event
<1>2. sent' = Append(sent, ev) /\ pending' = pending \cup {Len(sent) + 1}
  BY <1>0 DEF Post
<1>3. sent' \in Seq(Event) /\ Len(sent') = Len(sent) + 1
  BY <1>1, <1>2
<1>4. DOMAIN sent' = 1..(Len(sent) + 1) /\ DOMAIN sent = 1..Len(sent) /\ Len(sent) \in Nat
  BY <1>3
<1>5. DOMAIN sent' = DOMAIN sent \cup {Len(sent) + 1} /\ Len(sent) + 1 \notin DOMAIN sent
  BY <1>4
<1>6. \A i \in DOMAIN sent : sent'[i] = sent[i]
  BY <1>1, <1>2, <1>4
<1>7. sent'[Len(sent) + 1] = ev
  BY <1>1, <1>2
<1> QED
  BY <1>2, <1>3, <1>5, <1>6, <1>7

\* A step of Google Play or of a purchase posts one event, of a known kind.
LEMMA StorePosts ==
  ASSUME TypeOK, NEW s \in Subscribers,
         \/ Renew(s) \/ SetAutoRenew(s) \/ Refund(s) \/ Lapse(s)
         \/ \E t \in Subscribers : Transfer(s, t)
         \/ \E c \in Clients : Purchase(c, s)
  PROVE  \E type \in Types, u \in Subscribers, exp \in Nat : Post(type, u, exp)
<1>1. store[s].paid \in Nat /\ store[s].paid + 1 \in Nat /\ now \in Nat /\ now + 1 \in Nat
  BY DEF TypeOK
<1>2. CASE Renew(s)
  BY <1>1, <1>2 DEF Renew, Types, GrantTypes, Grants
<1>3. CASE SetAutoRenew(s)
  BY <1>1, <1>3 DEF SetAutoRenew, Types, GrantTypes, Grants
<1>4. CASE Refund(s)
  BY <1>1, <1>4 DEF Refund, Types
<1>5. ASSUME NEW t \in Subscribers, Transfer(s, t)
      PROVE  Post("TRANSFER", t, store[s].paid)
  BY <1>5 DEF Transfer
<1>6. CASE Lapse(s)
  BY <1>1, <1>6 DEF Lapse, Types
<1>7. ASSUME NEW c \in Clients, Purchase(c, s)
      PROVE  Post("INITIAL_PURCHASE", s, IF Active(s) THEN store[s].paid ELSE now + 1)
  BY <1>7 DEF Purchase
<1> QED
  BY <1>1, <1>2, <1>3, <1>4, <1>5, <1>6, <1>7 DEF Types, GrantTypes, Grants

\* What the steps of the webhook and of the paywall leave alone.
LEMMA WebhookFrame ==
  ASSUME NEW h \in Handlers, Deliver(h) \/ Work(h) \/ RequestFails(h)
  PROVE  UNCHANGED <<storeVars, clientVars>>
BY DEF Deliver, Work, ClaimEvent, ApplyEvent, ForgetAnswer, Answer, RequestFails

LEMMA PaywallFrame ==
  ASSUME NEW c \in Clients,
         \/ Preflight(c) \/ Ask(c) \/ FailClosed(c) \/ FailOpen(c)
         \/ GiveUp(c) \/ Finalize(c) \/ RestartApp(c) \/ DropSnapshot(c)
  PROVE  UNCHANGED <<storeVars, serverVars>>
BY DEF Preflight, Ask, ReadAnswer, AskRevenueCat, SaveAnswer, FailClosed, FailOpen,
       GiveUp, Finalize, SyncFromRc, WriteEntitlement, DropAnswer, NotSynced,
       PollConfirms, PollTimesOut, RestartApp, DropSnapshot

\* Every other step leaves the log alone.
LEMMA LogStep ==
  ASSUME TypeOK, [Next]_vars
  PROVE  \/ sent' = sent
         \/ \E type \in Types, u \in Subscribers, exp \in Nat : Post(type, u, exp)
<1>1. CASE UNCHANGED vars
  BY <1>1 DEF vars, storeVars
<1>2. CASE Tick \/ Crash \/ PurgeClaims \/ \E u \in Users : AnswerExpires(u)
  BY <1>2 DEF Tick, Crash, PurgeClaims, AnswerExpires, storeVars
<1>3. CASE \E s \in Subscribers :
             \/ Renew(s) \/ SetAutoRenew(s) \/ Refund(s) \/ Lapse(s)
             \/ \E t \in Subscribers : Transfer(s, t)
             \/ \E c \in Clients : Purchase(c, s)
  BY <1>3, StorePosts
<1>4. CASE \E h \in Handlers : Deliver(h) \/ Work(h) \/ RequestFails(h)
  BY <1>4, WebhookFrame DEF storeVars
<1>5. CASE \E c \in Clients : \/ Preflight(c) \/ Ask(c) \/ FailClosed(c) \/ FailOpen(c)
                              \/ GiveUp(c) \/ Finalize(c) \/ RestartApp(c) \/ DropSnapshot(c)
  BY <1>5, PaywallFrame DEF storeVars
<1> QED
  BY <1>1, <1>2, <1>3, <1>4, <1>5 DEF Next, StoreStep

\* The log only grows, and what was granted stays granted.
LEMMA LogGrows ==
  ASSUME TypeOK, [Next]_vars
  PROVE  /\ sent' \in Seq(Event)
         /\ DOMAIN sent \subseteq DOMAIN sent'
         /\ \A i \in DOMAIN sent : sent'[i] = sent[i]
<1>1. CASE sent' = sent
  BY <1>1 DEF TypeOK
<1>2. ASSUME NEW type \in Types, NEW u \in Subscribers, NEW exp \in Nat, Post(type, u, exp)
      PROVE  /\ sent' \in Seq(Event)
             /\ DOMAIN sent \subseteq DOMAIN sent'
             /\ \A i \in DOMAIN sent : sent'[i] = sent[i]
  BY <1>2, PostAppends DEF TypeOK
<1> QED
  BY <1>1, <1>2, LogStep

\* Granted and DateMissing, of a log that is named.
GrantedBy(log, u, t) ==
  \E i \in DOMAIN log : /\ log[i].subscriber = u
                        /\ log[i].type \in GrantTypes
                        /\ log[i].exp = t

UndatedIn(log, u) == \E i \in DOMAIN log : /\ log[i].subscriber = u
                                          /\ log[i].date # "given"

LEMMA GrantsStay ==
  ASSUME TypeOK, [Next]_vars, NEW u, NEW t, GrantedBy(sent, u, t)
  PROVE  GrantedBy(sent', u, t)
BY LogGrows DEF GrantedBy

\* What an event did not say stays unsaid, and a transfer stays in the log.
LEMMA UndatedStays ==
  ASSUME TypeOK, [Next]_vars, NEW u, UndatedIn(sent, u)
  PROVE  UndatedIn(sent', u)
BY LogGrows DEF UndatedIn

LEMMA RestoredStays ==
  ASSUME TypeOK, [Next]_vars, NEW u, Restored(u)
  PROVE  Restored(u)'
BY LogGrows DEF Restored

-----------------------------------------------------------------------------
(* Types. *)

\* The row an event makes is a row.
LEMMA EffectType ==
  ASSUME TypeOK, NEW r \in [tier : {"free", "premium"}, exp : Nat], NEW ev \in Event
  PROVE  EffectOn(r, ev) \in [tier : {"free", "premium"}, exp : Nat]
<1>1. ev.exp \in Nat /\ now \in Nat /\ Year \in Nat
  BY ModesAssumption DEF Event, TypeOK
<1>2. ParseExpiration(ev) \in Nat
  BY <1>1 DEF ParseExpiration
<1> QED
  BY <1>2 DEF EffectOn, CancelEffect, TransferEffect

\* The subscriptions of the store, and the log, keep their types.
LEMMA StoreType ==
  ASSUME TypeOK, NEW s \in Subscribers,
         \/ Renew(s) \/ SetAutoRenew(s) \/ Refund(s) \/ Lapse(s)
         \/ \E t \in Subscribers : Transfer(s, t)
         \/ \E c \in Clients : Purchase(c, s)
  PROVE  /\ store' \in [Subscribers -> [paid : Nat, auto : BOOLEAN, live : BOOLEAN]]
         /\ sent' \in Seq(Event) /\ pending' \subseteq DOMAIN sent'
         /\ DOMAIN sent \subseteq DOMAIN sent'
         /\ UNCHANGED <<now, hand, processed, applied, row, cache>>
<1>1. store[s] \in [paid : Nat, auto : BOOLEAN, live : BOOLEAN] /\ now \in Nat
  BY DEF TypeOK
<1>2. PICK type \in Types, u \in Subscribers, exp \in Nat : Post(type, u, exp)
  BY StorePosts
<1>3. /\ sent' \in Seq(Event) /\ pending' \subseteq DOMAIN sent'
      /\ DOMAIN sent \subseteq DOMAIN sent'
  BY <1>2, PostAppends DEF TypeOK
<1>4. UNCHANGED <<now, hand, processed, applied>>
  BY <1>2 DEF Post
<1>5. store' \in [Subscribers -> [paid : Nat, auto : BOOLEAN, live : BOOLEAN]]
  <2> DEFINE Subscriptions == [paid : Nat, auto : BOOLEAN, live : BOOLEAN]
  <2>0. Ended \in Subscriptions
    BY DEF Ended
  <2>1. CASE Renew(s)
    <3>1. [store[s] EXCEPT !.paid = @ + 1] \in Subscriptions
      BY <1>1
    <3>2. store' = [store EXCEPT ![s] = [store[s] EXCEPT !.paid = @ + 1]]
      BY <2>1 DEF Renew, TypeOK
    <3> QED
      BY <3>1, <3>2 DEF TypeOK
  <2>2. CASE SetAutoRenew(s)
    BY <1>1, <2>2 DEF SetAutoRenew, TypeOK
  <2>3. CASE Refund(s) \/ Lapse(s)
    BY <2>0, <2>3 DEF Refund, Lapse, TypeOK
  <2>4. ASSUME NEW t \in Subscribers, Transfer(s, t)
        PROVE  store' \in [Subscribers -> [paid : Nat, auto : BOOLEAN, live : BOOLEAN]]
    BY <1>1, <2>4 DEF Transfer, Ended, TypeOK
  <2>5. ASSUME NEW c \in Clients, Purchase(c, s)
        PROVE  store' \in [Subscribers -> [paid : Nat, auto : BOOLEAN, live : BOOLEAN]]
    BY <1>1, <2>5 DEF Purchase, TypeOK
  <2> QED
    BY <2>1, <2>2, <2>3, <2>4, <2>5
<1>6. UNCHANGED <<row, cache>>
  BY DEF Renew, SetAutoRenew, Refund, Lapse, Transfer, Purchase, Outside
<1> QED
  BY <1>3, <1>4, <1>5, <1>6

\* The states of a paywall.
Paywalls ==
  [pc : {"closed", "cache", "revenuecat", "save", "buy",
         "sync", "resync", "write", "drop", "poll"}, exp : Nat]

LEMMA PaywallMoves ==
  ASSUME client \in [Clients -> Paywalls], NEW c \in Clients,
         \/ Close(c)
         \/ \E pc \in {"cache", "revenuecat", "buy", "sync", "poll", "resync"} : Go(c, pc)
  PROVE  client' \in [Clients -> Paywalls]
<1>1. Closed \in Paywalls
  BY DEF Closed, Paywalls
<1>2. CASE Close(c)
  BY <1>1, <1>2 DEF Close
<1>3. ASSUME NEW pc \in {"cache", "revenuecat", "buy", "sync", "poll", "resync"}, Go(c, pc)
      PROVE  client' \in [Clients -> Paywalls]
  <2>1. [client[c] EXCEPT !.pc = pc] \in Paywalls
    BY DEF Paywalls
  <2>2. client' = [client EXCEPT ![c] = [client[c] EXCEPT !.pc = pc]]
    BY <1>3 DEF Go
  <2> QED
    BY <2>1, <2>2
<1> QED
  BY <1>2, <1>3

LEMMA StoreClientType ==
  ASSUME TypeOK, SubscribersAssumption, NEW s \in Subscribers,
         \/ Renew(s) \/ SetAutoRenew(s) \/ Refund(s) \/ Lapse(s)
         \/ \E t \in Subscribers : Transfer(s, t)
         \/ \E c \in Clients : Purchase(c, s)
  PROVE  /\ client' \in [Clients -> Paywalls]
         /\ snapshot' \subseteq Clients
         /\ faults' \in Nat
<1>1. store[s].paid \in Nat /\ now + 1 \in Nat
  BY DEF TypeOK
<1>2. CASE Renew(s) \/ SetAutoRenew(s) \/ Refund(s) \/ Lapse(s)
  BY <1>2 DEF TypeOK, Paywalls, Renew, SetAutoRenew, Refund, Lapse, Outside, clientVars
<1>3. ASSUME NEW t \in Subscribers, Transfer(s, t)
      PROVE  snapshot' \subseteq Clients /\ UNCHANGED <<client, faults>>
  BY <1>1, <1>3 DEF Transfer, TypeOK
<1>4. ASSUME NEW c \in Clients, Purchase(c, s)
      PROVE  /\ client' \in [Clients -> Paywalls]
             /\ snapshot' \subseteq Clients
             /\ faults' \in Nat
  BY <1>1, <1>4, PaywallMoves DEF Purchase, Fault, TypeOK, Paywalls
<1> QED
  BY <1>2, <1>3, <1>4 DEF TypeOK, Paywalls

\* A request of the webhook keeps the types.
LEMMA WebhookType ==
  ASSUME TypeOK, NEW h \in Handlers, Deliver(h) \/ Work(h) \/ RequestFails(h)
  PROVE  TypeOK'
<1>1. UNCHANGED <<storeVars, clientVars>>
  BY WebhookFrame
<1>2. hand[h].pc # "idle" => hand[h].ev \in DOMAIN sent /\ sent[hand[h].ev] \in Event
  BY DEF TypeOK
<1>3. CASE Deliver(h)
  BY <1>3 DEF TypeOK, Deliver, storeVars, clientVars
<1>4. CASE ClaimEvent(h)
  <2>1. hand[h].pc = "claim" /\ hand[h].ev \in DOMAIN sent
    BY <1>2, <1>4 DEF ClaimEvent
  <2>2. processed' \subseteq DOMAIN sent
    BY <1>4, <2>1 DEF ClaimEvent, TypeOK
  <2>3. PICK pc \in {"answer", "apply"} : hand' = [hand EXCEPT ![h].pc = pc]
    BY <1>4 DEF ClaimEvent, Step
  <2>4. UNCHANGED <<now, store, sent, pending, applied, row, cache, client,
                    snapshot, faults>>
    BY <1>4 DEF ClaimEvent, storeVars, clientVars
  <2> QED
    BY <2>1, <2>2, <2>3, <2>4 DEF TypeOK
<1>5. CASE ApplyEvent(h)
  <2> DEFINE ev == sent[hand[h].ev]
             u  == ev.subscriber
  <2>1. hand[h].ev \in DOMAIN sent /\ ev \in Event /\ hand[h].pc # "idle"
    BY <1>2, <1>5 DEF ApplyEvent
  <2>2. row' \in [Users -> [tier : {"free", "premium"}, exp : Nat]]
    <3>1. CASE u \in Users
      <4>1. EffectOn(row[u], ev) \in [tier : {"free", "premium"}, exp : Nat]
        BY <2>1, <3>1, EffectType DEF TypeOK
      <4>2. row' = [row EXCEPT ![u] = EffectOn(row[u], ev)]
        BY <1>5, <3>1 DEF ApplyEvent
      <4> QED
        BY <3>1, <4>1, <4>2 DEF TypeOK
    <3>2. CASE u \notin Users
      BY <1>5, <3>2 DEF ApplyEvent, TypeOK
    <3> QED
      BY <3>1, <3>2
  <2>3. applied' \subseteq DOMAIN sent
    BY <1>5, <2>1 DEF ApplyEvent, TypeOK
  <2>4. /\ hand' \in [Handlers -> [pc : {"idle", "claim", "apply", "forget", "answer"},
                                   ev : Nat]]
        /\ \A k \in Handlers : IF hand'[k].pc = "idle" THEN hand'[k].ev = 0
                                                       ELSE hand'[k].ev \in DOMAIN sent
    <3>1. PICK pc \in {"forget", "answer"} : Step(h, pc)
      BY <1>5 DEF ApplyEvent
    <3>2. hand[h].pc \in {"idle", "claim", "apply", "forget", "answer"} /\ hand[h].ev \in Nat
      BY DEF TypeOK
    <3>3. hand' = [hand EXCEPT ![h] = [hand[h] EXCEPT !.pc = pc]]
      BY <3>1 DEF Step
    <3>4. [hand[h] EXCEPT !.pc = pc] = [pc |-> pc, ev |-> hand[h].ev]
      BY DEF TypeOK
    <3> QED
      BY <2>1, <3>2, <3>3, <3>4 DEF TypeOK
  <2>5. UNCHANGED <<storeVars, pending, processed, cache, clientVars, faults>>
    BY <1>5 DEF ApplyEvent
  <2> QED
    BY <2>1, <2>2, <2>3, <2>4, <2>5 DEF TypeOK, storeVars, clientVars
<1>6. CASE ForgetAnswer(h)
  BY <1>2, <1>6 DEF TypeOK, ForgetAnswer, Step, storeVars, clientVars
<1>7. CASE Answer(h)
  BY <1>7 DEF TypeOK, Answer, Leave, Idle, storeVars, clientVars
<1>8. CASE RequestFails(h)
  BY <1>8 DEF TypeOK, RequestFails, Leave, Idle, Fault, storeVars, clientVars
<1> QED
  BY <1>3, <1>4, <1>5, <1>6, <1>7, <1>8 DEF Work

\* So does the paywall of a device.
LEMMA PaywallType ==
  ASSUME TypeOK, SubscribersAssumption, NEW c \in Clients,
         \/ Preflight(c) \/ Ask(c) \/ FailClosed(c) \/ FailOpen(c)
         \/ GiveUp(c) \/ Finalize(c) \/ RestartApp(c) \/ DropSnapshot(c)
  PROVE  TypeOK'
<1>1. UNCHANGED <<storeVars, serverVars>>
  BY PaywallFrame
<1>2. Owner[c] \in Users /\ store[Owner[c]].paid \in Nat
  BY DEF TypeOK, SubscribersAssumption, Subscribers
<1> DEFINE Moved == /\ client' \in [Clients -> Paywalls]
                    /\ snapshot' \subseteq Clients
                    /\ faults' \in Nat
<1>0. client \in [Clients -> Paywalls] /\ snapshot \subseteq Clients /\ faults \in Nat
  BY DEF TypeOK, Paywalls
<1>3. CASE Preflight(c) \/ FailClosed(c) \/ FailOpen(c) \/ GiveUp(c) \/ RestartApp(c)
           \/ DropSnapshot(c)
  <2>1. Moved
    BY <1>0, <1>3, PaywallMoves
    DEF Preflight, FailClosed, FailOpen, GiveUp, RestartApp, DropSnapshot, Fault
  <2>2. UNCHANGED <<row, cache>>
    BY <1>3 DEF Preflight, FailClosed, FailOpen, GiveUp, RestartApp, DropSnapshot
  <2> QED
    BY <1>1, <2>1, <2>2 DEF TypeOK, Paywalls, storeVars, serverVars
<1>4. CASE ReadAnswer(c)
  <2>1. Moved
    BY <1>0, <1>4, PaywallMoves DEF ReadAnswer, Decide
  <2>2. UNCHANGED <<row, cache>>
    BY <1>4 DEF ReadAnswer
  <2> QED
    BY <1>1, <2>1, <2>2 DEF TypeOK, Paywalls, storeVars, serverVars
<1>5. CASE AskRevenueCat(c)
  BY <1>1, <1>5 DEF TypeOK, AskRevenueCat, storeVars, serverVars
<1>6. CASE SaveAnswer(c)
  <2>1. Moved
    BY <1>0, <1>6, PaywallMoves DEF SaveAnswer, Decide
  <2>2. cache' \in [Users -> {"none", "active", "inactive"}] /\ UNCHANGED row
    BY <1>2, <1>6 DEF SaveAnswer, TypeOK
  <2> QED
    BY <1>1, <2>1, <2>2 DEF TypeOK, Paywalls, storeVars, serverVars
<1>7. CASE SyncFromRc(c)
  <2>1. PICK exp \in {store[Owner[c]].paid, 0} :
          client' = [client EXCEPT ![c] = [pc |-> "write", exp |-> exp]]
    BY <1>7 DEF SyncFromRc
  <2> QED
    BY <1>1, <1>2, <1>7, <2>1 DEF TypeOK, SyncFromRc, storeVars, serverVars
<1>8. CASE WriteEntitlement(c)
  <2>1. now + Year \in Nat /\ client[c].exp \in Nat
    BY ModesAssumption DEF TypeOK
  <2> QED
    BY <1>1, <1>2, <1>8, <2>1 DEF TypeOK, WriteEntitlement, storeVars, serverVars
<1>9. CASE DropAnswer(c)
  BY <1>1, <1>2, <1>9 DEF TypeOK, DropAnswer, Close, Closed, storeVars, serverVars
<1>10. CASE NotSynced(c) \/ PollConfirms(c) \/ PollTimesOut(c)
  <2>1. Moved
    BY <1>0, <1>10, PaywallMoves DEF NotSynced, PollConfirms, PollTimesOut, Fault
  <2>2. UNCHANGED <<row, cache>>
    BY <1>10 DEF NotSynced, PollConfirms, PollTimesOut
  <2> QED
    BY <1>1, <2>1, <2>2 DEF TypeOK, Paywalls, storeVars, serverVars
<1> QED
  BY <1>3, <1>4, <1>5, <1>6, <1>7, <1>8, <1>9, <1>10 DEF Ask, Finalize

\* Every variable keeps its type.
LEMMA TypeStep ==
  ASSUME TypeOK, SubscribersAssumption, [Next]_vars
  PROVE  TypeOK'
<1>1. CASE UNCHANGED vars
  BY <1>1 DEF TypeOK, vars, storeVars, serverVars, clientVars
<1>2. CASE Tick
  BY <1>2 DEF TypeOK, Tick, serverVars, clientVars
<1>3. CASE Crash
  BY <1>3 DEF TypeOK, Crash, Fault, Idle, storeVars, clientVars
<1>4. CASE PurgeClaims
  BY <1>4 DEF TypeOK, PurgeClaims, storeVars, clientVars
<1>5. CASE \E u \in Users : AnswerExpires(u)
  BY <1>5 DEF TypeOK, AnswerExpires, storeVars, serverVars, clientVars
<1>6. ASSUME NEW s \in Subscribers,
             \/ Renew(s) \/ SetAutoRenew(s) \/ Refund(s) \/ Lapse(s)
             \/ \E t \in Subscribers : Transfer(s, t)
             \/ \E c \in Clients : Purchase(c, s)
      PROVE  TypeOK'
  <2>1. \A h \in Handlers : IF hand[h].pc = "idle" THEN hand[h].ev = 0
                                                   ELSE hand[h].ev \in DOMAIN sent
    BY DEF TypeOK
  <2>2. /\ store' \in [Subscribers -> [paid : Nat, auto : BOOLEAN, live : BOOLEAN]]
        /\ sent' \in Seq(Event) /\ pending' \subseteq DOMAIN sent'
        /\ DOMAIN sent \subseteq DOMAIN sent'
        /\ UNCHANGED <<now, hand, processed, applied, row, cache>>
    BY <1>6, StoreType
  <2>3. /\ client' \in [Clients -> Paywalls]
        /\ snapshot' \subseteq Clients
        /\ faults' \in Nat
    BY <1>6, StoreClientType
  <2> QED
    BY <2>1, <2>2, <2>3 DEF TypeOK, Paywalls
<1>7. CASE \E h \in Handlers : Deliver(h) \/ Work(h) \/ RequestFails(h)
  BY <1>7, WebhookType
<1>8. CASE \E c \in Clients : \/ Preflight(c) \/ Ask(c) \/ FailClosed(c) \/ FailOpen(c)
                              \/ GiveUp(c) \/ Finalize(c) \/ RestartApp(c) \/ DropSnapshot(c)
  BY <1>8, PaywallType
<1> QED
  BY <1>1, <1>2, <1>3, <1>4, <1>5, <1>6, <1>7, <1>8 DEF Next, StoreStep

-----------------------------------------------------------------------------
(* The deduplication table. *)

\* What a step of the webhook does to a request: it takes an event, moves the
\* request it holds one statement on, or lets it go.
LEMMA ClaimStepWebhook ==
  ASSUME TypeOK, ClaimInv, NEW h \in Handlers, Deliver(h) \/ Work(h) \/ RequestFails(h)
  PROVE  ClaimInv'
<1>1. \A k \in Handlers : hand'[k] = hand[k] \/ k = h
  BY DEF TypeOK, Deliver, Work, ClaimEvent, ApplyEvent, ForgetAnswer, Answer,
         RequestFails, Step, Leave
<1>2. \A k \in Handlers : hand[k].pc # "idle" => hand[k].ev \in Nat \ {0}
  BY DEF TypeOK
<1>3. CASE Deliver(h)
  <2>1. PICK e \in pending : hand' = [hand EXCEPT ![h] = [pc |-> "claim", ev |-> e]]
    BY <1>3 DEF Deliver
  <2>2. UNCHANGED <<pending, processed, applied>>
    BY <1>3 DEF Deliver
  <2> QED
    BY <2>1, <2>2 DEF ClaimInv, Held, TypeOK
<1>4. CASE ClaimEvent(h)
  <2>1. /\ hand[h].pc = "claim"
        /\ hand' = [hand EXCEPT ![h].pc = IF Held(h) \in processed THEN "answer" ELSE "apply"]
        /\ processed' = processed \cup {Held(h)}
        /\ UNCHANGED <<pending, applied>>
    BY <1>4 DEF ClaimEvent, Step, Held
  <2>2. /\ Held(h)' = Held(h) /\ hand'[h].pc \in {"answer", "apply"}
        /\ hand'[h].pc = "apply" => Held(h) \notin processed
    BY <2>1 DEF TypeOK, Held
  <2>3. \A k \in Handlers : Held(k)' = Held(k)
    BY <1>1, <2>2 DEF Held
  <2>4. Held(h) \in applied => Held(h) \in processed
    BY DEF ClaimInv
  <2> QED
    BY <1>1, <2>1, <2>2, <2>3, <2>4 DEF ClaimInv
<1>5. CASE ApplyEvent(h)
  <2>1. /\ hand[h].pc = "apply"
        /\ hand' = [hand EXCEPT ![h].pc = "forget"] \/ hand' = [hand EXCEPT ![h].pc = "answer"]
        /\ applied' \subseteq applied \cup {Held(h)}
        /\ UNCHANGED <<pending, processed>>
    BY <1>5 DEF ApplyEvent, Step, Held
  <2>2. Held(h)' = Held(h) /\ hand'[h].pc \in {"forget", "answer"}
    BY <2>1 DEF TypeOK, Held
  <2>3. \A k \in Handlers : Held(k)' = Held(k)
    BY <1>1, <2>2 DEF Held
  <2>4. Held(h) \in processed
    BY <2>1 DEF ClaimInv
  <2> QED
    BY <1>1, <2>1, <2>2, <2>3, <2>4 DEF ClaimInv
<1>6. CASE ForgetAnswer(h)
  <2>1. /\ hand[h].pc = "forget" /\ hand' = [hand EXCEPT ![h].pc = "answer"]
        /\ UNCHANGED <<pending, processed, applied>>
    BY <1>6 DEF ForgetAnswer, Step
  <2>2. \A k \in Handlers : Held(k)' = Held(k)
    BY <2>1 DEF TypeOK, Held
  <2>3. hand'[h].pc = "answer"
    BY <2>1 DEF TypeOK
  <2> QED
    BY <1>1, <2>1, <2>2, <2>3 DEF ClaimInv
<1>7. CASE Answer(h) \/ RequestFails(h)
  <2>1. /\ hand' = [hand EXCEPT ![h] = Idle]
        /\ pending' \subseteq pending /\ UNCHANGED <<processed, applied>>
    BY <1>7 DEF Answer, RequestFails, Leave
  <2>2. Held(h)' = 0 /\ hand'[h].pc = "idle"
    BY <2>1 DEF TypeOK, Held, Idle
  <2>3. 0 \notin applied
    BY DEF TypeOK
  <2> QED
    BY <1>1, <2>1, <2>2, <2>3 DEF ClaimInv, Held
<1> QED
  BY <1>3, <1>4, <1>5, <1>6, <1>7 DEF Work

\* Claims are made before effects, and kept while they may be needed.
LEMMA ClaimStep ==
  ASSUME TypeOK, ClaimInv, [Next]_vars
  PROVE  ClaimInv'
<1>1. CASE UNCHANGED serverVars
  BY <1>1 DEF ClaimInv, Held, serverVars
<1>2. ASSUME NEW s \in Subscribers,
             \/ Renew(s) \/ SetAutoRenew(s) \/ Refund(s) \/ Lapse(s)
             \/ \E t \in Subscribers : Transfer(s, t)
             \/ \E c \in Clients : Purchase(c, s)
      PROVE  ClaimInv'
  <2>1. PICK type \in Types, u \in Subscribers, exp \in Nat : Post(type, u, exp)
    BY <1>2, StorePosts
  <2>2. Len(sent) + 1 \notin DOMAIN sent
    BY <2>1, PostAppends DEF TypeOK
  <2>3. pending' = pending \cup {Len(sent) + 1} /\ UNCHANGED <<hand, processed, applied>>
    BY <2>1 DEF Post
  <2> QED
    BY <2>2, <2>3 DEF ClaimInv, Held, TypeOK
<1>3. CASE Crash
  <2>1. /\ \A k \in Handlers : hand'[k] = Idle
        /\ UNCHANGED <<pending, processed, applied>>
    BY <1>3 DEF Crash
  <2>2. 0 \notin applied
    BY DEF TypeOK
  <2> QED
    BY <2>1, <2>2 DEF ClaimInv, Held, Idle
<1>4. CASE PurgeClaims
  <2>1. UNCHANGED <<pending, hand, applied>>
    BY <1>4 DEF PurgeClaims
  <2>2. \A e \in processed : e \in pending \/ (\E k \in Handlers : Held(k) = e)
          => e \in processed'
    BY <1>4 DEF PurgeClaims, Held
  <2> QED
    BY <2>1, <2>2 DEF ClaimInv, Held
<1>5. CASE \E h \in Handlers : Deliver(h) \/ Work(h) \/ RequestFails(h)
  BY <1>5, ClaimStepWebhook
<1>6. CASE \E c \in Clients : \/ Preflight(c) \/ Ask(c) \/ FailClosed(c) \/ FailOpen(c)
                              \/ GiveUp(c) \/ Finalize(c) \/ RestartApp(c) \/ DropSnapshot(c)
  BY <1>1, <1>6, PaywallFrame
<1>7. CASE Tick \/ (\E u \in Users : AnswerExpires(u)) \/ UNCHANGED vars
  BY <1>1, <1>7 DEF Tick, AnswerExpires, vars
<1> QED
  BY <1>2, <1>3, <1>4, <1>5, <1>6, <1>7 DEF Next, StoreStep

-----------------------------------------------------------------------------
(* What was paid for. *)

\* A posted grant grants.
LEMMA PostGrants ==
  ASSUME TypeOK, NEW type \in GrantTypes, NEW s \in Subscribers, NEW exp \in Nat,
         Post(type, s, exp)
  PROVE  GrantedBy(sent', s, exp)
<1>1. type \in Types
  BY DEF Types
<1>2. /\ Len(sent) + 1 \in DOMAIN sent'
      /\ sent'[Len(sent) + 1].type = type
      /\ sent'[Len(sent) + 1].subscriber = s
      /\ sent'[Len(sent) + 1].exp = exp
  BY <1>1, PostAppends DEF TypeOK
<1> QED
  BY <1>2 DEF GrantedBy

\* The parts of PaidInv: the running subscriptions, the cancellations in the
\* log, and the answers of RevenueCat that are being written.
StorePaid(subs, log) ==
  \A s \in Subscribers : subs[s].live => GrantedBy(log, s, subs[s].paid)
CancelPaid(log, t) ==
  \A i \in DOMAIN log : log[i].type = "CANCELLATION"
    => log[i].exp <= t \/ GrantedBy(log, log[i].subscriber, log[i].exp)
WritePaid(apps, log) ==
  \A c \in Clients : apps[c].pc = "write" =>
    \/ apps[c].exp > 0 /\ GrantedBy(log, Owner[c], apps[c].exp)
    \/ apps[c].exp = 0 /\ UndatedIn(log, Owner[c])

LEMMA PaidParts ==
  PaidInv <=> StorePaid(store, sent) /\ CancelPaid(sent, now) /\ WritePaid(client, sent)
BY DEF PaidInv, StorePaid, CancelPaid, WritePaid, Granted, GrantedBy, DateMissing, UndatedIn

LEMMA PaidPartsNext ==
  PaidInv' <=> StorePaid(store', sent') /\ CancelPaid(sent', now') /\ WritePaid(client', sent')
BY DEF PaidInv, StorePaid, CancelPaid, WritePaid, Granted, GrantedBy, DateMissing, UndatedIn

\* A cancellation is posted with a date that is over or was granted.
LEMMA CancelStep ==
  ASSUME TypeOK, [Next]_vars, CancelPaid(sent, now),
         NEW type \in Types, NEW s \in Subscribers, NEW exp \in Nat, Post(type, s, exp),
         type = "CANCELLATION" => exp <= now \/ GrantedBy(sent, s, exp)
  PROVE  CancelPaid(sent', now)
<1>0. sent \in Seq(Event) /\ pending \subseteq DOMAIN sent
  BY DEF TypeOK
<1>1. /\ DOMAIN sent' = DOMAIN sent \cup {Len(sent) + 1}
      /\ \A i \in DOMAIN sent : sent'[i] = sent[i]
      /\ sent'[Len(sent) + 1].type = type
      /\ sent'[Len(sent) + 1].subscriber = s
      /\ sent'[Len(sent) + 1].exp = exp
  BY <1>0, PostAppends
<1>2. ASSUME NEW i \in DOMAIN sent, sent'[i].type = "CANCELLATION"
      PROVE  sent'[i].exp <= now \/ GrantedBy(sent', sent'[i].subscriber, sent'[i].exp)
  <2>1. sent'[i] = sent[i]
    BY <1>1
  <2>2. sent[i].exp <= now \/ GrantedBy(sent, sent[i].subscriber, sent[i].exp)
    BY <1>2, <2>1 DEF CancelPaid
  <2> QED
    BY <2>1, <2>2, GrantsStay
<1>3. ASSUME NEW i, i = Len(sent) + 1, sent'[i].type = "CANCELLATION"
      PROVE  sent'[i].exp <= now \/ GrantedBy(sent', sent'[i].subscriber, sent'[i].exp)
  <2>1. sent'[i].type = type /\ sent'[i].subscriber = s /\ sent'[i].exp = exp
    BY <1>1, <1>3
  <2> QED
    BY <1>3, <2>1, GrantsStay
<1> QED
  BY <1>1, <1>2, <1>3 DEF CancelPaid

\* Subscriptions that a step leaves alone stay paid.
LEMMA PaidStays ==
  ASSUME TypeOK, [Next]_vars, StorePaid(store, sent), NEW u \in Subscribers, store[u].live
  PROVE  GrantedBy(sent', u, store[u].paid)
BY GrantsStay DEF StorePaid

\* What a purchase, or a change outside the app, does to the subscriptions.
LEMMA StorePaidStep ==
  ASSUME TypeOK, [Next]_vars, StorePaid(store, sent), CancelPaid(sent, now),
         NEW s \in Subscribers,
         \/ Renew(s) \/ SetAutoRenew(s) \/ Refund(s) \/ Lapse(s)
         \/ \E t \in Subscribers : Transfer(s, t)
         \/ \E c \in Clients : Purchase(c, s)
  PROVE  StorePaid(store', sent') /\ CancelPaid(sent', now)
<1>1. /\ store \in [Subscribers -> [paid : Nat, auto : BOOLEAN, live : BOOLEAN]]
      /\ store[s].paid \in Nat /\ store[s].paid + 1 \in Nat /\ now \in Nat /\ now + 1 \in Nat
  BY DEF TypeOK
<1>2. \A u \in Subscribers : store[u].live => GrantedBy(sent', u, store[u].paid)
  BY PaidStays
<1>3. CASE Renew(s)
  <2>1. Post("RENEWAL", s, store[s].paid + 1)
    BY <1>3 DEF Renew
  <2>2. GrantedBy(sent', s, store[s].paid + 1)
    BY <1>1, <2>1, PostGrants DEF GrantTypes, Grants
  <2>3. CancelPaid(sent', now)
    BY <1>1, <2>1, CancelStep DEF Types, GrantTypes, Grants
  <2>4. store' = [store EXCEPT ![s].paid = @ + 1]
    BY <1>3 DEF Renew
  <2> QED
    BY <1>1, <1>2, <2>2, <2>3, <2>4 DEF StorePaid
<1>4. CASE SetAutoRenew(s)
  <2>1. Post(IF store[s].auto THEN "CANCELLATION" ELSE "UNCANCELLATION", s, store[s].paid)
    BY <1>4 DEF SetAutoRenew
  <2>2. GrantedBy(sent, s, store[s].paid)
    BY <1>4 DEF SetAutoRenew, Active, StorePaid
  <2>3. CancelPaid(sent', now)
    BY <1>1, <2>1, <2>2, CancelStep DEF Types, GrantTypes, Grants
  <2>4. store' = [store EXCEPT ![s].auto = ~@]
    BY <1>4 DEF SetAutoRenew
  <2> QED
    BY <1>1, <1>2, <2>3, <2>4 DEF StorePaid
<1>5. CASE Refund(s) \/ Lapse(s)
  <2>1. Post("CANCELLATION", s, now) \/ Post("EXPIRATION", s, store[s].paid)
    BY <1>5 DEF Refund, Lapse
  <2>2. CancelPaid(sent', now)
    BY <1>1, <2>1, CancelStep DEF Types
  <2>3. store' = [store EXCEPT ![s] = Ended]
    BY <1>5 DEF Refund, Lapse
  <2> QED
    BY <1>1, <1>2, <2>2, <2>3 DEF StorePaid, Ended
<1>6. ASSUME NEW t \in Subscribers, Transfer(s, t)
      PROVE  StorePaid(store', sent') /\ CancelPaid(sent', now)
  <2>1. Post("TRANSFER", t, store[s].paid)
    BY <1>6 DEF Transfer
  <2>2. GrantedBy(sent', t, store[s].paid)
    BY <1>1, <2>1, PostGrants DEF GrantTypes
  <2>3. CancelPaid(sent', now)
    BY <1>1, <2>1, CancelStep DEF Types, GrantTypes
  <2>4. store' = [store EXCEPT ![t] = store[s], ![s] = Ended] /\ s # t
    BY <1>6 DEF Transfer
  <2> QED
    BY <1>1, <1>2, <2>2, <2>3, <2>4 DEF StorePaid, Ended
<1>7. ASSUME NEW c \in Clients, Purchase(c, s)
      PROVE  StorePaid(store', sent') /\ CancelPaid(sent', now)
  <2> DEFINE until == IF Active(s) THEN store[s].paid ELSE now + 1
  <2>0. until \in Nat
    BY <1>1
  <2>1. Post("INITIAL_PURCHASE", s, until)
    BY <1>7 DEF Purchase
  <2>2. GrantedBy(sent', s, until)
    BY <2>0, <2>1, PostGrants DEF GrantTypes, Grants
  <2>3. CancelPaid(sent', now)
    BY <2>0, <2>1, CancelStep DEF Types, GrantTypes, Grants
  <2>4. store' = [store EXCEPT ![s] = [paid |-> until, auto |-> TRUE, live |-> TRUE]]
    BY <1>7 DEF Purchase
  <2> QED
    BY <1>1, <1>2, <2>2, <2>3, <2>4 DEF StorePaid
<1> QED
  BY <1>3, <1>4, <1>5, <1>6, <1>7

\* A paywall comes to "write" by asking RevenueCat.
LEMMA WriteBegins ==
  ASSUME TypeOK, [Next]_vars, NEW c \in Clients, client'[c].pc = "write"
  PROVE  client'[c] = client[c] \/ SyncFromRc(c)
<1>1. CASE UNCHANGED client
  BY <1>1
<1>2. CASE StoreStep
  BY <1>2 DEF StoreStep, Tick, Renew, SetAutoRenew, Refund, Lapse, Transfer,
       Outside, clientVars
<1>3. ASSUME NEW d \in Clients, NEW s \in Subscribers, Purchase(d, s)
      PROVE  client'[c] = client[c]
  BY <1>3 DEF Purchase, Go, TypeOK
<1>4. ASSUME NEW d \in Clients,
             \/ Preflight(d) \/ Ask(d) \/ FailClosed(d) \/ FailOpen(d)
             \/ GiveUp(d) \/ Finalize(d) \/ RestartApp(d) \/ DropSnapshot(d)
      PROVE  client'[c] = client[c] \/ SyncFromRc(c)
  BY <1>4 DEF TypeOK, Preflight, Ask, ReadAnswer, AskRevenueCat, SaveAnswer, Decide,
       FailClosed, FailOpen, GiveUp, Finalize, SyncFromRc, WriteEntitlement,
       DropAnswer, NotSynced, PollConfirms, PollTimesOut, RestartApp, DropSnapshot, Go, Close, Closed
<1>5. CASE \E h \in Handlers : Deliver(h) \/ Work(h) \/ RequestFails(h)
  BY <1>5, WebhookFrame DEF clientVars
<1> QED
  BY <1>1, <1>2, <1>3, <1>4, <1>5
     DEF Next, StoreStep, Crash, PurgeClaims, AnswerExpires, clientVars, vars, Tick

\* The answer a paywall is about to have written says what was granted.
LEMMA WritePaidStep ==
  ASSUME TypeOK, SubscribersAssumption, [Next]_vars, StorePaid(store, sent),
         WritePaid(client, sent)
  PROVE  WritePaid(client', sent')
<1> SUFFICES ASSUME NEW c \in Clients, client'[c].pc = "write"
             PROVE  \/ client'[c].exp > 0 /\ GrantedBy(sent', Owner[c], client'[c].exp)
                    \/ client'[c].exp = 0 /\ UndatedIn(sent', Owner[c])
  BY DEF WritePaid
<1>1. CASE client'[c] = client[c]
  BY <1>1, GrantsStay, UndatedStays DEF WritePaid
<1>2. CASE SyncFromRc(c)
  <2>1. \/ client'[c].exp = store[Owner[c]].paid
        \/ client'[c].exp = 0 /\ UndatedIn(sent, Owner[c])
    BY <1>2 DEF SyncFromRc, TypeOK, DateMissing, UndatedIn
  <2>2. Owner[c] \in Subscribers /\ store[Owner[c]].live
    BY <1>2 DEF SyncFromRc, Active, SubscribersAssumption, Subscribers
  <2>3. store[Owner[c]].paid > 0
    BY <1>2, <2>2 DEF SyncFromRc, Active, TypeOK
  <2> QED
    BY <2>1, <2>2, <2>3, PaidStays, UndatedStays
<1>3. client'[c] = client[c] \/ SyncFromRc(c)
  BY WriteBegins
<1> QED
  BY <1>1, <1>2, <1>3

\* Every step keeps PaidInv.
LEMMA PaidStep ==
  ASSUME TypeOK, SubscribersAssumption, [Next]_vars, PaidInv
  PROVE  PaidInv'
<1>1. StorePaid(store, sent) /\ CancelPaid(sent, now) /\ WritePaid(client, sent)
  BY PaidParts
<1>2. WritePaid(client', sent')
  BY <1>1, WritePaidStep
<1>3. StorePaid(store', sent') /\ CancelPaid(sent', now')
  <2>1. CASE UNCHANGED storeVars
    BY <1>1, <2>1 DEF storeVars
  <2>2. CASE Tick
    <3>1. UNCHANGED <<store, sent>> /\ now' = now + 1
      BY <2>2 DEF Tick
    <3>2. \A i \in DOMAIN sent : sent[i].exp \in Nat
      <4>1. \A i \in DOMAIN sent : sent[i] \in Event
        BY DEF TypeOK
      <4> QED
        BY <4>1 DEF Event
    <3>3. CancelPaid(sent, now + 1)
      BY <1>1, <3>2 DEF CancelPaid, TypeOK
    <3> QED
      BY <1>1, <3>1, <3>3
  <2>3. ASSUME NEW s \in Subscribers,
               \/ Renew(s) \/ SetAutoRenew(s) \/ Refund(s) \/ Lapse(s)
               \/ \E t \in Subscribers : Transfer(s, t)
               \/ \E c \in Clients : Purchase(c, s)
        PROVE  StorePaid(store', sent') /\ CancelPaid(sent', now')
    <3>1. now' = now
      BY <2>3, StoreType
    <3> QED
      BY <1>1, <2>3, <3>1, StorePaidStep
  <2>4. CASE \E h \in Handlers : Deliver(h) \/ Work(h) \/ RequestFails(h)
    BY <2>1, <2>4, WebhookFrame
  <2>5. CASE \E c \in Clients : \/ Preflight(c) \/ Ask(c) \/ FailClosed(c) \/ FailOpen(c)
                                \/ GiveUp(c) \/ Finalize(c) \/ RestartApp(c) \/ DropSnapshot(c)
    BY <2>1, <2>5, PaywallFrame
  <2>6. CASE Crash \/ PurgeClaims \/ (\E u \in Users : AnswerExpires(u)) \/ UNCHANGED vars
    BY <2>1, <2>6 DEF Crash, PurgeClaims, AnswerExpires, vars
  <2> QED
    BY <2>2, <2>3, <2>4, <2>5, <2>6 DEF Next, StoreStep
<1> QED
  BY <1>2, <1>3, PaidPartsNext

-----------------------------------------------------------------------------
(* The rows of the users. *)

\* Two steps change a row: the effect of an event and a synchronisation.
LEMMA RowStep ==
  ASSUME [Next]_vars
  PROVE  \/ UNCHANGED <<applied, row>>
         \/ \E h \in Handlers : ApplyEvent(h)
         \/ \E c \in Clients : WriteEntitlement(c)
<1>1. CASE StoreStep
  BY <1>1 DEF StoreStep, Tick, Renew, SetAutoRenew, Refund, Lapse, Transfer, Outside,
       Post, serverVars
<1>2. ASSUME NEW h \in Handlers, Deliver(h) \/ Work(h) \/ RequestFails(h)
      PROVE  UNCHANGED <<applied, row>> \/ ApplyEvent(h)
  BY <1>2 DEF Deliver, Work, ClaimEvent, ForgetAnswer, Answer, RequestFails
<1>3. ASSUME NEW c \in Clients,
             \/ Preflight(c) \/ Ask(c) \/ FailClosed(c) \/ FailOpen(c)
             \/ GiveUp(c) \/ Finalize(c) \/ RestartApp(c) \/ DropSnapshot(c)
      PROVE  UNCHANGED <<applied, row>> \/ WriteEntitlement(c)
  BY <1>3 DEF Preflight, Ask, ReadAnswer, AskRevenueCat, SaveAnswer, FailClosed,
       FailOpen, GiveUp, Finalize, SyncFromRc, DropAnswer, NotSynced, PollConfirms,
       PollTimesOut, RestartApp, DropSnapshot, serverVars
<1>4. ASSUME NEW c \in Clients, NEW s \in Subscribers, Purchase(c, s)
      PROVE  UNCHANGED <<applied, row>>
  BY <1>4 DEF Purchase, Post
<1>5. CASE Crash \/ PurgeClaims \/ (\E u \in Users : AnswerExpires(u)) \/ UNCHANGED vars
  BY <1>5 DEF Crash, PurgeClaims, AnswerExpires, serverVars, vars
<1> QED
  BY <1>1, <1>2, <1>3, <1>4, <1>5 DEF Next

\* What the effect of an event does.
LEMMA EffectStep ==
  ASSUME TypeOK, NEW h \in Handlers, ApplyEvent(h)
  PROVE  /\ Held(h) \in DOMAIN sent /\ sent[Held(h)] \in Event
         /\ UNCHANGED <<sent, now>>
         /\ \/ UNCHANGED <<applied, row>>
            \/ /\ sent[Held(h)].subscriber \in Users
               /\ applied' = applied \cup {Held(h)}
               /\ row' = [row EXCEPT ![sent[Held(h)].subscriber] =
                            EffectOn(row[sent[Held(h)].subscriber], sent[Held(h)])]
<1>1. hand[h].pc # "idle"
  BY DEF ApplyEvent
<1>2. Held(h) \in DOMAIN sent
  BY <1>1 DEF TypeOK, Held
<1>3. sent[Held(h)] \in Event
  BY <1>2 DEF TypeOK
<1>4. UNCHANGED <<sent, now>>
  BY DEF ApplyEvent, storeVars
<1> QED
  BY <1>2, <1>3, <1>4 DEF ApplyEvent, Held

\* What a synchronisation does: the row takes what was granted to its user, or a
\* year when RevenueCat named no end.
LEMMA SynchroniseStep ==
  ASSUME TypeOK, SubscribersAssumption, WritePaid(client, sent), NEW c \in Clients,
         WriteEntitlement(c)
  PROVE  /\ Owner[c] \in Users
         /\ \E exp \in Nat :
              /\ row' = [row EXCEPT ![Owner[c]] = [tier |-> "premium", exp |-> exp]]
              /\ \/ GrantedBy(sent, Owner[c], exp)
                 \/ exp = now + Year /\ UndatedIn(sent, Owner[c])
         /\ UNCHANGED <<now, sent, applied>>
<1>1. Owner[c] \in Users /\ UNCHANGED <<now, sent, applied>>
  BY DEF WriteEntitlement, SubscribersAssumption, storeVars, serverVars
<1> DEFINE exp == IF client[c].exp = 0 THEN now + Year ELSE client[c].exp
<1>2. exp \in Nat
  BY ModesAssumption DEF TypeOK
<1>3. row' = [row EXCEPT ![Owner[c]] = [tier |-> "premium", exp |-> exp]]
  BY DEF WriteEntitlement
<1>4. GrantedBy(sent, Owner[c], exp) \/ (exp = now + Year /\ UndatedIn(sent, Owner[c]))
  <2>1. client[c].pc = "write" /\ client[c].exp \in Nat
    BY DEF WriteEntitlement, TypeOK
  <2>2. CASE client[c].exp > 0 /\ GrantedBy(sent, Owner[c], client[c].exp)
    <3>1. exp = client[c].exp
      BY <2>1, <2>2
    <3> QED
      BY <2>2, <3>1
  <2>3. CASE client[c].exp = 0 /\ UndatedIn(sent, Owner[c])
    BY <2>3
  <2> QED
    BY <2>1, <2>2, <2>3 DEF WritePaid
<1> QED
  BY <1>1, <1>2, <1>3, <1>4

\* Time does not go back.
LEMMA TimeStep ==
  ASSUME TypeOK, [Next]_vars
  PROVE  now' \in {now, now + 1}
<1>1. ASSUME NEW s \in Subscribers,
             \/ Renew(s) \/ SetAutoRenew(s) \/ Refund(s) \/ Lapse(s)
             \/ \E t \in Subscribers : Transfer(s, t)
             \/ \E c \in Clients : Purchase(c, s)
      PROVE  now' = now
  BY <1>1, StoreType
<1>2. CASE \E h \in Handlers : Deliver(h) \/ Work(h) \/ RequestFails(h)
  BY <1>2, WebhookFrame DEF storeVars
<1>3. CASE \E c \in Clients : \/ Preflight(c) \/ Ask(c) \/ FailClosed(c) \/ FailOpen(c)
                              \/ GiveUp(c) \/ Finalize(c) \/ RestartApp(c) \/ DropSnapshot(c)
  BY <1>3, PaywallFrame DEF storeVars
<1>4. CASE Tick \/ Crash \/ PurgeClaims \/ (\E u \in Users : AnswerExpires(u)) \/ UNCHANGED vars
  BY <1>4 DEF Tick, Crash, PurgeClaims, AnswerExpires, vars, storeVars
<1> QED
  BY <1>1, <1>2, <1>3, <1>4 DEF Next, StoreStep

\* What a row may rest on: a period of the log, or a year for want of a date.
Rests(log, u, t, time) ==
  GrantedBy(log, u, t) \/ (UndatedIn(log, u) /\ t <= time + Year)

LEMMA RestsStay ==
  ASSUME TypeOK, [Next]_vars, NEW u, NEW t \in Nat, Rests(sent, u, t, now)
  PROVE  Rests(sent', u, t, now')
<1>1. CASE GrantedBy(sent, u, t)
  BY <1>1, GrantsStay DEF Rests
<1>2. CASE UndatedIn(sent, u) /\ t <= now + Year
  <2>1. UndatedIn(sent', u)
    BY <1>2, UndatedStays
  <2>2. now \in Nat /\ Year \in Nat /\ now' \in {now, now + 1}
    BY TimeStep, ModesAssumption DEF TypeOK
  <2>3. CASE now' = now
    BY <1>2, <2>1, <2>3 DEF Rests
  <2>4. CASE now' = now + 1
    <3>1. t <= now + 1 + Year
      BY <1>2, <2>2
    <3> QED
      BY <2>1, <2>4, <3>1 DEF Rests
  <2> QED
    BY <2>2, <2>3, <2>4
<1> QED
  BY <1>1, <1>2 DEF Rests

\* Premium comes from a grant, from a cancellation of one, or from an event or an
\* answer that named no end.
LEMMA PremiumStep ==
  ASSUME TypeOK, SubscribersAssumption, [Next]_vars, PaidInv, PremiumWasPaid
  PROVE  PremiumWasPaid'
<1> SUFFICES ASSUME NEW u \in Users, row'[u].tier = "premium"
             PROVE  Rests(sent', u, row'[u].exp, now')
  BY DEF PremiumWasPaid, Granted, DateMissing, Rests, GrantedBy, UndatedIn
<1>1. CancelPaid(sent, now) /\ WritePaid(client, sent)
  BY PaidParts
<1>0. now \in Nat /\ Year \in Nat /\ \A v \in Users : row[v].exp \in Nat
  BY ModesAssumption DEF TypeOK
<1>2. CASE row'[u] = row[u]
  <2>1. Rests(sent, u, row[u].exp, now)
    BY <1>2 DEF PremiumWasPaid, Granted, DateMissing, Rests, GrantedBy, UndatedIn
  <2> QED
    BY <1>0, <1>2, <2>1, RestsStay
<1>3. ASSUME NEW h \in Handlers, ApplyEvent(h), row'[u] # row[u]
      PROVE  Rests(sent', u, row'[u].exp, now')
  <2> DEFINE ev == sent[Held(h)]
  <2>1. /\ Held(h) \in DOMAIN sent /\ ev \in Event
        /\ UNCHANGED <<sent, now>>
        /\ ev.subscriber = u /\ row'[u] = EffectOn(row[u], ev)
    BY <1>3, EffectStep DEF TypeOK
  <2>2. row[u] \in [tier : {"free", "premium"}, exp : Nat]
    BY DEF TypeOK
  <2>3. ev.exp \in Nat /\ ParseExpiration(ev) \in Nat
    BY <1>0, <2>1 DEF Event, ParseExpiration
  <2>4. ev.date # "given" => Rests(sent, u, ParseExpiration(ev), now)
    BY <1>0, <2>1 DEF Rests, UndatedIn, ParseExpiration
  <2>5. CASE ev.type \in GrantTypes
    <3>1. row'[u].exp = ParseExpiration(ev)
      BY <2>1, <2>2, <2>5 DEF EffectOn, TransferEffect, GrantTypes, Grants
    <3>2. ev.date = "given" => Rests(sent, u, ParseExpiration(ev), now)
      BY <2>1, <2>5 DEF Rests, GrantedBy, ParseExpiration
    <3> QED
      BY <2>1, <2>4, <3>1, <3>2
  <2>6. CASE ev.type = "CANCELLATION"
    <3>1. Remains(ev) /\ row'[u].exp = ParseExpiration(ev)
      BY <1>3, <2>1, <2>2, <2>6 DEF EffectOn, CancelEffect, Grants
    <3>2. ASSUME ev.date = "given" PROVE Rests(sent, u, ParseExpiration(ev), now)
      <4>1. ev.exp > now /\ ParseExpiration(ev) = ev.exp
        BY <3>1, <3>2 DEF Remains, ParseExpiration
      <4>2. GrantedBy(sent, u, ev.exp)
        BY <1>0, <1>1, <2>1, <2>3, <2>6, <4>1 DEF CancelPaid
      <4> QED
        BY <4>1, <4>2 DEF Rests
    <3> QED
      BY <2>1, <2>4, <3>1, <3>2
  <2>7. CASE ev.type = "EXPIRATION"
    BY <2>1, <2>2, <2>7 DEF EffectOn, Grants
  <2> QED
    BY <2>1, <2>5, <2>6, <2>7 DEF Event, Types
<1>4. ASSUME NEW c \in Clients, WriteEntitlement(c), row'[u] # row[u]
      PROVE  Rests(sent', u, row'[u].exp, now')
  <2>1. PICK exp \in Nat :
          /\ row' = [row EXCEPT ![Owner[c]] = [tier |-> "premium", exp |-> exp]]
          /\ \/ GrantedBy(sent, Owner[c], exp)
             \/ exp = now + Year /\ UndatedIn(sent, Owner[c])
    BY <1>1, <1>4, SynchroniseStep
  <2>2. u = Owner[c] /\ row'[u].exp = exp /\ UNCHANGED <<sent, now>>
    BY <1>1, <1>4, <2>1, SynchroniseStep DEF TypeOK
  <2> QED
    BY <1>0, <2>1, <2>2 DEF Rests
<1> QED
  BY <1>2, <1>3, <1>4, RowStep

-----------------------------------------------------------------------------
(* The theorems. *)

\* In every reachable state the variables have their types, the table of claims
\* protects the events, and whoever is premium had the period granted to him:
\* the inductive invariant of handleRevenueCatEvent and syncFromRc.
THEOREM Inductive == Spec => []IInv
<1>1. Init => IInv
  <2> SUFFICES ASSUME Init PROVE IInv
    OBVIOUS
  <2>1. sent = <<>> /\ DOMAIN sent = {}
    BY DEF Init
  <2>2. TypeOK
    BY <2>1 DEF Init, TypeOK, Idle, Closed
  <2>3. ClaimInv
    BY DEF Init, ClaimInv, Idle
  <2>4. PaidInv
    BY <2>1 DEF Init, PaidInv, Closed
  <2>5. PremiumWasPaid
    BY DEF Init, PremiumWasPaid
  <2> QED
    BY <2>2, <2>3, <2>4, <2>5 DEF IInv
<1>2. IInv /\ [Next]_vars => IInv'
  BY SubscribersAssumption, TypeStep, ClaimStep, PaidStep, PremiumStep DEF IInv
<1> QED
  BY <1>1, <1>2, PTL DEF Spec

\* Nobody is premium for longer than a period that was paid for by, or
\* transferred to, that same user, however events are repeated and reordered;
\* without a usable expiry, for no longer than the year of parseExpirationAt.
THEOREM PremiumPaid == Spec => []PremiumWasPaid
<1>1. IInv => PremiumWasPaid
  BY DEF IInv
<1> QED
  BY <1>1, Inductive, PTL

\* The claim of an event and its effect are two statements, and still no event
\* has its effect twice, nor do two requests apply one event at once.
THEOREM ClaimsHold == Spec => []ClaimInv
<1>1. IInv => ClaimInv
  BY DEF IInv
<1> QED
  BY <1>1, Inductive, PTL

\* The event of a user leads to one of the rows the ledger allows.
LEMMA EffectIsOutcome ==
  ASSUME NEW r \in [tier : {"free", "premium"}, exp : Nat], NEW ev \in Event
  PROVE  EffectOn(r, ev) \in Ledger!Outcomes(r, ev)
<1>1. ParseExpiration(ev) = Ledger!Expiry(ev)
  BY DEF ParseExpiration, Ledger!Expiry
<1> QED
  BY <1>1 DEF EffectOn, CancelEffect, TransferEffect, Ledger!Outcomes, GrantTypes

\* The server implements the ledger of EntitlementLedger: each event is applied
\* at most once, in one step, to the row of its own subscriber.
THEOREM LedgerRefinement == Spec => ImplementsLedger
<1>1. Init => Ledger!Init
  BY DEF Init, Ledger!Init
<1>2. IInv /\ [Next]_vars => [Ledger!Next]_(Ledger!vars)
  <2> SUFFICES ASSUME IInv, [Next]_vars PROVE [Ledger!Next]_(Ledger!vars)
    OBVIOUS
  <2>1. TypeOK /\ ClaimInv /\ WritePaid(client, sent)
    BY PaidParts DEF IInv
  <2>2. ASSUME UNCHANGED <<applied, row>>,
               NEW type \in Types, NEW u \in Subscribers, NEW exp \in Nat, Post(type, u, exp)
        PROVE  Ledger!Receive
    <3>1. PICK date \in Dates :
            sent' = Append(sent, [type |-> type, subscriber |-> u, exp |-> exp, date |-> date])
      BY <2>2 DEF Post
    <3>2. Len(sent') = Len(sent) + 1 /\ now' = now
      <4>1. [type |-> type, subscriber |-> u, exp |-> exp, date |-> date] \in Event
        BY DEF Event
      <4>2. sent \in Seq(Event)
        BY <2>1 DEF TypeOK
      <4> QED
        BY <2>2, <3>1, <4>1, <4>2 DEF Post
    <3>3. \A i \in DOMAIN sent : sent'[i] = sent[i]
      BY <2>1, LogGrows
    <3> QED
      BY <2>2, <3>2, <3>3 DEF Ledger!Receive
  <2>3. ASSUME NEW h \in Handlers, ApplyEvent(h)
        PROVE  UNCHANGED <<now, sent, applied, row>> \/ Ledger!Apply(Held(h))
    <3>1. Held(h) \notin applied
      BY <2>1, <2>3 DEF ClaimInv, ApplyEvent
    <3> DEFINE ev == sent[Held(h)]
               u  == ev.subscriber
    <3>2. CASE /\ u \in Users
               /\ applied' = applied \cup {Held(h)}
               /\ row' = [row EXCEPT ![u] = EffectOn(row[u], ev)]
      <4>1. ev \in Event /\ row[u] \in [tier : {"free", "premium"}, exp : Nat]
        BY <2>1, <2>3, <3>2, EffectStep DEF TypeOK
      <4>2. EffectOn(row[u], ev) \in Ledger!Outcomes(row[u], ev)
        BY <4>1, EffectIsOutcome
      <4>3. UNCHANGED <<now, sent>>
        BY <2>1, <2>3, EffectStep
      <4> QED
        BY <3>1, <3>2, <4>2, <4>3 DEF Ledger!Apply
    <3> QED
      BY <2>1, <2>3, <3>2, EffectStep
  <2>4. ASSUME NEW c \in Clients, WriteEntitlement(c)
        PROVE  Ledger!Synchronise(Owner[c])
    <3>1. PICK exp \in Nat :
            /\ row' = [row EXCEPT ![Owner[c]] = [tier |-> "premium", exp |-> exp]]
            /\ \/ GrantedBy(sent, Owner[c], exp)
               \/ exp = now + Year /\ UndatedIn(sent, Owner[c])
      BY <2>1, <2>4, SubscribersAssumption, SynchroniseStep
    <3>2. UNCHANGED <<now, sent, applied>>
      BY <2>1, <2>4, SubscribersAssumption, SynchroniseStep
    <3>3. \E i \in DOMAIN sent :
            /\ sent[i].subscriber = Owner[c]
            /\ \/ sent[i].type \in GrantTypes /\ exp = sent[i].exp
               \/ sent[i].date # "given" /\ exp = now + Year
      BY <3>1 DEF GrantedBy, UndatedIn
    <3>4. exp \in {sent[j].exp : j \in DOMAIN sent} \cup {now + Year}
      BY <3>3
    <3> QED
      BY <3>1, <3>2, <3>3, <3>4 DEF Ledger!Synchronise
  <2>5. CASE UNCHANGED <<applied, row>>
    <3>1. CASE now' = now
      BY <2>1, <2>2, <2>5, <3>1, LogStep DEF Ledger!Next, Ledger!vars
    <3>2. CASE now' = now + 1
      <4>1. now' # now
        BY <2>1, <3>2 DEF TypeOK
      <4>2. sent' = sent
        BY <2>1, <4>1, LogStep DEF Post
      <4> QED
        BY <2>5, <3>2, <4>2 DEF Ledger!Next, Ledger!Tick
    <3> QED
      BY <2>1, <3>1, <3>2, TimeStep
  <2>6. ASSUME NEW h \in Handlers, ApplyEvent(h)
        PROVE  [Ledger!Next]_(Ledger!vars)
    <3>1. Held(h) \in DOMAIN sent
      BY <2>1, <2>6, EffectStep
    <3> QED
      BY <2>3, <2>6, <3>1 DEF Ledger!Next, Ledger!vars
  <2>7. ASSUME NEW c \in Clients, WriteEntitlement(c)
        PROVE  Ledger!Next
    BY <2>4, <2>7, SubscribersAssumption DEF Ledger!Next, SubscribersAssumption
  <2> QED
    BY <2>5, <2>6, <2>7, RowStep
<1> QED
  BY <1>1, <1>2, Inductive, PTL DEF Spec, Ledger!Spec, ImplementsLedger

-----------------------------------------------------------------------------
(* The preflight and the charge. *)

\* Whoever is about to be charged has nothing running, but for a restored account.
LEMMA BuyStep ==
  ASSUME BuysOnce, SubscribersAssumption, TypeOK, BuyInv, [Next]_vars
  PROVE  BuyInv'
<1> DEFINE Buy(c) ==
      /\ client[c].pc # "buy"
      /\ client[c].pc = "save" => client[c].exp = 1
      /\ cache[Owner[c]] = "inactive" => client[c].pc \in {"sync", "write", "drop"}
<1> SUFFICES ASSUME NEW c \in Clients, Active(Owner[c])', ~Restored(Owner[c])'
             PROVE  Buy(c)'
  BY DEF BuyInv
<1>0. Active(Owner[c]) => Buy(c)
  BY RestoredStays DEF BuyInv
<1>t. /\ Owner[c] \in Users /\ Owner[c] \in Subscribers
      /\ store \in [Subscribers -> [paid : Nat, auto : BOOLEAN, live : BOOLEAN]]
      /\ client \in [Clients -> Paywalls]
      /\ cache \in [Users -> {"none", "active", "inactive"}] /\ now \in Nat
  BY DEF SubscribersAssumption, Subscribers, TypeOK, Paywalls
\* A step that leaves the device alone, starts nothing and at most drops the answer.
<1>1. ASSUME client'[c] = client[c], cache'[Owner[c]] \in {cache[Owner[c]], "none"},
             Active(Owner[c])' => Active(Owner[c])
      PROVE  Buy(c)'
  BY <1>0, <1>1
<1>2. CASE Tick
  <2>1. /\ cache'[Owner[c]] = "none" /\ client'[c] = client[c]
        /\ now' = now + 1 /\ store' = store
    BY <1>t, <1>2 DEF Tick, clientVars
  <2>2. Active(Owner[c])' => Active(Owner[c])
    BY <1>t, <2>1 DEF Active
  <2> QED
    BY <1>1, <2>1, <2>2
<1>3. ASSUME NEW s \in Subscribers, Renew(s) \/ SetAutoRenew(s) \/ Refund(s) \/ Lapse(s)
      PROVE  Buy(c)'
  <2>1. UNCHANGED <<client, cache, now>>
    BY <1>3 DEF Renew, SetAutoRenew, Refund, Lapse, Outside, Post, clientVars
  <2>2. Active(Owner[c])' => Active(Owner[c])
    BY <1>t, <1>3, <2>1 DEF Renew, SetAutoRenew, Refund, Lapse, Active, Ended
  <2> QED
    BY <1>1, <2>1, <2>2
<1>4. ASSUME NEW s \in Subscribers, NEW t \in Subscribers, Transfer(s, t)
      PROVE  Buy(c)'
  <2>1. /\ UNCHANGED <<client, cache, now>> /\ s # t
        /\ store' = [store EXCEPT ![t] = store[s], ![s] = Ended]
        /\ Post("TRANSFER", t, store[s].paid)
    BY <1>4 DEF Transfer, Post
  <2>2. Restored(t)'
    <3>1. sent \in Seq(Event) /\ pending \subseteq DOMAIN sent /\ store[s].paid \in Nat
      BY DEF TypeOK
    <3>2. "TRANSFER" \in Types
      BY DEF Types, GrantTypes
    <3>3. /\ Len(sent) + 1 \in DOMAIN sent'
          /\ sent'[Len(sent) + 1].type = "TRANSFER"
          /\ sent'[Len(sent) + 1].subscriber = t
      BY <2>1, <3>1, <3>2, PostAppends
    <3> QED
      BY <3>3 DEF Restored
  <2>3. Owner[c] # t
    BY <2>2
  <2>4. Active(Owner[c])' => Active(Owner[c])
    BY <1>t, <2>1, <2>3 DEF Active, Ended
  <2> QED
    BY <1>1, <2>1, <2>4
<1>5. ASSUME NEW d \in Clients, NEW s \in Subscribers, Purchase(d, s)
      PROVE  Buy(c)'
  <2>1. /\ UNCHANGED <<cache, now>> /\ (s = Owner[d] \/ s \in Anon)
        /\ store' = [store EXCEPT ![s] = store'[s]]
        /\ client' = [client EXCEPT ![d] = [client[d] EXCEPT !.pc = "sync"]]
    BY <1>t, <1>5 DEF Purchase, Post, Go
  <2>2. CASE c = d
    BY <1>t, <2>1, <2>2 DEF Paywalls
  <2>3. CASE c # d
    <3>1. Owner[c] # s
      BY <1>t, <2>1, <2>3 DEF BuysOnce, SubscribersAssumption
    <3> QED
      BY <1>1, <1>t, <2>1, <2>3, <3>1 DEF Active
  <2> QED
    BY <2>2, <2>3
<1>6. ASSUME NEW h \in Handlers, Deliver(h) \/ Work(h) \/ RequestFails(h)
      PROVE  Buy(c)'
  <2>1. cache'[Owner[c]] \in {cache[Owner[c]], "none"}
    BY <1>t, <1>6 DEF Deliver, Work, ClaimEvent, ApplyEvent, ForgetAnswer, Answer, RequestFails
  <2> QED
    BY <1>1, <1>6, <2>1, WebhookFrame DEF storeVars, clientVars, Active
<1>7. CASE Crash \/ PurgeClaims \/ (\E u \in Users : AnswerExpires(u)) \/ UNCHANGED vars
  BY <1>1, <1>t, <1>7 DEF Crash, PurgeClaims, AnswerExpires, vars, storeVars, clientVars, Active
<1>8. ASSUME NEW d \in Clients,
             \/ Preflight(d) \/ Ask(d) \/ FailClosed(d) \/ FailOpen(d)
             \/ GiveUp(d) \/ Finalize(d) \/ RestartApp(d) \/ DropSnapshot(d)
      PROVE  Buy(c)'
  <2>0. UNCHANGED <<now, store>> /\ Active(Owner[c]) /\ Buy(c)
    BY <1>0, <1>8, PaywallFrame DEF storeVars, Active
  <2>1. CASE c # d
    <3>1. Owner[c] # Owner[d]
      BY <2>1 DEF BuysOnce
    <3>2. client'[c] = client[c] /\ cache'[Owner[c]] = cache[Owner[c]]
      BY <1>t, <1>8, <2>1, <3>1
      DEF Preflight, Ask, ReadAnswer, AskRevenueCat, SaveAnswer, Decide, FailClosed, FailOpen,
          GiveUp, Finalize, SyncFromRc, WriteEntitlement, DropAnswer, NotSynced, PollConfirms,
          PollTimesOut, RestartApp, DropSnapshot, Go, Close
    <3> QED
      BY <1>1, <2>0, <3>2
  <2>2. CASE Preflight(c)
    <3>1. client[c].pc = "closed" /\ client'[c].pc = "cache" /\ UNCHANGED cache
      BY <1>t, <2>2 DEF Preflight, Go, Paywalls, Closed
    <3> QED
      BY <2>0, <3>1
  <2>3. CASE ReadAnswer(c)
    <3>1. /\ client[c].pc = "cache" /\ UNCHANGED cache
          /\ \/ client'[c].pc = "revenuecat"
             \/ client'[c].pc = "buy" /\ cache[Owner[c]] = "inactive"
             \/ client'[c].pc = "closed"
      BY <1>t, <2>3 DEF ReadAnswer, Decide, Go, Close, Closed, Paywalls, BuysOnce
    <3> QED
      BY <2>0, <3>1
  <2>4. CASE AskRevenueCat(c)
    <3>1. /\ client[c].pc = "revenuecat" /\ UNCHANGED cache
          /\ client'[c].pc = "save" /\ client'[c].exp = 1
      BY <1>t, <2>0, <2>4 DEF AskRevenueCat, Paywalls
    <3> QED
      BY <2>0, <3>1
  <2>5. CASE SaveAnswer(c)
    <3>1. client[c].exp = 1 /\ cache'[Owner[c]] = "active" /\ client'[c].pc = "closed"
      BY <1>t, <2>0, <2>5 DEF SaveAnswer, Decide, Go, Close, Closed, Paywalls, BuysOnce
    <3> QED
      BY <3>1
  <2>6. CASE GiveUp(c) \/ PollConfirms(c) \/ PollTimesOut(c) \/ DropSnapshot(c)
    <3>1. /\ UNCHANGED cache
          /\ \/ client[c].pc \in {"buy", "poll"} /\ client'[c].pc \in {"closed", "resync"}
             \/ client'[c] = client[c]
      BY <1>t, <2>6
      DEF GiveUp, PollConfirms, PollTimesOut, DropSnapshot, Go, Close, Closed, Paywalls
    <3> QED
      BY <2>0, <3>1
  <2>7. CASE SyncFromRc(c) \/ WriteEntitlement(c)
    <3>1. /\ UNCHANGED cache
          /\ client[c].pc \in {"sync", "resync", "write"}
          /\ client'[c].pc \in {"write", "drop"}
      BY <1>t, <2>7 DEF SyncFromRc, WriteEntitlement, Paywalls
    <3> QED
      BY <2>0, <3>1
  <2>8. CASE DropAnswer(c)
    BY <1>t, <2>8 DEF DropAnswer, Close, Closed
  <2>9. ~FailOpen(c) /\ ~RestartApp(c) /\ ~FailClosed(c) /\ ~NotSynced(c)
    BY <2>0 DEF FailOpen, RestartApp, FailClosed, NotSynced, Fault, BuysOnce
  <2> QED
    BY <1>8, <2>1, <2>2, <2>3, <2>4, <2>5, <2>6, <2>7, <2>8, <2>9 DEF Ask, Finalize
<1> QED
  BY <1>2, <1>3, <1>4, <1>5, <1>6, <1>7, <1>8 DEF Next, StoreStep

\* Nobody is charged twice by the preflight and the paywall of preflightPurchase and
\* handlePurchase, whatever becomes of the snapshot on the device, as long as an
\* account is on one device, RevenueCat and the server answer, the app is not started
\* again before the cached answer is dropped, and no subscription was restored.
THEOREM ChargedOnce == ASSUME BuysOnce PROVE Spec => NoDoubleCharge
<1>1. Init => BuyInv
  BY SubscribersAssumption DEF Init, BuyInv, Active, SubscribersAssumption, Subscribers
<1>2. TypeOK /\ BuyInv /\ [Next]_vars => BuyInv'
  BY SubscribersAssumption, BuyStep
<1>3. BuyInv /\ [Next]_vars
      => [\A c \in Clients : Charges(c) => ~Active(Owner[c]) \/ Restored(Owner[c])]_vars
  BY DEF BuyInv, Charges
<1>4. IInv => TypeOK
  BY DEF IInv
<1> QED
  BY <1>1, <1>2, <1>3, <1>4, Inductive, PTL DEF Spec, NoDoubleCharge

-----------------------------------------------------------------------------
(* Events one after the other, and the store and the rows in the end. *)

\* The steps that leave the requests, their tables and the log alone.
LEMMA ServerIdle ==
  ASSUME TypeOK, [Next]_vars,
         ~\E type \in Types, u \in Subscribers, exp \in Nat : Post(type, u, exp),
         ~\E h \in Handlers : Deliver(h) \/ Work(h) \/ RequestFails(h),
         ~Crash, ~PurgeClaims
  PROVE  UNCHANGED <<sent, serverVars>>
<1>1. CASE Tick \/ (\E u \in Users : AnswerExpires(u)) \/ UNCHANGED vars
  BY <1>1 DEF Tick, AnswerExpires, vars, storeVars
<1>2. CASE \E c \in Clients : \/ Preflight(c) \/ Ask(c) \/ FailClosed(c) \/ FailOpen(c)
                              \/ GiveUp(c) \/ Finalize(c) \/ RestartApp(c) \/ DropSnapshot(c)
  BY <1>2, PaywallFrame DEF storeVars
<1> QED
  BY <1>1, <1>2, StorePosts DEF Next, StoreStep

\* A request moves on with the event it holds.
LEMMA StepMoves ==
  ASSUME TypeOK, NEW h \in Handlers, NEW pc, Step(h, pc)
  PROVE  hand' = [hand EXCEPT ![h] = [pc |-> pc, ev |-> Held(h)]]
<1>1. [hand[h] EXCEPT !.pc = pc] = [pc |-> pc, ev |-> hand[h].ev]
  BY DEF TypeOK
<1>2. hand' = [hand EXCEPT ![h] = [hand[h] EXCEPT !.pc = pc]]
  BY DEF Step, TypeOK
<1> QED
  BY <1>1, <1>2 DEF Held

\* One request of the webhook keeps the events in their order.
LEMMA OrderWebhook ==
  ASSUME OneByOne, TypeOK, ClaimInv, OrderInv,
         NEW h \in Handlers, Deliver(h) \/ Work(h) \/ RequestFails(h)
  PROVE  OrderInv'
<1>0. /\ sent' = sent
      /\ \A d \in DOMAIN sent : d \in Nat
      /\ pending \subseteq DOMAIN sent /\ applied \subseteq DOMAIN sent
      /\ \A k \in Handlers : hand[k].pc # "idle" => Held(k) \in DOMAIN sent
  BY WebhookFrame DEF TypeOK, storeVars, Held
<1>1. CASE Deliver(h)
  <2>1. PICK e \in pending : /\ \A d \in pending : e <= d
                             /\ hand' = [hand EXCEPT ![h] = [pc |-> "claim", ev |-> e]]
    BY <1>1 DEF Deliver, OneByOne
  <2>2. /\ \A k \in Handlers : hand[k].pc = "idle"
        /\ UNCHANGED <<pending, processed, applied>>
    BY <1>1 DEF Deliver, OneByOne, Idle
  <2>3. /\ hand'[h].pc = "claim" /\ Held(h)' = e
        /\ \A k \in Handlers : k # h => hand'[k].pc = "idle"
    BY <2>1, <2>2 DEF TypeOK, Held
  <2> QED
    BY <1>0, <2>1, <2>2, <2>3 DEF OrderInv
<1>2. ASSUME hand[h].pc # "idle"
      PROVE  \A k \in Handlers : hand[k].pc # "idle" => k = h
  BY <1>2 DEF OrderInv
\* A request that is past the effect of its event has left no effect out.
<1>3. ASSUME hand[h].pc \notin {"idle", "apply"}, Held(h) \in processed,
             sent[Held(h)].subscriber \in Users
      PROVE  Held(h) \in applied
  BY <1>0, <1>2, <1>3 DEF OrderInv
<1>4. CASE ClaimEvent(h)
  <2>1. /\ hand[h].pc = "claim"
        /\ hand' = [hand EXCEPT ![h] = [pc |-> IF Held(h) \in processed THEN "answer" ELSE "apply",
                                        ev |-> Held(h)]]
        /\ processed' = processed \cup {Held(h)}
        /\ UNCHANGED <<pending, applied>>
    BY <1>4, StepMoves DEF ClaimEvent, Held
  <2>2. /\ Held(h)' = Held(h)
        /\ hand'[h].pc = IF Held(h) \in processed THEN "answer" ELSE "apply"
        /\ \A k \in Handlers : k # h => hand'[k] = hand[k]
    BY <2>1 DEF TypeOK, Held
  <2>3. /\ \A k \in Handlers : k # h => hand'[k].pc = "idle"
        /\ Held(h) \in pending /\ \A d \in pending : Held(h) <= d
    BY <1>2, <2>1, <2>2 DEF OrderInv
  <2>4. ASSUME NEW d \in DOMAIN sent \ applied, sent[d].subscriber \in Users, d \in processed'
        PROVE  \E k \in Handlers : hand'[k].pc = "apply" /\ Held(k)' = d
    <3>1. CASE d = Held(h)
      <4>1. d \notin processed
        BY <1>3, <2>1, <2>4, <3>1
      <4> QED
        BY <2>2, <3>1, <4>1
    <3>2. CASE d # Held(h)
      <4>1. \E k \in Handlers : hand[k].pc = "apply" /\ Held(k) = d
        BY <2>1, <2>4, <3>2 DEF OrderInv
      <4> QED
        BY <1>2, <2>1, <4>1
    <3> QED
      BY <3>1, <3>2
  <2> QED
    BY <1>0, <2>1, <2>2, <2>3, <2>4 DEF OrderInv
<1>5. CASE ApplyEvent(h)
  <2>1. /\ hand[h].pc = "apply"
        /\ \E pc \in {"forget", "answer"} : hand' = [hand EXCEPT ![h] = [pc |-> pc, ev |-> Held(h)]]
        /\ UNCHANGED <<pending, processed>>
        /\ \/ sent[Held(h)].subscriber \in Users /\ applied' = applied \cup {Held(h)}
           \/ sent[Held(h)].subscriber \notin Users /\ applied' = applied
    BY <1>5, StepMoves DEF ApplyEvent, Held
  <2>2. /\ Held(h)' = Held(h) /\ hand'[h].pc \in {"forget", "answer"}
        /\ \A k \in Handlers : k # h => hand'[k] = hand[k]
    BY <2>1 DEF TypeOK, Held
  <2>3. /\ \A k \in Handlers : k # h => hand'[k].pc = "idle"
        /\ Held(h) \in pending /\ \A d \in pending : Held(h) <= d
    BY <1>2, <2>1, <2>2 DEF OrderInv
  <2>4. ASSUME NEW d \in DOMAIN sent \ applied', sent[d].subscriber \in Users
        PROVE  d \in pending /\ d \notin processed /\ \A e \in applied' : e < d
    <3>1. d \in DOMAIN sent \ applied /\ d # Held(h)
      BY <2>1, <2>4
    <3>2. /\ d \in pending /\ \A e \in applied : e < d
          /\ d \in processed => \E k \in Handlers : hand[k].pc = "apply" /\ Held(k) = d
      BY <2>4, <3>1 DEF OrderInv
    <3>3. d \notin processed
      BY <1>2, <2>1, <3>1, <3>2
    <3>4. Held(h) < d
      BY <1>0, <2>1, <2>3, <3>1, <3>2
    <3> QED
      BY <2>1, <3>2, <3>3, <3>4
  <2> QED
    BY <1>0, <2>1, <2>2, <2>3, <2>4 DEF OrderInv
<1>6. CASE ForgetAnswer(h)
  <2>1. /\ hand[h].pc = "forget" /\ hand' = [hand EXCEPT ![h] = [pc |-> "answer", ev |-> Held(h)]]
        /\ UNCHANGED <<pending, processed, applied>>
    BY <1>6, StepMoves DEF ForgetAnswer
  <2>2. /\ Held(h)' = Held(h) /\ hand'[h].pc = "answer"
        /\ \A k \in Handlers : k # h => hand'[k] = hand[k]
    BY <2>1 DEF TypeOK, Held
  <2> QED
    BY <1>0, <1>2, <2>1, <2>2 DEF OrderInv
<1>7. CASE Answer(h) \/ RequestFails(h)
  <2>1. /\ hand[h].pc = "answer" /\ hand' = [hand EXCEPT ![h] = Idle]
        /\ pending' \in {pending, pending \ {Held(h)}}
        /\ UNCHANGED <<processed, applied>>
    BY <1>7 DEF Answer, RequestFails, Leave, Fault, OneByOne, Held
  <2>2. \A k \in Handlers : hand'[k].pc = "idle"
    BY <1>2, <2>1 DEF TypeOK, Idle
  <2>3. Held(h) \in processed
    BY <2>1 DEF ClaimInv
  <2>4. ASSUME NEW d \in DOMAIN sent \ applied, sent[d].subscriber \in Users
        PROVE  d \in pending' /\ d \notin processed /\ \A e \in applied : e < d
    <3>1. d # Held(h)
      BY <1>3, <2>1, <2>3, <2>4
    <3>2. d \notin processed
      BY <1>2, <2>1, <2>4 DEF OrderInv
    <3> QED
      BY <2>1, <2>4, <3>1, <3>2 DEF OrderInv
  <2> QED
    BY <1>0, <2>1, <2>2, <2>4 DEF OrderInv
<1> QED
  BY <1>1, <1>4, <1>5, <1>6, <1>7 DEF Work

\* So does every other step.
LEMMA OrderStep ==
  ASSUME OneByOne, TypeOK, ClaimInv, OrderInv, [Next]_vars
  PROVE  OrderInv'
<1>1. CASE UNCHANGED <<sent, serverVars>>
  BY <1>1 DEF OrderInv, Held, serverVars
<1>2. ASSUME NEW type \in Types, NEW u \in Subscribers, NEW exp \in Nat, Post(type, u, exp)
      PROVE  OrderInv'
  <2> DEFINE new == Len(sent) + 1
  <2>1. /\ DOMAIN sent' = DOMAIN sent \cup {new} /\ new \notin DOMAIN sent
        /\ \A i \in DOMAIN sent : sent'[i] = sent[i]
    BY <1>2, PostAppends DEF TypeOK
  <2>2. /\ pending' = pending \cup {new} /\ UNCHANGED <<hand, processed, applied>>
    BY <1>2 DEF Post
  <2>3. new \in Nat /\ \A i \in DOMAIN sent : i \in Nat /\ i < new
    BY DEF TypeOK
  <2>4. /\ pending \subseteq DOMAIN sent /\ processed \subseteq DOMAIN sent
        /\ applied \subseteq DOMAIN sent
    BY DEF TypeOK
  <2> HIDE DEF new
  <2>5. \A h \in Handlers : hand[h].pc # "idle" =>
          Held(h)' \in pending' /\ \A d \in pending' : Held(h)' <= d
    BY <2>2, <2>3, <2>4 DEF OrderInv, Held
  <2>6. \A d \in DOMAIN sent' \ applied' : sent'[d].subscriber \in Users =>
          /\ d \in pending'
          /\ d \in processed' => \E h \in Handlers : hand'[h].pc = "apply" /\ Held(h)' = d
          /\ \A e \in applied' : e < d
    <3> SUFFICES ASSUME NEW d \in DOMAIN sent' \ applied', sent'[d].subscriber \in Users
                 PROVE  /\ d \in pending'
                        /\ d \in processed' =>
                             \E h \in Handlers : hand'[h].pc = "apply" /\ Held(h)' = d
                        /\ \A e \in applied' : e < d
      OBVIOUS
    <3>1. CASE d = new
      BY <2>1, <2>2, <2>3, <2>4, <3>1
    <3>2. CASE d \in DOMAIN sent
      <4>1. d \in DOMAIN sent \ applied /\ sent[d].subscriber \in Users
        BY <2>1, <2>2, <3>2
      <4> QED
        BY <2>2, <4>1 DEF OrderInv, Held
    <3> QED
      BY <2>1, <3>1, <3>2
  <2> QED
    BY <2>2, <2>5, <2>6 DEF OrderInv
<1>3. CASE PurgeClaims
  BY <1>3 DEF PurgeClaims, OrderInv, Held, storeVars
<1>4. ~Crash
  BY DEF Crash, Fault, OneByOne
<1> QED
  BY <1>1, <1>2, <1>3, <1>4, OrderWebhook, ServerIdle

\* What RevenueCat has answered to a synchronisation stays true until it is written.
LEMMA WriteStep ==
  ASSUME OneByOne, SubscribersAssumption, TypeOK, WriteInv, [Next]_vars
  PROVE  WriteInv'
<1> SUFFICES ASSUME NEW c \in Clients, client'[c].pc = "write"
             PROVE  (Runs(Owner[c], client[c].exp) /\ client[c].exp > now)'
                    \/ UndatedIn(sent', Owner[c])
  BY DEF WriteInv, DateMissing, UndatedIn
<1>u. UndatedIn(sent, Owner[c]) => UndatedIn(sent', Owner[c])
  BY UndatedStays
<1>t. /\ Owner[c] \in Subscribers /\ now \in Nat
      /\ store \in [Subscribers -> [paid : Nat, auto : BOOLEAN, live : BOOLEAN]]
  BY DEF SubscribersAssumption, Subscribers, TypeOK
<1>1. CASE SyncFromRc(c)
  <2>1. /\ \/ client'[c].exp = store[Owner[c]].paid
           \/ UndatedIn(sent, Owner[c])
        /\ Active(Owner[c]) /\ UNCHANGED <<store, now>>
    BY <1>1 DEF SyncFromRc, TypeOK, storeVars, DateMissing, UndatedIn
  <2> QED
    BY <1>t, <1>u, <2>1 DEF Runs, Active
<1>2. CASE client'[c] = client[c] /\ ~UndatedIn(sent, Owner[c])
  <2>0. Runs(Owner[c], client[c].exp) /\ client[c].exp > now /\ Finishing(c)
    BY <1>2 DEF WriteInv, Finishing, DateMissing, UndatedIn
  <2>1. ASSUME UNCHANGED <<store, now>> PROVE (Runs(Owner[c], client[c].exp) /\ client[c].exp > now)'
    BY <1>2, <2>0, <2>1 DEF Runs
  <2>2. ~Tick
    BY <2>0 DEF Tick
  <2>3. ASSUME NEW s \in Subscribers, Renew(s) \/ SetAutoRenew(s) \/ Refund(s)
        PROVE  FALSE
    BY <2>0, <2>3 DEF Renew, SetAutoRenew, Refund, Outside, OneByOne
  <2>4. ASSUME NEW s \in Subscribers, NEW t \in Subscribers, Transfer(s, t) PROVE FALSE
    BY <2>0, <2>4 DEF Transfer, OneByOne
  <2>5. ASSUME NEW s \in Subscribers, Lapse(s)
        PROVE  (Runs(Owner[c], client[c].exp) /\ client[c].exp > now)'
    <3>1. store' = [store EXCEPT ![s] = Ended] /\ Lapsed(s) /\ now' = now
      BY <2>5 DEF Lapse, Post
    <3>2. s # Owner[c]
      BY <1>t, <2>0, <3>1 DEF Lapsed, Runs
    <3> QED
      BY <1>t, <1>2, <2>0, <3>1, <3>2 DEF Runs
  <2>6. ASSUME NEW d \in Clients, NEW s \in Subscribers, Purchase(d, s)
        PROVE  (Runs(Owner[c], client[c].exp) /\ client[c].exp > now)'
    <3> DEFINE until == IF Active(s) THEN store[s].paid ELSE now + 1
    <3>1. /\ store' = [store EXCEPT ![s] = [paid |-> until, auto |-> TRUE, live |-> TRUE]]
          /\ now' = now
      BY <2>6 DEF Purchase, Post
    <3>2. s = Owner[c] => until = store[Owner[c]].paid
      BY <1>t, <2>0 DEF Active, Runs
    <3> HIDE DEF until
    <3> QED
      BY <1>t, <1>2, <2>0, <3>1, <3>2 DEF Runs
  <2>7. CASE \E h \in Handlers : Deliver(h) \/ Work(h) \/ RequestFails(h)
    BY <2>1, <2>7, WebhookFrame DEF storeVars
  <2>8. CASE \E d \in Clients : \/ Preflight(d) \/ Ask(d) \/ FailClosed(d) \/ FailOpen(d)
                                \/ GiveUp(d) \/ Finalize(d) \/ RestartApp(d) \/ DropSnapshot(d)
    BY <2>1, <2>8, PaywallFrame DEF storeVars
  <2>9. CASE Crash \/ PurgeClaims \/ (\E u \in Users : AnswerExpires(u)) \/ UNCHANGED vars
    BY <2>1, <2>9 DEF Crash, PurgeClaims, AnswerExpires, vars, storeVars
  <2> QED
    BY <2>2, <2>3, <2>4, <2>5, <2>6, <2>7, <2>8, <2>9 DEF Next, StoreStep
<1> QED
  BY <1>1, <1>2, <1>u, WriteBegins

\* An event for s is posted: it is its last one, and no row of s is settled now.
LEMMA PostRows ==
  ASSUME TypeOK, LastInv, RowInv, UNCHANGED <<now, applied, row>>,
         NEW type \in Types, NEW s \in Subscribers, NEW exp \in Nat, Post(type, s, exp),
         type \in GrantTypes \/ (type = "CANCELLATION" /\ exp > now) => Runs(s, exp)',
         \A u \in Subscribers \ {s} : store'[u] = store[u] \/ type = "TRANSFER"
  PROVE  LastInv' /\ RowInv'
<1> DEFINE new == Len(sent) + 1
<1>0. sent \in Seq(Event) /\ pending \subseteq DOMAIN sent
  BY DEF TypeOK
<1>1. /\ DOMAIN sent' = DOMAIN sent \cup {new} /\ new \notin DOMAIN sent
      /\ \A i \in DOMAIN sent : sent'[i] = sent[i]
      /\ sent'[new].type = type /\ sent'[new].subscriber = s /\ sent'[new].exp = exp
  BY <1>0, PostAppends
<1>2. new \in Nat /\ \A i \in DOMAIN sent : i \in Nat /\ i < new
  BY DEF TypeOK
<1>3. applied \subseteq DOMAIN sent /\ Users \subseteq Subscribers
  BY DEF TypeOK, Subscribers
<1>e. \A i \in DOMAIN sent : sent[i] \in Event
  BY DEF TypeOK
<1>4. \A i \in DOMAIN sent : sent[i].subscriber \in Subscribers
  BY <1>e DEF Event
<1> HIDE DEF new
<1>5. ASSUME NEW u \in Subscribers \ {s}, NEW t, Runs(u, t) \/ Away(u)
      PROVE  (Runs(u, t) \/ Away(u))'
  <2>1. CASE Away(u)
    BY <1>1, <2>1 DEF Away
  <2>2. CASE type = "TRANSFER"
    BY <1>1, <2>2 DEF Away
  <2>3. CASE store'[u] = store[u] /\ Runs(u, t)
    BY <2>3 DEF Runs
  <2> QED
    BY <1>5, <2>1, <2>2, <2>3
<1>6. LastInv'
  <2> SUFFICES ASSUME NEW i \in DOMAIN sent', IsLast(i)',
                      \/ sent'[i].type \in GrantTypes
                      \/ sent'[i].type = "CANCELLATION" /\ sent'[i].exp > now
               PROVE  (Runs(sent[i].subscriber, sent[i].exp) \/ Away(sent[i].subscriber))'
    BY DEF LastInv
  <2>1. CASE i = new
    <3>1. sent'[i].type = type /\ sent'[i].subscriber = s /\ sent'[i].exp = exp
      BY <1>1, <2>1
    <3>2. Runs(s, exp)'
      BY <3>1
    <3> QED
      BY <3>1, <3>2 DEF Runs
  <2>2. CASE i \in DOMAIN sent
    <3>1. sent'[i] = sent[i] /\ i < new
      BY <1>1, <1>2, <2>2
    <3>2. sent[i].subscriber # s
      BY <1>1, <1>2, <2>2, <3>1 DEF IsLast
    <3>3. IsLast(i)
      BY <1>1, <2>2 DEF IsLast
    <3>4. Runs(sent[i].subscriber, sent[i].exp) \/ Away(sent[i].subscriber)
      BY <2>2, <3>1, <3>3 DEF LastInv
    <3>5. (Runs(sent[i].subscriber, sent[i].exp) \/ Away(sent[i].subscriber))'
            <=> LET u == sent[i].subscriber
                    t == sent[i].exp
                IN  (store'[u].live /\ store'[u].paid = t)
                    \/ \E j \in DOMAIN sent' : sent'[j].type = "TRANSFER" /\ sent'[j].subscriber # u
      BY <3>1 DEF Runs, Away
    <3> QED
      BY <1>4, <1>5, <2>2, <3>2, <3>4, <3>5 DEF Runs, Away
  <2> QED
    BY <1>1, <2>1, <2>2
<1>7. RowInv'
  <2> SUFFICES ASSUME NEW u \in Users, Premium(u)',
                      \A i \in DOMAIN sent' : sent'[i].subscriber = u => i \in applied
               PROVE  (Runs(u, row[u].exp) \/ Away(u) \/ DateMissing(u))'
    BY DEF RowInv
  <2>1. u # s
    BY <1>1, <1>3
  <2>2. Runs(u, row[u].exp) \/ Away(u) \/ DateMissing(u)
    BY <1>1 DEF RowInv, Premium
  <2>4. DateMissing(u) => DateMissing(u)'
    BY <1>1 DEF DateMissing
  <2>3. row'[u].exp = row[u].exp
    OBVIOUS
  <2> QED
    BY <1>3, <1>5, <2>1, <2>2, <2>3, <2>4 DEF Runs, Away
<1> QED
  BY <1>6, <1>7

\* The store's own moves and a purchase: each event says what the store says.
LEMMA StoreRows ==
  ASSUME TypeOK, LastInv, RowInv, NEW s \in Subscribers,
         \/ Renew(s) \/ SetAutoRenew(s) \/ Refund(s) \/ Lapse(s)
         \/ \E t \in Subscribers : Transfer(s, t)
         \/ \E c \in Clients : Purchase(c, s)
  PROVE  LastInv' /\ RowInv'
<1>1. /\ store[s] \in [paid : Nat, auto : BOOLEAN, live : BOOLEAN] /\ now \in Nat
      /\ DOMAIN store = Subscribers
      /\ Types = GrantTypes \cup {"CANCELLATION", "EXPIRATION"}
      /\ {"RENEWAL", "UNCANCELLATION", "TRANSFER", "INITIAL_PURCHASE"} \subseteq GrantTypes
      /\ "CANCELLATION" \notin GrantTypes /\ "EXPIRATION" \notin GrantTypes
  BY DEF TypeOK, Types, GrantTypes, Grants
<1>2. UNCHANGED <<now, applied, row>>
  BY StoreType
<1>3. CASE Renew(s)
  <2>1. PICK exp \in Nat : exp = store[s].paid + 1
    BY <1>1
  <2>2. /\ Post("RENEWAL", s, exp) /\ store[s].live
        /\ store' = [store EXCEPT ![s] = [store[s] EXCEPT !.paid = exp]]
    BY <1>3, <2>1 DEF Renew, Active
  <2>3. Runs(s, exp)' /\ \A u \in Subscribers \ {s} : store'[u] = store[u]
    BY <1>1, <2>2 DEF Runs
  <2> QED
    BY <1>1, <1>2, <2>2, <2>3, PostRows
<1>4. CASE SetAutoRenew(s)
  <2>1. PICK exp \in Nat : exp = store[s].paid
    BY <1>1
  <2>2. PICK type \in Types :
          type = IF store[s].auto THEN "CANCELLATION" ELSE "UNCANCELLATION"
    BY <1>1
  <2>3. /\ Post(type, s, exp) /\ store[s].live
        /\ store' = [store EXCEPT ![s] = [store[s] EXCEPT !.auto = ~store[s].auto]]
    BY <1>4, <2>1, <2>2 DEF SetAutoRenew, Active
  <2>4. Runs(s, exp)' /\ \A u \in Subscribers \ {s} : store'[u] = store[u]
    BY <1>1, <2>1, <2>3 DEF Runs
  <2> QED
    BY <1>2, <2>3, <2>4, PostRows
<1>5. CASE Refund(s)
  <2>1. /\ Post("CANCELLATION", s, now)
        /\ \A u \in Subscribers \ {s} : store'[u] = store[u]
    BY <1>1, <1>5 DEF Refund
  <2>2. ~(now > now)
    BY <1>1
  <2> QED
    BY <1>1, <1>2, <2>1, <2>2, PostRows
<1>6. CASE Lapse(s)
  <2>1. PICK exp \in Nat : exp = store[s].paid
    BY <1>1
  <2>2. /\ Post("EXPIRATION", s, exp)
        /\ \A u \in Subscribers \ {s} : store'[u] = store[u]
    BY <1>1, <1>6, <2>1 DEF Lapse
  <2> QED
    BY <1>1, <1>2, <2>1, <2>2, PostRows
<1>7. ASSUME NEW t \in Subscribers, Transfer(s, t)
      PROVE  LastInv' /\ RowInv'
  <2>1. PICK exp \in Nat : exp = store[s].paid
    BY <1>1
  <2>2. /\ Post("TRANSFER", t, exp) /\ s # t /\ store[s].live
        /\ store' = [store EXCEPT ![t] = store[s], ![s] = Ended]
    BY <1>7, <2>1 DEF Transfer, Active
  <2>3. store'[t] = store[s]
    BY <1>1, <2>2
  <2>4. Runs(t, exp)'
    BY <2>1, <2>2, <2>3 DEF Runs
  <2> QED
    BY <1>1, <1>2, <2>2, <2>4, PostRows
<1>8. ASSUME NEW c \in Clients, Purchase(c, s)
      PROVE  LastInv' /\ RowInv'
  <2>1. PICK exp \in Nat : exp = IF Active(s) THEN store[s].paid ELSE now + 1
    BY <1>1
  <2>2. /\ Post("INITIAL_PURCHASE", s, exp)
        /\ store' = [store EXCEPT ![s] = [paid |-> exp, auto |-> TRUE, live |-> TRUE]]
    BY <1>8, <2>1 DEF Purchase
  <2>3. Runs(s, exp)' /\ \A u \in Subscribers \ {s} : store'[u] = store[u]
    BY <1>1, <2>2 DEF Runs
  <2> QED
    BY <1>1, <1>2, <2>2, <2>3, PostRows
<1> QED
  BY <1>3, <1>4, <1>5, <1>6, <1>7, <1>8

\* An event is applied in its turn: it is the last one its user has.
LEMMA ApplyRows ==
  ASSUME TypeOK, ClaimInv, OrderInv, LastInv, RowInv, SubscribersAssumption,
         NEW h \in Handlers, ApplyEvent(h)
  PROVE  LastInv' /\ RowInv'
<1>1. UNCHANGED storeVars
  BY DEF ApplyEvent
<1>2. LastInv'
  BY <1>1 DEF LastInv, IsLast, Runs, Away, storeVars
<1>3. RowInv'
  <2> SUFFICES ASSUME NEW u \in Users, Premium(u)',
                      \A i \in DOMAIN sent : sent[i].subscriber = u => i \in applied'
               PROVE  Runs(u, row'[u].exp) \/ Away(u) \/ DateMissing(u)
    BY <1>1 DEF RowInv, Runs, Away, DateMissing, storeVars
  <2> DEFINE e == Held(h)
  <2>1. hand[h].pc = "apply" /\ e \in DOMAIN sent /\ e \notin applied
    BY DEF ApplyEvent, TypeOK, ClaimInv, Held
  <2>2. CASE sent[e].subscriber = u
    <3>1. /\ applied' = applied \cup {e}
          /\ row'[u] = EffectOn(row[u], sent[e])
      BY <2>2 DEF ApplyEvent, Held, TypeOK
    <3>2. \A i \in applied : i < e
      BY <2>1, <2>2 DEF OrderInv
    <3>3. e \in Nat /\ applied \subseteq DOMAIN sent /\ \A j \in DOMAIN sent : j \in Nat
      BY <2>1 DEF TypeOK
    <3>4. IsLast(e)
      BY <2>2, <3>1, <3>2, <3>3 DEF IsLast
    <3>5. /\ row'[u].tier = "premium" /\ row'[u].exp > now
      BY <1>1 DEF Premium, storeVars
    <3>d. CASE sent[e].date # "given"
      BY <2>1, <2>2, <3>d DEF DateMissing
    <3>6. ASSUME sent[e].date = "given"
          PROVE  /\ row'[u].exp = sent[e].exp
                 /\ \/ sent[e].type \in GrantTypes
                    \/ sent[e].type = "CANCELLATION" /\ sent[e].exp > now
      <4>1. row[u] \in [tier : {"free", "premium"}, exp : Nat]
        BY DEF TypeOK
      <4>2. CASE sent[e].type \in Grants
        BY <3>1, <3>6, <4>2 DEF EffectOn, ParseExpiration, GrantTypes, Grants
      <4>3. CASE sent[e].type = "TRANSFER"
        BY <3>1, <3>5, <3>6, <4>1, <4>3
        DEF EffectOn, TransferEffect, ParseExpiration, GrantTypes, Grants
      <4>4. CASE sent[e].type = "CANCELLATION"
        BY <3>1, <3>5, <3>6, <4>1, <4>4
        DEF EffectOn, CancelEffect, Remains, ParseExpiration, GrantTypes, Grants
      <4>5. CASE sent[e].type \notin Grants \cup {"TRANSFER", "CANCELLATION"}
        BY <3>1, <3>5, <4>1, <4>5 DEF EffectOn
      <4> QED
        BY <4>2, <4>3, <4>4, <4>5
    <3>7. CASE sent[e].date = "given"
      <4>1. Runs(sent[e].subscriber, sent[e].exp) \/ Away(sent[e].subscriber)
        BY <2>1, <3>4, <3>6, <3>7 DEF LastInv
      <4> QED
        BY <2>2, <3>6, <3>7, <4>1
    <3> QED
      BY <3>d, <3>7
  <2>3. CASE sent[e].subscriber # u
    <3>1. row'[u] = row[u] /\ applied' \subseteq applied \cup {e}
      BY <2>3 DEF ApplyEvent, Held, TypeOK
    <3>2. Premium(u)
      BY <1>1, <3>1 DEF Premium, storeVars
    <3>3. \A i \in DOMAIN sent : sent[i].subscriber = u => i \in applied
      BY <2>3, <3>1
    <3> QED
      BY <3>1, <3>2, <3>3 DEF RowInv
  <2> QED
    BY <2>2, <2>3
<1> QED
  BY <1>2, <1>3

\* The last events and the rows of the users keep saying what the store says.
LEMMA RowsStep ==
  ASSUME OneByOne, SubscribersAssumption, TypeOK, ClaimInv, OrderInv, LastInv, RowInv,
         WriteInv, [Next]_vars
  PROVE  LastInv' /\ RowInv'
<1>1. ASSUME NEW s \in Subscribers,
             \/ Renew(s) \/ SetAutoRenew(s) \/ Refund(s) \/ Lapse(s)
             \/ \E t \in Subscribers : Transfer(s, t)
             \/ \E c \in Clients : Purchase(c, s)
      PROVE  LastInv' /\ RowInv'
  BY <1>1, StoreRows
<1>2. CASE Tick
  <2>1. now' = now + 1 /\ now \in Nat /\ UNCHANGED <<store, sent, applied, row>>
    BY <1>2 DEF Tick, TypeOK, serverVars
  <2>2. \A i \in DOMAIN sent : sent[i] \in Event
    BY DEF TypeOK
  <2>3. \A i \in DOMAIN sent : sent[i].exp \in Nat
    BY <2>2 DEF Event
  <2>4. \A u \in Users : row[u].exp \in Nat
    BY DEF TypeOK
  <2>5. \A x \in Nat : x > now + 1 => x > now
    BY <2>1
  <2>6. LastInv'
    BY <2>1, <2>3, <2>5 DEF LastInv, IsLast, Runs, Away
  <2>7. \A u \in Users : Premium(u)' => Premium(u)
    BY <2>1, <2>4, <2>5 DEF Premium
  <2>8. RowInv'
    BY <2>1, <2>7 DEF RowInv, Runs, Away, DateMissing
  <2> QED
    BY <2>6, <2>8
<1>3. ASSUME NEW h \in Handlers, ApplyEvent(h)
      PROVE  LastInv' /\ RowInv'
  BY <1>3, ApplyRows
<1>4. ASSUME NEW c \in Clients, WriteEntitlement(c)
      PROVE  LastInv' /\ RowInv'
  <2>1. /\ UNCHANGED <<now, store, sent, applied>> /\ client[c].pc = "write"
        /\ \E exp \in Nat : row' = [row EXCEPT ![Owner[c]] = [tier |-> "premium", exp |-> exp]]
    <3>1. now + Year \in Nat /\ client[c].exp \in Nat
      BY ModesAssumption DEF TypeOK
    <3> QED
      BY <1>4, <3>1 DEF WriteEntitlement, storeVars, serverVars
  <2>2. LastInv'
    BY <2>1 DEF LastInv, IsLast, Runs, Away
  <2>3. \/ Runs(Owner[c], client[c].exp) /\ client[c].exp > now
        \/ DateMissing(Owner[c])
    BY <2>1 DEF WriteInv
  <2>4. \A u \in Users \ {Owner[c]} : row'[u] = row[u]
    BY <2>1 DEF TypeOK
  <2>6. client[c].exp > now => row'[Owner[c]].exp = client[c].exp
    <3>1. ASSUME client[c].exp > now PROVE row'[Owner[c]].exp = client[c].exp
      <4>1. client[c].exp # 0
        BY <3>1 DEF TypeOK
      <4> QED
        BY <1>4, <4>1 DEF WriteEntitlement, TypeOK, SubscribersAssumption
    <3> QED
      BY <3>1
  <2>5. RowInv'
    <3> SUFFICES ASSUME NEW u \in Users, Premium(u)',
                        \A i \in DOMAIN sent : sent[i].subscriber = u => i \in applied
                 PROVE  Runs(u, row'[u].exp) \/ Away(u) \/ DateMissing(u)
      BY <2>1 DEF RowInv, Runs, Away, DateMissing
    <3>1. CASE u = Owner[c]
      BY <2>3, <2>6, <3>1
    <3>2. CASE u # Owner[c]
      BY <2>1, <2>4, <3>2 DEF RowInv, Premium
    <3> QED
      BY <3>1, <3>2
  <2> QED
    BY <2>2, <2>5
<1>5. CASE UNCHANGED <<now, store, sent, applied, row>>
  BY <1>5 DEF LastInv, RowInv, IsLast, Runs, Away, DateMissing, Premium
<1>6. ASSUME UNCHANGED <<applied, row>>
      PROVE  \/ UNCHANGED storeVars \/ Tick
             \/ \E s \in Subscribers :
                   \/ Renew(s) \/ SetAutoRenew(s) \/ Refund(s) \/ Lapse(s)
                   \/ \E t \in Subscribers : Transfer(s, t)
                   \/ \E c \in Clients : Purchase(c, s)
  <2>1. CASE \E h \in Handlers : Deliver(h) \/ Work(h) \/ RequestFails(h)
    BY <2>1, WebhookFrame
  <2>2. CASE \E c \in Clients : \/ Preflight(c) \/ Ask(c) \/ FailClosed(c) \/ FailOpen(c)
                                \/ GiveUp(c) \/ Finalize(c) \/ RestartApp(c) \/ DropSnapshot(c)
    BY <2>2, PaywallFrame
  <2>3. CASE Crash \/ PurgeClaims \/ (\E u \in Users : AnswerExpires(u)) \/ UNCHANGED vars
    BY <2>3 DEF Crash, PurgeClaims, AnswerExpires, vars
  <2> QED
    BY <2>1, <2>2, <2>3 DEF Next, StoreStep
<1> QED
  BY <1>1, <1>2, <1>3, <1>4, <1>5, <1>6, RowStep DEF storeVars

\* With one event at a time, no change while a purchase is being finished, and no
\* lost transaction, the parts that UnpaidIsFree follows from are invariants.
THEOREM RowsFollowStore ==
  ASSUME OneByOne
  PROVE  Spec => [](OrderInv /\ LastInv /\ RowInv /\ WriteInv)
<1>1. Init => OrderInv /\ LastInv /\ RowInv /\ WriteInv
  BY DEF Init, OrderInv, LastInv, RowInv, WriteInv, Premium, Idle, Closed
<1>2. /\ IInv /\ (OrderInv /\ LastInv /\ RowInv /\ WriteInv) /\ [Next]_vars
      => (OrderInv /\ LastInv /\ RowInv /\ WriteInv)'
  <2> SUFFICES ASSUME IInv, OrderInv, LastInv, RowInv, WriteInv, [Next]_vars
               PROVE  (OrderInv /\ LastInv /\ RowInv /\ WriteInv)'
    OBVIOUS
  <2>1. TypeOK /\ ClaimInv
    BY DEF IInv
  <2>2. OrderInv'
    BY <2>1, OrderStep
  <2>3. WriteInv'
    BY <2>1, SubscribersAssumption, WriteStep
  <2>4. LastInv' /\ RowInv'
    BY <2>1, SubscribersAssumption, RowsStep
  <2> QED
    BY <2>2, <2>3, <2>4
<1> QED
  BY <1>1, <1>2, Inductive, PTL DEF Spec

\* UnpaidIsFree: handleRevenueCatEvent and syncFromRc leave nobody premium without a
\* running subscription, a transfer to another account and an event without a usable
\* expiry excepted.
THEOREM UnpaidFree == ASSUME OneByOne PROVE Spec => []UnpaidIsFree
<1>1. IInv /\ OrderInv /\ RowInv => UnpaidIsFree
  <2> SUFFICES ASSUME TypeOK, OrderInv, RowInv, Quiet, NEW u \in Users, Premium(u)
               PROVE  Active(u) \/ Away(u) \/ DateMissing(u)
    BY DEF UnpaidIsFree, Away, IInv
  <2>1. \A i \in DOMAIN sent : sent[i].subscriber = u => i \in applied
    BY DEF OrderInv, Quiet
  <2>2. Runs(u, row[u].exp) \/ Away(u) \/ DateMissing(u)
    BY <2>1 DEF RowInv
  <2> QED
    BY <2>2 DEF Runs, Active, Premium
<1> QED
  BY <1>1, Inductive, RowsFollowStore, PTL
=============================================================================
