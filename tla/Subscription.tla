---------------------------- MODULE Subscription ----------------------------
(***************************************************************************)
(* Paid subscriptions: the RevenueCat webhook with its deduplication table *)
(* and its effect on the user row, the purchase preflight with its cached  *)
(* RevenueCat answer, the direct synchronisation                           *)
(* (subscription/subscription.service.ts), and the paywall that drives the *)
(* last two (components/PaywallModal.tsx).                                 *)
(*                                                                         *)
(* Google Play and RevenueCat are external: they keep the true             *)
(* subscription, they post an event for every change of it, and they post  *)
(* an event again until it is answered with a 2xx.  Time counts billing    *)
(* periods; requests and cache entries live for seconds, within a period.  *)
(* The 'premium:<id>' cache entries are left out: no route reads them.     *)
(***************************************************************************)
EXTENDS Integers, Sequences, FiniteSets

CONSTANTS
  Users,         \* the rows of the users table
  Anon,          \* the subscribers RevenueCat knows only as $RCAnonymousID
  Clients,       \* the devices on which the app runs
  Owner,         \* the user logged in on each device
  Handlers,      \* webhook requests the server works on at once
  PhantomUsers,  \* users whose subscriber has a $deleted_at older than the row
  StoreMoves,    \* what may happen to a subscription after its purchase
  Overlap,       \* may it happen while the app is finishing a purchase?
  InOrder,       \* are events posted one after the other, in order?
  FaultKinds,    \* which faults occur
  Dates,         \* how the expiry of an event may reach the server
  Year,          \* the billing periods of a year
  MaxFaults, MaxEvents, MaxTime   \* bounds

Subscribers == Users \cup Anon
Moves  == {"renew", "autorenew", "refund", "transfer"}
Faults == {"database", "reply", "crash", "revenuecat", "network", "alias", "app"}

ASSUME SubscribersAssumption ==
  /\ Users \cap Anon = {}
  /\ Owner \in [Clients -> Users]
  /\ PhantomUsers \subseteq Users
ASSUME ModesAssumption ==
  /\ StoreMoves \subseteq Moves /\ FaultKinds \subseteq Faults
  /\ Overlap \in BOOLEAN /\ InOrder \in BOOLEAN
  /\ {"given"} \subseteq Dates /\ Dates \subseteq {"given", "missing", "invalid"}
  /\ Year \in Nat \ {0}
  /\ MaxFaults \in Nat /\ MaxEvents \in Nat /\ MaxTime \in Nat

VARIABLES
  now,        \* the current billing period
  store,      \* per subscriber: paid until when, renewed automatically, live
  sent,       \* every event RevenueCat has posted; its index is its event.id
  pending,    \* the events it has no 2xx for
  hand,       \* the webhook requests in progress
  processed,  \* the rows of processed_webhook_events
  row,        \* users.subscriptionTier and users.subscriptionExpiresAt
  cache,      \* preflight:rc:<id>, "none", "active" or "inactive"
  client,     \* the paywall of each device
  snapshot,   \* the devices on which rcEntitlement gives premium
  applied,    \* history: the events whose update of the row was committed
  faults      \* counted for the bound only

storeVars  == <<now, store, sent>>
serverVars == <<pending, hand, processed, applied>>
clientVars == <<client, snapshot>>
vars == <<storeVars, serverVars, row, cache, clientVars, faults>>

Grants   == {"INITIAL_PURCHASE", "RENEWAL", "UNCANCELLATION"}
GrantTypes == Grants \cup {"TRANSFER"}
Types    == GrantTypes \cup {"CANCELLATION", "EXPIRATION"}
\* exp is when the period ends; date says whether expiration_at_ms says so, is
\* missing, or is invalid (no number, not positive, more than five years ahead).
Event    == [type : Types, subscriber : Subscribers, exp : Nat, date : Dates]
Idle     == [pc |-> "idle", ev |-> 0]
Closed   == [pc |-> "closed", exp |-> 0]

Active(s)  == store[s].live /\ store[s].paid > now   \* an RC entitlement
Lapsed(s)  == store[s].live /\ store[s].paid <= now
\* isUserPremium
Premium(u) == row[u].tier = "premium" /\ row[u].exp > now

Init ==
  /\ now = 0
  /\ store = [s \in Subscribers |-> [paid |-> 0, auto |-> FALSE, live |-> FALSE]]
  /\ sent = <<>> /\ pending = {}
  /\ hand = [h \in Handlers |-> Idle]
  /\ processed = {} /\ applied = {}
  /\ row = [u \in Users |-> [tier |-> "free", exp |-> 0]]
  /\ cache = [u \in Users |-> "none"]
  /\ client = [c \in Clients |-> Closed]
  /\ snapshot = {}
  /\ faults = 0

\* Faults are bounded together with the events that have no usable expiry.
MayFail == faults + Cardinality({i \in DOMAIN sent : sent[i].date # "given"}) < MaxFaults
Fault(kind) == kind \in FaultKinds /\ MayFail /\ faults' = faults + 1
-----------------------------------------------------------------------------
\* Google Play and RevenueCat.

\* The date of an EXPIRATION is not read.
Post(type, s, exp) ==
  /\ Len(sent) < MaxEvents
  /\ \E date \in Dates :
       /\ date # "given" => type # "EXPIRATION" /\ MayFail
       /\ sent' = Append(sent, [type |-> type, subscriber |-> s, exp |-> exp,
                                date |-> date])
  /\ pending' = pending \cup {Len(sent) + 1}
  /\ UNCHANGED <<now, hand, processed, applied>>

InPreflight(c) == client[c].pc \in {"cache", "revenuecat", "save", "buy"}
Finishing(c)   == client[c].pc \in {"sync", "resync", "write", "drop", "poll"}
\* A change made outside the app, in Google Play or by its support.
Outside(move, s) ==
  /\ move \in StoreMoves
  /\ Overlap \/ \A c \in Clients : ~Finishing(c)
  /\ UNCHANGED <<row, cache, clientVars, faults>>

\* The renewal is charged in the last period that is paid for.
Renew(s) ==
  /\ Outside("renew", s)
  /\ Active(s) /\ store[s].auto /\ store[s].paid = now + 1
  /\ store' = [store EXCEPT ![s].paid = @ + 1]
  /\ Post("RENEWAL", s, store[s].paid + 1)

SetAutoRenew(s) ==
  /\ Outside("autorenew", s)
  /\ Active(s)
  /\ store' = [store EXCEPT ![s].auto = ~@]
  /\ Post(IF store[s].auto THEN "CANCELLATION" ELSE "UNCANCELLATION",
          s, store[s].paid)

Ended == [paid |-> 0, auto |-> FALSE, live |-> FALSE]

Refund(s) ==
  /\ Outside("refund", s)
  /\ Active(s)
  /\ store' = [store EXCEPT ![s] = Ended]
  /\ Post("CANCELLATION", s, now)

\* Account t restores the purchase of account s: the entitlement moves to it.
\* Its own paywall does so (handleRestore), and remembers the entitlement.
Transfer(s, t) ==
  /\ "transfer" \in StoreMoves
  /\ Overlap \/ \A c \in Clients : ~Finishing(c)
  /\ \A c \in Clients : Owner[c] = t => client[c] = Closed
  /\ s # t /\ Active(s) /\ ~store[t].live
  /\ store' = [store EXCEPT ![t] = store[s], ![s] = Ended]
  /\ snapshot' = snapshot \cup {c \in Clients : Owner[c] = t}
  /\ Post("TRANSFER", t, store[s].paid)
  /\ UNCHANGED <<row, cache, client, faults>>

\* EXPIRATION, or BILLING_ISSUE, which the code treats alike.
Lapse(s) ==
  /\ Lapsed(s)
  /\ store' = [store EXCEPT ![s] = Ended]
  /\ Post("EXPIRATION", s, store[s].paid)
  /\ UNCHANGED <<row, cache, clientVars, faults>>

\* The next period begins.  Cached answers (30 s) and preflights are over.
Tick ==
  /\ now < MaxTime
  /\ \A s \in Subscribers : ~Lapsed(s)
  /\ \A c \in Clients : ~InPreflight(c) /\ ~Finishing(c)
  /\ now' = now + 1
  /\ cache' = [u \in Users |-> "none"]
  /\ UNCHANGED <<store, sent, serverVars, row, clientVars, faults>>
-----------------------------------------------------------------------------
\* The webhook: handleRevenueCatEvent.

Step(h, pc) == hand' = [hand EXCEPT ![h].pc = pc]
Leave(h)    == hand' = [hand EXCEPT ![h] = Idle]

Deliver(h) ==
  /\ hand[h] = Idle
  /\ InOrder => \A k \in Handlers : hand[k] = Idle
  /\ \E e \in pending :
       /\ InOrder => \A d \in pending : e <= d
       /\ hand' = [hand EXCEPT ![h] = [pc |-> "claim", ev |-> e]]
  /\ UNCHANGED <<storeVars, pending, processed, applied, row, cache, clientVars,
                 faults>>

\* Slip: the number of inserted rows is not looked at.
ClaimUnchecked(h) ==
  /\ hand[h].pc = "claim" /\ Step(h, "apply")
  /\ processed' = processed \cup {hand[h].ev}
  /\ UNCHANGED <<storeVars, pending, applied, row, cache, clientVars, faults>>

\* Slip: a duplicate is refused instead of acknowledged.
ClaimRefused(h) ==
  /\ hand[h].pc = "claim"
  /\ IF hand[h].ev \in processed THEN Leave(h) ELSE Step(h, "apply")
  /\ processed' = processed \cup {hand[h].ev}
  /\ UNCHANGED <<storeVars, pending, applied, row, cache, clientVars, faults>>

\* INSERT ... ON CONFLICT DO NOTHING: no new row means "already processed".
ClaimEvent(h) ==
  /\ hand[h].pc = "claim"
  /\ Step(h, IF hand[h].ev \in processed THEN "answer" ELSE "apply")
  /\ processed' = processed \cup {hand[h].ev}
  /\ UNCHANGED <<storeVars, pending, applied, row, cache, clientVars, faults>>

\* Slip: a date that is ahead counts as one that is too far ahead.
ParseTooStrict(ev) ==
  IF ev.date = "given" /\ ev.exp <= now THEN ev.exp ELSE now + Year

\* parseExpirationAt: a date that is missing or invalid becomes a year from now.
ParseExpiration(ev) == IF ev.date = "given" THEN ev.exp ELSE now + Year

\* CANCELLATION and TRANSFER take a missing date for one that is over.
Remains(ev) == ev.date # "missing" /\ ParseExpiration(ev) > now

\* CANCELLATION: premium to the end of the period, or not at all.
CancelEffect(r, ev) ==
  IF Remains(ev) THEN [r EXCEPT !.exp = ParseExpiration(ev)]
                 ELSE [r EXCEPT !.tier = "free"]

\* handleTransferEvent, for the user it names in transferred_to.
TransferEffect(r, ev) ==
  IF Remains(ev) THEN [tier |-> "premium", exp |-> ParseExpiration(ev)]
                 ELSE [r EXCEPT !.tier = "free"]

\* Slip: turning the renewal off ends the period that is paid for.
EffectCancelsAtOnce(r, ev) ==
  CASE ev.type \in Grants -> [tier |-> "premium", exp |-> ParseExpiration(ev)]
    [] ev.type = "TRANSFER" -> TransferEffect(r, ev)
    [] OTHER -> [r EXCEPT !.tier = "free"]

\* Slip: a refund is taken for a cancellation at the end of the period.
EffectIgnoresRefund(r, ev) ==
  CASE ev.type \in Grants -> [tier |-> "premium", exp |-> ParseExpiration(ev)]
    [] ev.type = "TRANSFER" -> TransferEffect(r, ev)
    [] ev.type = "CANCELLATION" -> r
    [] OTHER -> [r EXCEPT !.tier = "free"]

\* The user row the event leads to; EXPIRATION and BILLING_ISSUE end premium
\* whatever period the row is paid for.
EffectOn(r, ev) ==
  CASE ev.type \in Grants -> [tier |-> "premium", exp |-> ParseExpiration(ev)]
    [] ev.type = "TRANSFER" -> TransferEffect(r, ev)
    [] ev.type = "CANCELLATION" -> CancelEffect(r, ev)
    [] OTHER -> [r EXCEPT !.tier = "free"]

\* An event for a subscriber who is no user is dropped; it stays claimed.
ApplyEvent(h) ==
  /\ hand[h].pc = "apply"
  /\ LET ev == sent[hand[h].ev]
         u  == ev.subscriber
     IN  IF u \in Users
         THEN /\ row' = [row EXCEPT ![u] = EffectOn(row[u], ev)]
              /\ applied' = applied \cup {hand[h].ev}
              /\ Step(h, IF ev.type \in Grants THEN "forget" ELSE "answer")
         ELSE Step(h, "answer") /\ UNCHANGED <<row, applied>>
  /\ UNCHANGED <<storeVars, pending, processed, cache, clientVars, faults>>

\* A granted period drops the cached RevenueCat answer of the preflight.
ForgetAnswer(h) ==
  /\ hand[h].pc = "forget"
  /\ cache' = [cache EXCEPT ![sent[hand[h].ev].subscriber] = "none"]
  /\ Step(h, "answer")
  /\ UNCHANGED <<storeVars, pending, processed, applied, row, clientVars, faults>>

Answer(h) ==
  /\ hand[h].pc = "answer"
  /\ pending' = pending \ {hand[h].ev}
  /\ Leave(h)
  /\ UNCHANGED <<storeVars, processed, applied, row, cache, clientVars, faults>>

\* A statement fails (the claim, the lookup and update of the user, the
\* backfill of the claim) and the request ends in a 5xx; or the 2xx is lost.
RequestFails(h) ==
  /\ \/ hand[h].pc \in {"claim", "apply", "answer"} /\ Fault("database")
     \/ hand[h].pc = "answer" /\ Fault("reply")
  /\ Leave(h)
  /\ UNCHANGED <<storeVars, pending, processed, applied, row, cache, clientVars>>

Crash ==
  /\ Fault("crash")
  /\ hand' = [h \in Handlers |-> Idle]
  /\ UNCHANGED <<storeVars, pending, processed, applied, row, cache, clientVars>>

\* The daily purge keeps 30 days; RevenueCat gives an event up after 7.
PurgeClaims ==
  /\ processed' = {e \in processed :
                     e \in pending \/ \E h \in Handlers : hand[h].ev = e}
  /\ processed' # processed
  /\ UNCHANGED <<storeVars, pending, hand, applied, row, cache, clientVars, faults>>
-----------------------------------------------------------------------------
\* preflightPurchase, as called by the paywall of device c.

Go(c, pc) == client' = [client EXCEPT ![c].pc = pc]
Close(c)  == client' = [client EXCEPT ![c] = Closed]

\* Layer 2: an active entitlement blocks, unless it is a phantom of a deleted
\* account.
Decide(c, answer) ==
  IF answer = "active" /\ Owner[c] \notin PhantomUsers THEN Close(c)
                                                       ELSE Go(c, "buy")

\* The paywall opens while the app shows no premium; layer 1: the user row.
Preflight(c) ==
  /\ client[c] = Closed /\ c \notin snapshot
  /\ ~Premium(Owner[c])
  /\ Go(c, "cache")
  /\ UNCHANGED <<storeVars, serverVars, row, cache, snapshot, faults>>

ReadAnswer(c) ==
  /\ client[c].pc = "cache"
  /\ IF cache[Owner[c]] = "none" THEN Go(c, "revenuecat")
                                 ELSE Decide(c, cache[Owner[c]])
  /\ UNCHANGED <<storeVars, serverVars, row, cache, snapshot, faults>>

\* Slip: the error of RevenueCat is read as "no entitlement".
AskOptimistic(c) ==
  /\ client[c].pc = "revenuecat"
  /\ client' = [client EXCEPT ![c] = [pc |-> "save", exp |-> 0]]
  /\ UNCHANGED <<storeVars, serverVars, row, cache, snapshot, faults>>

\* The answer is kept in client[c].exp until it is cached: 1 if active.
AskRevenueCat(c) ==
  /\ client[c].pc = "revenuecat"
  /\ client' = [client EXCEPT ![c] =
                  [pc |-> "save", exp |-> IF Active(Owner[c]) THEN 1 ELSE 0]]
  /\ UNCHANGED <<storeVars, serverVars, row, cache, snapshot, faults>>

SaveAnswer(c) ==
  LET answer == IF client[c].exp = 1 THEN "active" ELSE "inactive"
  IN  /\ client[c].pc = "save"
      /\ cache' = [cache EXCEPT ![Owner[c]] = answer]
      /\ Decide(c, answer)
      /\ UNCHANGED <<storeVars, serverVars, row, snapshot, faults>>

\* RevenueCat is down: 'verification_unavailable'.
FailClosed(c) ==
  /\ client[c].pc = "revenuecat" /\ Fault("revenuecat")
  /\ Close(c)
  /\ UNCHANGED <<storeVars, serverVars, row, cache, snapshot>>

\* The preflight request itself fails: the paywall goes on to buy.
FailOpen(c) ==
  /\ client[c].pc \in {"cache", "revenuecat", "save"} /\ Fault("network")
  /\ Go(c, "buy")
  /\ UNCHANGED <<storeVars, serverVars, row, cache, snapshot>>

\* 30 s have passed since the answer was cached.
AnswerExpires(u) ==
  /\ cache[u] # "none"
  /\ cache' = [cache EXCEPT ![u] = "none"]
  /\ UNCHANGED <<storeVars, serverVars, row, clientVars, faults>>
-----------------------------------------------------------------------------
\* handlePurchase and finalizePurchase.

GiveUp(c) ==
  /\ client[c].pc = "buy"
  /\ Close(c)
  /\ UNCHANGED <<storeVars, serverVars, row, cache, snapshot, faults>>

\* Google Play charges the user; RevenueCat attributes the purchase to the
\* user, or to an anonymous subscriber when its SDK has lost the login.  markPremium
\* remembers what RevenueCat says on the device, if it says anything.
Purchase(c, s) ==
  /\ client[c].pc = "buy"
  /\ ~Lapsed(s)
  /\ \/ s = Owner[c] /\ UNCHANGED faults
     \/ s \in Anon /\ Fault("alias")
  /\ LET until == IF Active(s) THEN store[s].paid ELSE now + 1
     IN  /\ store' = [store EXCEPT ![s] =
                        [paid |-> until, auto |-> TRUE, live |-> TRUE]]
         /\ Post("INITIAL_PURCHASE", s, until)
  /\ Go(c, "sync")
  /\ snapshot' = snapshot \cup {c}
  /\ UNCHANGED <<row, cache>>

\* The snapshot was never set, for RevenueCat showed nothing active; its time is
\* over; or the listener or the return to the foreground cleared it, or overwrote
\* its source with one that yields to a profile that still says "free".
DropSnapshot(c) ==
  /\ c \in snapshot
  /\ snapshot' = snapshot \ {c}
  /\ UNCHANGED <<storeVars, serverVars, row, cache, client, faults>>

\* RevenueCat names no expiry to the server for a user whose events had none.
DateMissing(u) == \E i \in DOMAIN sent : /\ sent[i].subscriber = u
                                        /\ sent[i].date # "given"

\* syncFromRc: RevenueCat is asked for the active entitlement; an expires_date of
\* null, kept as 0, is one without end ...
SyncFromRc(c) ==
  /\ client[c].pc \in {"sync", "resync"} /\ Active(Owner[c])
  /\ \E exp \in {store[Owner[c]].paid}
               \cup (IF DateMissing(Owner[c]) THEN {0} ELSE {}) :
       client' = [client EXCEPT ![c] = [pc |-> "write", exp |-> exp]]
  /\ UNCHANGED <<storeVars, serverVars, row, cache, snapshot, faults>>

\* ... and the row is overwritten with the answer, or with a year from now.
WriteEntitlement(c) ==
  /\ client[c].pc = "write"
  /\ LET exp == IF client[c].exp = 0 THEN now + Year ELSE client[c].exp
     IN  row' = [row EXCEPT ![Owner[c]] = [tier |-> "premium", exp |-> exp]]
  /\ client' = [client EXCEPT ![c] = [pc |-> "drop", exp |-> 0]]
  /\ UNCHANGED <<storeVars, serverVars, cache, snapshot, faults>>

DropAnswer(c) ==
  /\ client[c].pc = "drop"
  /\ cache' = [cache EXCEPT ![Owner[c]] = "none"]
  /\ Close(c)
  /\ UNCHANGED <<storeVars, serverVars, row, snapshot, faults>>

\* Not synced: after the first attempt poll the server, after the second close
\* the paywall all the same.
NotSynced(c) ==
  /\ client[c].pc \in {"sync", "resync"}
  /\ \/ ~Active(Owner[c]) /\ UNCHANGED faults
     \/ Fault("revenuecat")
  /\ IF client[c].pc = "sync" THEN Go(c, "poll") ELSE Close(c)
  /\ UNCHANGED <<storeVars, serverVars, row, cache, snapshot>>

\* pollSubscriptionStatus sees premium, or gives up after five attempts.
PollConfirms(c) ==
  /\ client[c].pc = "poll" /\ Premium(Owner[c])
  /\ Close(c)
  /\ UNCHANGED <<storeVars, serverVars, row, cache, snapshot, faults>>

PollTimesOut(c) ==
  /\ client[c].pc = "poll"
  /\ Go(c, "resync")
  /\ UNCHANGED <<storeVars, serverVars, row, cache, snapshot, faults>>

\* The app is killed and started again: the snapshot is gone.  What the server
\* is already writing for it is written.
RestartApp(c) ==
  /\ Fault("app")
  /\ client[c].pc \notin {"save", "write", "drop"}
  /\ Close(c)
  /\ snapshot' = snapshot \ {c}
  /\ UNCHANGED <<storeVars, serverVars, row, cache>>
-----------------------------------------------------------------------------
StoreStep ==
  \/ Tick
  \/ \E s \in Subscribers : \/ Renew(s) \/ SetAutoRenew(s) \/ Refund(s) \/ Lapse(s)
                            \/ \E t \in Subscribers : Transfer(s, t)

Work(h) == ClaimEvent(h) \/ ApplyEvent(h) \/ ForgetAnswer(h) \/ Answer(h)

Ask(c) == ReadAnswer(c) \/ AskRevenueCat(c) \/ SaveAnswer(c)

Finalize(c) == \/ SyncFromRc(c) \/ WriteEntitlement(c) \/ DropAnswer(c)
               \/ NotSynced(c) \/ PollConfirms(c) \/ PollTimesOut(c)

Next ==
  \/ StoreStep
  \/ \E h \in Handlers : Deliver(h) \/ Work(h) \/ RequestFails(h)
  \/ Crash \/ PurgeClaims
  \/ \E c \in Clients : \/ Preflight(c) \/ Ask(c) \/ FailClosed(c) \/ FailOpen(c)
                        \/ GiveUp(c) \/ Finalize(c) \/ RestartApp(c) \/ DropSnapshot(c)
                        \/ \E s \in Subscribers : Purchase(c, s)
  \/ \E u \in Users : AnswerExpires(u)

Spec == Init /\ [][Next]_vars

\* The server works on the requests it has, RevenueCat posts an event until it
\* is answered, and the calls of the paywall return or time out.
FairSpec ==
  /\ Spec
  /\ \A h \in Handlers : WF_vars(Deliver(h)) /\ WF_vars(Work(h))
  /\ \A c \in Clients : WF_vars(Finalize(c))
-----------------------------------------------------------------------------
\* Invariants.

\* The set every variable is drawn from.
TypeOK ==
  /\ now \in Nat
  /\ store \in [Subscribers -> [paid : Nat, auto : BOOLEAN, live : BOOLEAN]]
  /\ sent \in Seq(Event)
  /\ pending \subseteq DOMAIN sent
  /\ hand \in [Handlers -> [pc : {"idle", "claim", "apply", "forget", "answer"},
                           ev : Nat]]
  /\ \A h \in Handlers : IF hand[h].pc = "idle" THEN hand[h].ev = 0
                                              ELSE hand[h].ev \in DOMAIN sent
  /\ processed \subseteq DOMAIN sent
  /\ applied \subseteq DOMAIN sent
  /\ row \in [Users -> [tier : {"free", "premium"}, exp : Nat]]
  /\ cache \in [Users -> {"none", "active", "inactive"}]
  /\ client \in [Clients -> [pc : {"closed", "cache", "revenuecat", "save", "buy",
                                  "sync", "resync", "write", "drop", "poll"},
                            exp : Nat]]
  /\ snapshot \subseteq Clients
  /\ faults \in Nat

Held(h) == hand[h].ev

\* The deduplication table works although the claim and the effect of an event
\* are two statements: whoever is about to apply an event has claimed it, is
\* alone with it, and the event has had no effect yet.  Events that may still
\* be posted again keep their claim.
ClaimInv ==
  /\ \A h \in Handlers : hand[h].pc \in {"apply", "forget", "answer"}
                           => Held(h) \in processed
  /\ \A h \in Handlers : hand[h].pc = "apply" => Held(h) \notin applied
  /\ \A h, k \in Handlers :
       h # k /\ hand[h].pc = "apply" /\ hand[k].pc = "apply" => Held(h) # Held(k)
  /\ \A e \in applied : e \in pending \/ (\E h \in Handlers : Held(h) = e)
                          => e \in processed

\* Some event grants u the time up to the period t.
Granted(u, t) ==
  \E i \in DOMAIN sent : /\ sent[i].subscriber = u
                         /\ sent[i].type \in GrantTypes
                         /\ sent[i].exp = t

\* What the store, an event and a synchronisation say was paid, was.
PaidInv ==
  /\ \A s \in Subscribers : store[s].live => Granted(s, store[s].paid)
  /\ \A i \in DOMAIN sent : sent[i].type = "CANCELLATION"
       => sent[i].exp <= now \/ Granted(sent[i].subscriber, sent[i].exp)
  /\ \A c \in Clients : client[c].pc = "write" =>
       \/ client[c].exp > 0 /\ Granted(Owner[c], client[c].exp)
       \/ client[c].exp = 0 /\ DateMissing(Owner[c])

\* However events are lost, repeated and reordered, and whatever a
\* synchronisation overwrites, a user is never premium for longer than a period
\* that was paid for by, or transferred to, that same user; where RevenueCat has
\* named no usable expiry to parseExpirationAt or syncFromRc, never for longer
\* than a year from now.
PremiumWasPaid ==
  \A u \in Users : row[u].tier = "premium" =>
    \/ Granted(u, row[u].exp)
    \/ DateMissing(u) /\ row[u].exp <= now + Year

\* The inductive invariant.
IInv == TypeOK /\ ClaimInv /\ PaidInv /\ PremiumWasPaid

\* What keeps a device from buying twice, whatever becomes of its snapshot: every
\* account is on one device, the preflight and the synchronisation are answered,
\* and the app is not started again in between.  Then an "inactive" that is out of
\* date is dropped before the paywall can be opened again, unless the account
\* became active by a transfer: handleRestore drops no cached answer.
BuysOnce ==
  /\ \A c, d \in Clients : Owner[c] = Owner[d] => c = d
  /\ \A c \in Clients : Owner[c] \notin PhantomUsers
  /\ FaultKinds \cap {"network", "app", "revenuecat"} = {}
Restored(u) ==
  \E i \in DOMAIN sent : sent[i].type = "TRANSFER" /\ sent[i].subscriber = u
BuyInv ==
  \A c \in Clients : Active(Owner[c]) /\ ~Restored(Owner[c]) =>
    /\ client[c].pc # "buy"
    /\ client[c].pc = "save" => client[c].exp = 1
    /\ cache[Owner[c]] = "inactive" => client[c].pc \in {"sync", "write", "drop"}

\* The conditions of SubSettles, and what makes its invariant inductive.
OneByOne == InOrder /\ ~Overlap /\ FaultKinds \cap {"database", "crash"} = {}

\* The requests work through the events in their order, and none is skipped.
OrderInv ==
  /\ \A h, k \in Handlers : hand[h].pc # "idle" /\ hand[k].pc # "idle" => h = k
  /\ \A h \in Handlers : hand[h].pc # "idle" =>
       Held(h) \in pending /\ \A d \in pending : Held(h) <= d
  /\ \A d \in DOMAIN sent \ applied : sent[d].subscriber \in Users =>
       /\ d \in pending
       /\ d \in processed => \E h \in Handlers : hand[h].pc = "apply" /\ Held(h) = d
       /\ \A e \in applied : e < d

\* The last event of a subscriber says what the store says, unless a transfer has
\* taken the subscription away; so does the row of a user without unapplied
\* events whose expiries all were usable, and so does a synchronisation under way.
Runs(s, t) == store[s].live /\ store[s].paid = t
Away(s)    == \E i \in DOMAIN sent : sent[i].type = "TRANSFER" /\ sent[i].subscriber # s
IsLast(i)  == \A j \in DOMAIN sent : sent[j].subscriber = sent[i].subscriber => j <= i
LastInv ==
  \A i \in DOMAIN sent :
    /\ IsLast(i)
    /\ sent[i].type \in GrantTypes \/ (sent[i].type = "CANCELLATION" /\ sent[i].exp > now)
    => Runs(sent[i].subscriber, sent[i].exp) \/ Away(sent[i].subscriber)
RowInv ==
  \A u \in Users :
    /\ \A i \in DOMAIN sent : sent[i].subscriber = u => i \in applied
    /\ Premium(u)
    => Runs(u, row[u].exp) \/ Away(u) \/ DateMissing(u)
WriteInv ==
  \A c \in Clients : client[c].pc = "write" =>
    \/ Runs(Owner[c], client[c].exp) /\ client[c].exp > now
    \/ DateMissing(Owner[c])

Quiet == /\ pending = {}
         /\ \A h \in Handlers : hand[h] = Idle
         /\ \A c \in Clients : client[c] = Closed

\* Once every event is answered and every purchase flow is over, nobody without a
\* running subscription is premium, unless it was transferred to somebody else
\* (handleTransferEvent never looks at transferred_from) or an event of the user
\* had no usable expiry (parseExpirationAt then grants a year).
UnpaidIsFree ==
  Quiet => \A u \in Users : Premium(u) =>
    \/ Active(u)
    \/ \E i \in DOMAIN sent : sent[i].type = "TRANSFER" /\ sent[i].subscriber # u
    \/ DateMissing(u)
-----------------------------------------------------------------------------
\* Properties of steps and of behaviours.

Charges(c) == client[c].pc = "buy" /\ client'[c].pc = "sync"

\* Nobody whose subscription is running is charged for another one: the dropping of
\* preflight:rc:<id> in the webhook and in syncFromRc is in time.  It is not in time
\* for a subscription that was restored within the 30 s of a cached answer.
NoDoubleCharge ==
  [][\A c \in Clients :
       Charges(c) => ~Active(Owner[c]) \/ Restored(Owner[c])]_vars

\* RevenueCat's retries come to an end: every event is answered.
EventsAnswered == \A i \in 1..MaxEvents : i \in pending ~> i \notin pending

\* A purchase reaches the user row, unless an event of the user comes without a
\* usable expiry: a CANCELLATION or TRANSFER without one makes the row "free".
PaidBecomesPremium ==
  \A u \in Users : Active(u) ~> Premium(u) \/ ~Active(u) \/ DateMissing(u)

\* The server implements a ledger that applies each event at most once, in one
\* step, to the row of its own subscriber.
Ledger == INSTANCE EntitlementLedger
ImplementsLedger == Ledger!Spec
-----------------------------------------------------------------------------
\* A claim of the documentation that the code does not keep.

\* subscription.service.ts:513 and docs/invariants/backend.md:3 say that the
\* claim of an event and its update are one transaction, so that no retry is
\* skipped without the user having been upgraded.
AnsweredMeansApplied ==
  \A i \in DOMAIN sent \ pending : sent[i].subscriber \in Users => i \in applied
=============================================================================
