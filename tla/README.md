# travelPlanner: verification project

TLA+ models of the parts of travelPlanner where ordering, failure and
concurrency decide whether the program is right, the TLC runs that check them,
and TLAPS proofs of what matters most. Paths are relative to the repository;
`backend/` stands for `backend/src/` and `frontend/` for `frontend/src/` below.

## 1. The system

A NestJS server (TypeORM over PostgreSQL, Redis as cache and token store) and a
React Native app. The server is one Node process: code between two `await`s is
atomic, anything may happen at an `await`, and a restart loses memory and keeps
the database and Redis. RevenueCat reports what happens to Google Play
subscriptions by webhook. `docs/invariants/*.md` lists 45 invariants the
authors hold the code to; several were written after races (logout, phantom
entitlements, double refunds) that came back several times.

| component | state | operations | what makes it right |
|---|---|---|---|
| Trip creation saga (`backend/trips/jobs.service.ts`, `trips.controller.ts`, `trips.service.ts` 120-810) | jobs in memory; `trips.aiStatus`, `quotaRefunded`, itineraries; `users.aiTripsUsedThisMonth` | start, poll, cancel a job; phases A, B, C; refund; failure mark; monthly reset | quota exact and never overrun, one refund at most, every job ends, a verdict is final |
| Subscription (`backend/subscription/*`, paywall in `frontend/`) | `users.subscriptionTier`, `subscriptionExpiresAt`; `processed_webhook_events`; preflight cache; paywall state | webhook, preflight, sync, purchase, poll, purge | each event acts once, nobody is premium unpaid or pays twice, retries end |
| Session (`backend/auth/auth.service.ts`, `frontend/services/api.ts`, `contexts/AuthContext.tsx`) | jti's in Redis; tokens on the device; refresh queue; logout lock; shown user | refresh, logout, 401 interceptor, login, profile refresh, deletion | the app never spends its own session, queued calls are answered, logged out stays logged out |
| Login guards (`auth.service.ts` 214-490, 640-940, 1064-1299) | attempt counters, one-time codes, backup codes | login, re-authentication, OAuth exchange, 2FA | limits hold under concurrency, codes work once |
| Accounts (`backend/users/users.service.ts`, `auth.service.ts` 90-210, 680-785) | users, e-mail codes, reset links, blacklist | register, verify, log in by OAuth, reset, delete, hourly cleanup | a code's attempts are bounded, nobody verifies, deletes or takes over the account of another, cleanup spares verified users |
| Trip editing, sharing, collaborators (`trips.service.ts` 810-1835) | trips, itineraries with a JSON column of activities, share tokens, roles | edit, reorder, share, invite, duplicate | requests that do not overlap act on one document, roles decide, what is over stays as it is |
| Trip status scheduler (`backend/trips/trip-status.scheduler.ts`) | `trips.status` | daily status job, status check on read | the status follows the dates |
| Shared expenses (`backend/expenses/expenses.service.ts`) | expenses, splits | create, update, settle, balances, transfers | shares add up, nobody owes twice, the transfers settle the debts |
| Offline queue (`frontend/services/offlineMutationQueue.ts`, `hooks/useOfflineSync.ts`) | stored list of mutations and its cached array | enqueue, flush, retries | no mutation lost, sent twice or given up early |
| Trip creation screen and polling client (`frontend/screens/trips/CreateTripScreen.tsx`, `services/api.ts` 545-700) | two guards, an AbortController, polls under way | create, poll, cancel, leave | the form comes back, one creation at a time, a cancelled one is not shown, every attempt ends |
| AI generation (`backend/trips/services/*`) | calls under way, templates, embeddings, usage log | generation in one call or by batches, fallback, template match, repair | every day of a trip gets a result or the call fails; a generation ends |
| Resilience (`backend/common/utils/resilience.ts`) | circuit breaker shared by the process | run, timeout, retry | state and count agree, an outage ends, one probe while half open |
| Notifications, social, admin, affiliate, places, mail, marketing | rows and counters | CRUD, counters, reports | counters match rows |
| Screens, navigation, translations, ads, scripts, proxy | none that matters here | | |

How they meet: the saga reads the tier and charges the counter on the user row
that the webhook also writes; a first purchase and the monthly job reset that
counter while trips run; deletion of an account removes the row the webhook, the
saga and the tokens hang on; every call of the app passes the interceptor; the
paywall waits for what the webhook or the direct synchronisation writes; the
app polls job status.

What is hard: steps between awaits (a lock row, a claim row, a deleted jti) that
a failure or another request separates; an event posted again, late or in
another order; a cancellation against the end of a run; answers that arrive
after a logout; a cached entitlement or profile that outlives what it describes.
`PROJECT.json` lists the hazards at their lines with the properties that cover
them.

## 2. Plan

Done, in this order:

1. `TripCreation`, abstract `AiTripOrder`, proofs in `TripCreationProofs`.
2. `Subscription`, abstract `EntitlementLedger`, proofs in `SubscriptionProofs`.
3. `Session`, proofs in `SessionProofs`.
4. `OfflineQueue`, proofs in `OfflineQueueProofs`.
5. `TripEdit` with the status scheduler, abstract `TripDocument`.
6. `Accounts`, proofs in `AccountsProofs`.
7. `Expenses` with the arithmetic in `Settlements`, proofs in `ExpensesProofs`.
8. `TripWizard`, proofs in `TripWizardProofs`.
9. `AiGeneration` with the circuit breaker, proofs in `AiGenerationProofs`.

Worth doing next: `RightfulChange` of `TripEdit` and its refinement of `TripDocument`
as theorems (both need that what a request read, if no other request has written
since, is what the rows hold, and that no save is reached without the check of the
role); the login guards and the counters of likes and follows as modules of their own.

## 3. Modules

### TripCreation

One identifier per request names its job, its run of `create` and its trip.
`pc` is the await at which the run is suspended; an action is what the event
loop runs from there to the next await. `CreateAsync`/`CreateSync` are the two
entry points, `CancelJob` and `CleanupJob` the job store, `Run(j)` the steps:
phase A with `SELECT ... FOR UPDATE`, limit check and increment in one
transaction; validation, geocoding, weather and AI with the cancellation checks
between them; phase C; the three compensations (`FlipRefundFlag`,
`DecrementAiTripCount`, `MarkTripFailed`), entered from the inner catch, the
empty-days fallback and the outer catch, which `frame` tells apart. `RemoveTrip`,
the savers, the monthly reset, purchase, expiry and `Restart` interleave everywhere.

A saver is a handler that loads the trip (`LoadTrip`) and saves the whole entity at
its end (`SaveTrip`): the status check of `findAll` and `findOne`
(trip-status.scheduler.ts:241-263), the daily job (43-75), `update`
(trips.service.ts:1005) and `generateShareToken` (1527). What it loaded, `copy`,
includes `aiStatus` and `quotaRefunded`, so its save may put both back. All but
`generateShareToken` load the itineraries too (`WholeSavers`): such a copy, loaded before
phase C, has none of those that phase C saves, TypeORM would take them out of the
trip, `itineraries."tripId"` is NOT NULL, and the save fails as a whole (`Orphans`).
So the list that is read while a trip is generated puts nothing back once the plan is
saved, but the share link does, and any saver does while the trip has no itineraries.
`stale` is history: the trips that a save put back. Every excuse of a property for
this is that variable; the properties say that the damage stays with those trips.

`ledger` is a history variable: what has happened to the quota unit of each
request, including the case that the counter was reset meanwhile
(`carried`, `lateRefund`, `closed`). `AiTripOrder` states the promise in six
actions, `Overwrite` among them, which is what a stale save does to an order; the
mapping reads orders off the rows.

Left out: a `COMMIT` whose outcome is unknown, deletion of the whole account
during a run, the contents of a plan. `CleanupJob` removes finished jobs only,
as a run takes less than the hour a job is kept. The premium limit is applied by
tier alone (trips.service.ts:300 does not look at the expiry), and so it is here.

### Subscription

`store` is the truth at Google Play, `sent` the log of the events RevenueCat posts for
it, `pending` those without a 2xx. A webhook request (`hand`) goes through claim,
update, cache deletion and answer, one step per statement; it may fail (`RequestFails`),
the process may stop (`Crash`). `EffectOn` is the switch over event types: grants,
CANCELLATION with and without a refund, EXPIRATION; BILLING_ISSUE acts like EXPIRATION
here and PRODUCT_CHANGE like a grant. `date` says whether an event has a usable expiry:
`ParseExpiration` makes a year from now of one that is missing, no number, not positive
or more than five years ahead, CANCELLATION and TRANSFER take a missing one for a period
that is over, and `syncFromRc` writes a year when RevenueCat names no end (0 in
`SyncFromRc`). That RevenueCat does so only for a user of whom some event had no usable
expiry either is assumed of it; these events and the faults share one bound. A paywall
(`client`) runs preflight, purchase, synchronisation, a second try, polling. `snapshot`
holds the devices whose `PremiumContext` knows of an entitlement and opens no paywall;
`DropSnapshot` may take one out at any time, as the listener, the return to the
foreground and the end of the period do. `now` counts billing periods. A `Tick` clears
the 30-second cache and waits until nothing that lives for seconds is in flight.

The constants choose a scenario: `Overlap` (does the subscription change while a
purchase is being finished), `InOrder` (does RevenueCat post events one at a
time), `FaultKinds`, `StoreMoves`, `PhantomUsers` (a `$deleted_at` newer than
what the store says).

Left out: degraded mode without a RevenueCat key, the sandbox filter, the `premium:<id>`
cache entry (no route reads it), the quota reset of a first purchase (modelled in
TripCreation), an event without an `id`, which is applied without a claim. A transfer is
made from the receiver's closed paywall (`handleRestore`). After a TRANSFER the former
owner keeps the tier (`transferred_from` is never read), which `UnpaidIsFree` has to
except.

### Session

Token pairs are numbered in the order they are minted; `issued` remembers what
each was exchanged for. The server side splits `refreshToken` at its awaits:
lookup of the jti, its deletion, account and password checks, new pair. The
device side has API calls (`call`), the refresh in progress (`flow`, which is
`isRefreshing` while it is not `off`), the queue of calls that wait for it, the
two keys in the keychain written one after the other, and the shown user.
`Logout` and `DeleteAccount` set `lock`; their one awaited call is `Exit`.

A rejected `GET /auth/me` answers with the cached profile, as `getProfile` does:
`Rejected` has that effect on the shown user. One app is modelled; other
devices appear as a changed password. Left out: the start of the app, OAuth,
2FA and verification logins (they store tokens as `login` does), the 30 days of a
refresh token, Redis evictions, the 5-second limit of `silentRefresh` (its late
profile is dropped, which `ProfileArrives` covers by not happening), a keychain
that fails while it removes.

### OfflineQueue

The promise that nothing is dropped hangs on JavaScript references: `flush` walks,
with `for..of`, the array that `enqueue` pushes onto, and the object in the queue
is the one whose `retryCount` is counted. So arrays and objects live on a heap
(`array`, `object`), `cached` names an array, `disk` holds the JSON. `Enqueue`
and `StartSync` work on the cache without an await; without a cache the storage
is read first (`EnqueueReads`, `SyncReads`) and each reader parses an array of its
own. `Handle` is the server, `Answered` and `Failed` what `flush` does about the
outcome, `Proceed` the rest of the walk up to the next request or the save.
`Restart` keeps the storage only. `overlapped`, `excused` and `unsure` are history:
they say which losses and repetitions have a cause outside one flush at a time.

A storage that cannot be read (`EnqueueLoadFails`, `SyncLoadFails`) counts as an empty
queue, which the next save writes over what is stored.

Left out: `dequeue`, `incrementRetry` and `clear`, which nobody calls; the
network probe of the hook (a flush simply starts); that the queue outlives a
logout and a change of account.

### TripEdit

One trip, its one itinerary and its collaborators. A request reads (`Open`), has
the status corrected by a save (`SaveStatus`), checks role and status (`Check`),
loads the day again (`LoadDay`) and saves it (`SaveDay`), or saves the whole trip
entity it read (`SaveTrip`), which writes every column back and the itineraries
with it; the daily job saves the same way. `old` records which rows another
request wrote since they were read, so that a property can say "unless the save
is stale". `TripDocument` is the promise: one document, and each request changes
the one thing it is about.

Left out: `duplicate()`, the expiry of share links, several itineraries (they are
independent columns), the time zone of the destination (the clock is the
destination's), the fields of an activity but its time and its completion.

### Accounts

The rows of one e-mail address and of the provider identities that may carry it. A
request is at one of the `Stages`, between its check and its write: registration with
and without `confirmReset`, the six-digit code (`TryCode`), the same code or a long
token through `POST /auth/verify-email`, which counts no attempts (`VerifyEmail`), both
ways to send one (`Issue`, `IssueToken`), password change, reset link, deletion with the
blacklist entry, OAuth login with the race on its INSERT. `Put` is TypeORM's update by
id: no error when the row is gone, and a column set to `undefined` is skipped, so codes
and links are never cleared and only their expiry (0) takes them away. `missed` counts,
for each row, the wrong codes that `TryCode` compared since its counter was last reset;
`late` holds the requests whose row was verified after they had checked that it is not.

Left out: that `POST /auth/verify-email`, which looks a code up without an address,
may find the row of another address with the same code (one address is modelled);
lockout, two-factor and backup codes, re-authentication, consents, administrative deletion,
the resume token and the one-time code around an OAuth login.

### Expenses and Settlements

`Settlements` is the arithmetic, in cents: `calculateSplits`, `getBalances`,
`getSettlements`. The loop of the last is a recursive function of its rounds, `Pay`
being one of them; as each round is the last of a creditor or of a debtor, there are
at most as many as there are both. Equal balances are taken in the order of the
users' numbers, where the code has the order of the database.
`Expenses` is the state: `update` deletes the splits, calculates and inserts new
ones and writes the row as separate statements; `settleUp` saves a split it read
before, which inserts it again when it is gone. `RequestFails` ends a request before
its next statement, which fails or is cut off by a restart; what was written stays, as
there is no transaction. `torn` and `doubled` are history: the expenses two requests
worked on at once or whose update was refused or ended halfway, and those with two
updates between deletion and insertion.

### TripWizard

An attempt is one call of `doCreateTrip` together with the `createTripWithPolling`
under it: POST, a GET every second whether the last one was answered or not, the
trip, and what the screen does about the outcome. The attempts share the guards
`isLoading` and `isCreatingRef` and one `abortControllerRef`. `Abort` is what the
signal does at each stage: it rejects a POST, it drops polls and their answers, it
sends the DELETE if the listener is there already, and it does not reach
`getTripById`. A cancelled attempt ends at its next `Tick`, up to a second later.
`NoTrip` is an answer without an id. When the trip cannot be fetched, `Recover` asks for
the list and takes the newest trip, which may be that of another attempt (`found`);
`shown` is the set of pairs of an attempt and the trip it took the user to.
Of the server there is the state of each job, which it may never finish, or forget.

Left out: the form and its validation, the progress display, the consent dialog,
advertisements and toasts. `MaxPolls` is 2 where the code has 300.

### AiGeneration

Unit 0 of a request is the one call for the whole trip, unit `d` the call for day
`d`; `left` counts the attempts `withRetry` still has for each. A batch passes the
breaker together, as its calls start in one synchronous loop. `Attempt` is one
call of the provider: it succeeds, with activities or without, or fails, and an
aborted one always fails. `since` is the time since the breaker's last failure, up
to `resetTimeoutMs`. Requests come again and again, so a call from before an outage
may end after it.

Left out: prompts, parsing and repair of the JSON, coordinates, template lookup and
the other users of the breaker; `withTimeout` is the failure of an attempt.

## 4. Runs

`MC*` modules name the model values and symmetries. Counts are distinct states.

| run | states | what it asks |
|---|---|---|
| `trip_quota` | 795 065 | Two AI requests of one user, any statement may fail, one reset. Two requests are what a race for the last unit needs; limits are 1 (free) and 2 (premium) so that both are met. One saver that loads the itineraries, once. The rows implement `AiTripOrder`. |
| `trip_settles` | 142 138 | An AI and a manual request, nothing fails but the AI and the server, which restarts once, and one save of a share link: liveness, and what each request leaves. |
| `sub_delivery` | 1 915 719 | Two webhook requests at once, renewals and the end of renewing, events in any order and posted again, one failure, lost answer, crash, or event whose expiry is missing or invalid; `Year` is two periods. Refunds and transfers are in `sub_settles`. |
| `sub_settles` | 482 682 | Events in order, all store moves, one fault other than of the database, or one event without an expiry: retries end, a purchase reaches its row, and nobody unpaid is premium when all is quiet. |
| `sub_lost_event` | violation | see findings |
| `session_refresh` | 417 628 | One screen's call and the call of a logout or deletion, two refresh requests, one fault of any kind: two callers are what a queue needs, two requests what a repeated exchange needs. |
| `offline_queue` | 1 151 301 | Two changes, two flushes that may overlap, a caller that waits for the storage, two faults and one restart; two retries are enough to meet the last one and the one before. |
| `trip_edit` | 820 078 | Owner and one editor, two requests at once (the daily job may be one), four half days over a trip of one or two days. Two requests per behaviour are what one stale save needs. |
| `accounts` | 1 490 753 | Two requests at once, two passwords, two identities, two rows, two mailed tokens and two tries: an address can be deleted and registered again, and a code of the first row tried on the second; a code is entered and sent again in both ways. |
| `expenses` | 1 864 021 | Three users, two of whom share an expense, two expenses, three batches of shares, two requests at once, each of which may end between its statements; the forms and patches keep roundings, repeated names, refused sums and omitted fields apart. |
| `trip_wizard` | 577 938 | Two creations, two presses of Cancel, leaving the screen, two faults, a restart. Two attempts are what the shared guards and controller need, two polls what an answer out of order needs; `MaxOpen` bounds the polls under way. |
| `ai_generation` | 642 386 | Two requests, trips of one to three days where `FullMax` is 1 and `BatchSize` 2: one call, one batch, two batches. With a threshold of 2 and one retry, four failed attempts open the circuit, and aborted calls open it or fail its probe. |

An operational admin (`Admins`) appears in no run: the branch skips the limit and
the counter, and the theorems of `TripCreationProofs` hold for any set of admins.

The symmetric requests and handlers are interchangeable in the specifications
and in the safety properties of the runs that use symmetry; runs with liveness
properties use none. Deadlock is checked in `TripCreation`, where `Quiescent`
is the one state to rest in; an idle webhook server, or an app whose bounds are
used up, may simply rest, so the other runs do not check it. `MaxFaults`,
`MaxEvents`, `MaxTime`, `MaxResets`, `MaxCrashes`, `MaxLoads`, `MaxLogins` and `MaxTokens`
bound counters in guards, never in the properties; `MaxTokens` stops the access
token from expiring again, and a logout from starting, once so many pairs exist.

Fairness. `TripCreation`: weak fairness of each run, since every external call has a
timeout and locks are held for one short transaction. `Subscription`: weak fairness of
the requests the server works on, of RevenueCat's posts until it has a 2xx (its
documented retries) and of the paywall's own steps, which time out. `Session`: of the
server's requests, the answers to calls (axios has a timeout), the steps of the refresh
and of a logout. `TripEdit`: of the handlers, the daily job and the clock. `TripWizard`:
of the timers and continuations of the app and of the answers to its requests, not of
the end of a job. `AiGeneration`: of the calls, which end after 90 seconds, of the event
loop and of time; `CircuitRecovers` also needs somebody who keeps asking, as only a call
closes the circuit. Nothing forces a user to act, a token to expire, or a fault.

Each property of a passing run is also shown to fail when one definition is
replaced by a slip of it; the slips stand beside what they replace, marked
"Slip".

## 5. Proofs

`TripCreationProofs` holds for any finite set of requests, any users, owners,
admins, limits and bounds that meet the assumptions of the module.

- `IInv` = types, `LockInv` (the row lock belongs to the request that has checked the
  limit), `FlowInv` (what the rows of a request look like at each await), `LedgerInv` (a
  charged, unrefunded trip still has its unit), the last two (`RowsFit`, `UnitKept`) up
  to the trips that a save put back, and `CopyInv` (only a trip that has a row is
  loaded), as otherwise a save could make a row that phase A has yet to insert.
  `RefundOnce` or `SuccessIsPaid` alone are not inductive: a refund is right because the
  flag is flipped once *and* an unflipped flag means a unit is there, which depends on
  how far the request has come. `QuotaNeverOverrun` needs `LockInv`: nothing else
  increments between the check and the increment.
- `CounterMatchesLedger` is proved on top of it by cardinalities of the sets of live and
  late requests.
- `OrderRefinement`: each step maps to a step of `AiTripOrder` or to a stutter.

`SubscriptionProofs` holds for any users, devices, handlers, store moves, modes
and faults.

- `IInv` = types, `ClaimInv`, `PaidInv`, `PremiumWasPaid`, where `DateMissing` stands
  for a grant that no event dates. A row alone does not know why it is premium: the
  invariant follows the payment through the store, the event log and an answer in flight
  (`PaidInv`). Events never leave the log, so a grant found once stays (`GrantsStay`).
- `LedgerRefinement` needs `ClaimInv`: a request that applies an event is alone with it
  and the event has not acted.

`AccountsProofs` holds for any requests, passwords, identities, rows, tokens and
limit.

- `IInv` = types, `IdsUsed` (ids are handed out in order and never again),
  `TokensOwned` (the code and the link a row holds, and the code a request is
  about to accept, were made for that row), `IdentsOwned`, `Checked` (what a
  request at each stage knows of the row it names, unless it is in `late`),
  `BlacklistedIsGone`. Deletion is what makes it necessary: a request may name a
  row that is gone, and must then find none, never the one that took the address.
- `GuessesLimited` counts: the wrong codes of a row are those its counter shows and
  those of requests that have compared and not yet counted, at most one each.

`SessionProofs` holds for any users, calls in flight, refresh requests, logins,
tokens and faults.

- `Core` = `Carries`, `Awaited` (the app waits for every request at work, except
  those whose token it has seen fail), `FlowInv`, `StoredInv` (the stored token can
  be spent, unless the refresh in progress is spending it) and the two invariants
  `RefusedForCause` and `ExchangedOnce`. Neither stands alone: that a token about
  to be looked up is still good follows from who may have spent it, which is one
  request at a time because the interceptor posts one refresh at a time.
- The types of the histories need `Carries` and `FlowInv`, so they are proved
  together with it.
- `LockIsKept` needs `LockInv`: with the lock set, the user is gone only between
  `setUser(null)` and the timer that releases the lock; a login cannot begin there.

`TripWizardProofs` holds for any number of attempts, polls, presses and faults.

- `CtrlInv` (whose controller the ref may hold), `GuardInv` (a guard that is set
  belongs to an attempt under way), `FlowInv` (what an attempt looks like at each
  stage) and `OverlapInv`: the attempts under way are at most the presses of Cancel, plus
  one while `isCreatingRef` is set. `OverlapNeedsCancel` alone is not inductive, as
  `Create` adds an attempt and only the cleared guard says that there is room for it.
- `EarlyCancelHolds` needs `FlowInv`: an attempt that was aborted early has dropped its
  polls, answers and fetch, so nothing can bring it to a trip any more.

`AiGenerationProofs` holds for any requests, days, batch size, retries, threshold
and faults.

- The flow of a request per await (`left` is positive only for the batch that was
  started last; a day of an earlier batch has its result) carries `PlanIsWhole` and
  `WorkIsKept`, which say nothing of a request that is still at work. `CircuitHonest`
  is kept by each call that passes, succeeds or fails, from whatever state it finds.

`OfflineQueueProofs` holds for any flushes, callers, retries and faults; the only
assumption is that there are more names of arrays than the flushes and the cache can
hold (`ArraysAssumption`), as memory hands out a new address for every array.

- `NothingIsLost` is about references, so its invariant is: `WalkInv` (while one flush
  walks, every position it has passed is settled or in the list of what stays),
  `HeapInv` (an array that was just parsed is held by nobody else; without a cache
  nobody walks, and what was read equals the storage), `EntriesInv` (each entry was
  accepted). That a flush pushed onto by `enqueue` loses nothing follows from both
  having the same array, which `HeapInv` says.
- `SentOnceHolds` needs `SentInv`: the objects ahead of the walk whose answer is not
  under way have not been sent, unless that is on record. `GivenUpInTimeHolds` needs
  `TriesInv`: a counter equals the failures of its object and is below `MaxRetries`
  while the object stays.

`ExpensesProofs` holds for any finite set of participants, any forms and patches of
the types that the DTOs state, and any number of requests that overlap.

- `IInv` = types, `IdsInv` (a number names one row; two requests about one expense are
  on record), `OwedInv` (before an insertion nobody owes a share, unless it was
  doubled), `ShareInv` (the shares in the table and those a request is about to insert
  fit the amount in the row and the one about to be written), the last for expenses that
  are not in `torn`. `SharesAddUp` alone is
  not inductive: it says nothing while an update is between its three statements.
- Sums are `MapThenSumSet` of the community modules. What they do is proved by
  taking a least subset for which a claim fails (`LeastSubset`, from the theorem that
  strict inclusion of finite sets is well founded): that the recursion has a solution
  (`SumExists`), and then `SumAdd`, `SumUnion`, `SumPartition`, `SumRenamed`,
  `SumWithin`. `RoundsExist` does the same for the loop of `Settlements`.
- `EqualSharesAddUp` is about `Equal` alone, for every amount and list.
- `TransfersHold`: `LoopInv` says, of each participant, that what is left and what was
  transferred differ from the balance by the cents dropped, one during a turn, two at
  its end (`Side`); that each round takes the same from both sides, so that the gap
  between them stays (`Gap`); and that one of the two whose turn it is has just begun,
  so that a dropped cent is somebody's last. When one side is through (`RoundsEnd`),
  what is left on the other is that gap, and the gap is the sum of the balances, less
  than a cent per expense (`BalancesAddUp`), without those of a cent each that take no
  part (`GapBound`).

Three groups of theorems have a hypothesis about the constants, which chooses among
scenarios the code admits:

- `TripCreationProofs`, `~DbMayFail` for `NoChargeKept` and `UncancelledSettle`: flag
  and decrement of a refund are separate statements, so a failing one may keep the
  charge. `SettleInv` = `RefundInv` (a flipped flag and a decrement behind the run mean
  that the unit is not spent; a merge or a failed save comes after a refund or a
  deletion) and `VerdictInv` (an error that says cancelled belongs to an aborted job;
  a refund runs after the failure mark or an abort, but in the fallback).
- `SubscriptionProofs`, `BuysOnce` for `ChargedOnce`: one device per account, the
  account without a phantom entitlement, no preflight without an answer, no RevenueCat
  that fails the server, and no relaunch of the app between purchase and
  synchronisation. Each of these lets the code charge twice, by a "no entitlement" that
  is cached for 30 s or by a preflight that lets the purchase pass when it fails
  (section 6). `BuyInv`: a paywall that is about to buy, or to cache that there is no
  entitlement, belongs to somebody who has none or whose subscription came by a transfer
  (`Restored`), and so does a cached answer, but while the purchase is being synchronised,
  which drops it. The snapshot on the device plays no part in it, since it may be
  dropped at any time.
- `OneByOne` for `RowsFollowStore` and `UnpaidFree`: events in order, one at a time, and
  neither a failing database nor a stopped process (the claim row outlives the update
  that failed, `sub_lost_event`). `OrderInv` (the requests work through the events in
  their order and skip none), `LastInv` (what the last event said), `RowInv` (the row is
  what the applied events make of it) and `WriteInv` (a direct synchronisation writes
  what the store said).

The type and inductive invariants are not repeated in the runs' configurations:
they were checked by TLC while the proofs were written.

Proved and in no run, as another property of the run covers them: `RefundOnce`,
`VerdictStands`, `ClaimInv`, `BlacklistedIsGone`, `WorkIsKept`.

Only model-checked: liveness (`JobSettles`, `CancelRefunds`, `EventsAnswered`,
`PaidBecomesPremium`, `QueuedCallSettles`, `StatusSettles`, `AttemptEnds`,
`GenerationEnds`, `CircuitRecovers`), which under fairness is beyond TLAPS, and
`RightfulChange` and `ActsOnDocument` of `TripEdit`.

## 6. Findings

One run ends in a violation, against a sentence of the repository:

- `sub_lost_event`: the dedup row is committed before the update; a failure in
  between makes RevenueCat's retry a no-op. Comment and docs say one transaction.

Further promises that the code does not keep are stated in the modules, each with
the line it comes from; a counterexample appears when one takes the place of the
properties in the configuration named here.

- `ServerIsTold` (`TripWizard.cfg`): the listener that sends the DELETE is attached
  after the POST was answered (api.ts:594), so a creation cancelled before runs on at
  the server, and is charged; api.ts:585-586 says the server must be told.
- `CancelIsSeen` (`TripWizard.cfg`): axios names an aborted request `CanceledError`,
  which api.ts:686 does not know; the user sees a failure, while
  CreateTripScreen.tsx:620-624 counts this among the shapes of a cancellation.
- `OneCreation` (`TripWizard.cfg` with three attempts): the end of a cancelled attempt
  clears the guards and the controller of the next one
  (CreateTripScreen.tsx:768, against 363).
- `FailureIsTold` (`AiGeneration.cfg`): an answer for the whole trip without any
  activity is a plan (ai.service.ts:615): 'success', and no refund, against 832-834.
- `OneProbe` (`AiGeneration.cfg`): a whole batch passes the half-open circuit
  (resilience.ts:93), against line 71.
- `RecoveryFindsItsTrip` (`TripWizard.cfg`): when the trip cannot be fetched the screen
  goes to the newest of the user's trips, which may be that of a creation started after
  this one was cancelled; CreateTripScreen.tsx:655 and 669 speak of the trip just created.
- `RefundOnceAlways` (`TripQuota.cfg`): a save of a trip that was loaded before the refund
  flag was set puts it back to false, and the outer catch refunds again, against
  trips.service.ts:134-142.
- `VerifiedKeptAlways` (`Accounts.cfg`): a registration with confirmReset deletes a row that
  was verified after its check, against auth.service.ts:180 and users.service.ts:173.
- `SpentCodeIsInvalid` (`Accounts.cfg`): a code whose attempts are used up is accepted by
  `POST /auth/verify-email` (users.service.ts:783), which counts none, against
  users.service.ts:33.
- `AttemptsPerCode` (`Accounts.cfg`): a refreshed registration keeps the code and resets its
  attempts, against users.service.ts:704.
- `EveryTransferActs` (`Expenses.cfg`): `getSettlements` pairs the largest debtor with
  the largest creditor, who need not share an expense; the Settle button of such a
  transfer does nothing, against SettlementSummary.tsx:4-5.

Seen while modelling, without a run.

Trips: the save of `generateShareToken` (trips.service.ts:1527) puts a trip that was
finished since it was loaded back to `generating` for good; a cancellation noticed at
trips.service.ts:398 or 690 leaves the trip in `generating` (line 789) although line 643
says it must be marked; flag and decrement of a refund are separate statements, which
migration 1777377600000 (lines 11-12) calls one; a cancelled job becomes `completed`
when the cancellation comes during phase C (trips.controller.ts:156, 173); the comment
at trips.controller.ts:107-109 expects rows to be rolled back.

Subscription: for 30 s a second device passes the preflight from a cached "no
entitlement", against docs/invariants/payment.md:13; a paywall that cannot reach
the preflight lets the purchase pass (PaywallModal.tsx:205) and one that is not
confirmed closes (line 476 against its comment at 407-409); an "inactive" that was cached
before a purchase still lets the next preflight pass within its 30 s, when both
synchronisations and the poll fail within that time and the snapshot was dropped, or when
the subscription was restored (`handleRestore` drops no cached answer), against the
comment at subscription.service.ts:682-690; `syncFromRc` upgrades
without the webhook, unlike docs/invariants/payment.md:14; the preflight's comments
promise a reconciliation (subscription.service.ts:217, against line 403) and a
block for admins (subscription.controller.ts:62, against subscription.service.ts:262).

Session: a profile that arrives after the logout shows the user again, against
logoutRace.integration.test.tsx:27-28; a refused deletion keeps the logout lock,
against AuthContext.tsx:882-883; after a refused refresh `getProfile` brings the
cached user back without tokens (api.ts:450); a call refused while the tokens are
being removed is queued for ever (api.ts:196); a refresh given up after 10 s has
spent the token it keeps (api.ts:177-185).

Offline queue: a 401 counts as final (useOfflineSync.ts:77) although no
interceptor refreshes the token there; failed mutations go behind newer ones, so
the order that offlineMutationQueue.ts:100 speaks of is kept only without retries;
the queue of one user is sent with the token of the next.

Trip editing: a save that began before another request writes old columns back,
a disabled share link among them, and inserts a deleted trip again;
`updateItinerary` and `reorderActivities` do not ask whether an activity is over,
as the other edits do; `updateTripStatus` is called by nobody.

Accounts: `POST /auth/verify-email` takes the six-digit code without an address;
since TypeORM skips `undefined`, a refreshed registration keeps the old
code, against users.service.ts:130-132, with its attempts at zero, and a reset
link works until it expires; the counter of a reset link is back at zero whenever
it could be compared, so it never reaches 5; a refused reset rolls back twice and
answers 500; an OAuth login that loses the race for the address takes the row of
whoever won it (users.service.ts:116), and an identity without e-mail may get two
rows; a deletion that is retried after its blacklist entry failed meets NotFound
(line 436) and never writes it, unlike lines 421-423.

Expenses: a refused update leaves an expense without splits, and one whose insertion or
write fails leaves none or those of another amount (expenses.service.ts:305-329 is no
transaction); two updates at once double them; `settleUp` brings a deleted split back; a
new payer inherits settled splits; the greedy transfers are not the minimum that line
430 speaks of (balances +3, +2, +2, -4, -3 need four as +3 -3, +2 +2 -4 needs three); an
amount of a few cents among four or more leaves the first with a negative share, and an
expense whose open shares add up to less than two cents is not credited to its payer
(expenses.service.ts:409) while the negative share is taken off the other's debt, so
that the transfers may miss by more than a cent: `TransfersSettle` leaves such shares
out.

Creation screen: once the server has forgotten a job the app polls for ever, as
the limit is looked at only beside an answer (api.ts:660, against the five minutes of
line 584); `AttemptEnds` has to except it.

AI generation: the aborted calls of a cancelled batch count as failures of the
provider and may open the circuit for everybody; retries and batches go on after a
cancellation; a success from before an outage closes an open circuit at once.

## 7. Not modelled

Everything of section 1 without a module, with the reason in `PROJECT.json`. Login
guards keep counters in Redis and columns of the user that guard no other row;
notifications, social, admin, affiliate and places write one row or answer from a cache,
without a protocol; screens, prompts, templates, translations, layouts and static
content are most of the lines of the repository, and no property here depends on them.
What the modules leave out of the code they do model is said in section 3.
