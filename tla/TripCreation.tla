---------------------------- MODULE TripCreation ----------------------------
(***************************************************************************)
(* Asynchronous creation of a trip: the in-memory job store                *)
(* (trips/jobs.service.ts), the controller that runs a job                 *)
(* (trips/trips.controller.ts) and the three-phase saga of                 *)
(* TripsService.create with its quota compensation                         *)
(* (trips/trips.service.ts).                                               *)
(*                                                                         *)
(* A request creates at most one job and one trip, so one identifier j     *)
(* names the three.  An action is what the event loop runs between two     *)
(* awaits: other requests, a cancellation, the deletion of the trip, the   *)
(* monthly cron and a restart of the server fall between any two of them.  *)
(* So do the savers: handlers that load the trip and save the whole entity *)
(* later, and with it an aiStatus and a quotaRefunded that may be old.     *)
(***************************************************************************)
EXTENDS Integers, FiniteSets

CONSTANTS
  Jobs,          \* the requests to create a trip
  AiJobs,        \* those whose planningMode is not 'manual'
  AsyncJobs,     \* those sent to create-async (the others to POST /trips)
  Users,
  Owner,         \* the user who sends each request
  Admins,        \* the users for whom isOperationalAdmin holds
  FreeLimit, PremiumLimit,   \* AI_TRIPS_FREE_LIMIT, AI_TRIPS_PREMIUM_LIMIT
  DbMayFail,     \* may a statement sent to the database be rejected?
  MaxResets,     \* bound on the resets of the quota counter
  MaxCrashes,    \* bound on the restarts of the server
  Savers,        \* the handlers between loading a trip and saving it
  WholeSavers,   \* those that load its itineraries too
  MaxLoads,      \* bound on the trips they load
  NoJob          \* "nobody holds the row lock", "no trip is loaded"

ASSUME RequestsAssumption ==
  /\ AiJobs \subseteq Jobs /\ AsyncJobs \subseteq Jobs
  /\ Owner \in [Jobs -> Users]
  /\ Admins \subseteq Users
  /\ WholeSavers \subseteq Savers
  /\ NoJob \notin Jobs
ASSUME BoundsAssumption ==
  /\ IsFiniteSet(Jobs)
  /\ FreeLimit \in Nat /\ PremiumLimit \in Nat /\ FreeLimit <= PremiumLimit
  /\ DbMayFail \in BOOLEAN
  /\ MaxResets \in Nat /\ MaxCrashes \in Nat /\ MaxLoads \in Nat

VARIABLES
  job,       \* JobData.status, "none" before createJob, "gone" once deleted
  progress,  \* JobData.progress.step
  aborted,   \* the job's AbortSignal
  pc,        \* the await at which the request is suspended
  frame,     \* which part of create a compensation returns to
  err,       \* what that part is about to throw
  final,     \* create's local variable finalAiStatus
  trip,      \* trips.aiStatus; "absent" before the row, "deleted" after it
  itin,      \* the itineraries saved with the trip
  refunded,  \* trips.quotaRefunded
  copy,      \* the entity that each saver has loaded
  stale,     \* history: the trips that a save put back to what was loaded before
  used,      \* users.aiTripsUsedThisMonth
  tier,      \* users.subscriptionTier
  rowLock,   \* the request that holds SELECT ... FOR UPDATE on the user row
  ledger,    \* history: what happened to the quota unit of each request
  resets, crashes, loads   \* counted for the bounds only

jobVars  == <<job, progress, aborted>>
ctlVars  == <<pc, frame, err, final>>
rowVars  == <<trip, itin, refunded, copy, stale>>
userVars == <<used, tier, rowLock, ledger>>
bounds   == <<resets, crashes, loads>>
vars == <<jobVars, ctlVars, rowVars, userVars, bounds>>

Active   == {"pending", "processing"}
Terminal == {"completed", "error", "cancelled"}
Rows     == {"none", "generating", "success", "failed"}
Awaits   == {"queued", "phaseA", "charge", "validate", "locating", "weather",
             "generating", "merge", "saving", "reply", "mark", "flag", "credit"}
Suspended(j) == pc[j] \in Awaits

NoCopy == [of |-> NoJob, trip |-> "absent", itin |-> "none", refunded |-> FALSE]

Limit(u) == IF tier[u] = "premium" THEN PremiumLimit ELSE FreeLimit
Live(u)  == {j \in Jobs : Owner[j] = u /\ ledger[j] = "charged"}
Late(u)  == {j \in Jobs : Owner[j] = u /\ ledger[j] = "lateRefund"}

Init ==
  /\ job      = [j \in Jobs |-> "none"]
  /\ progress = [j \in Jobs |-> "null"]
  /\ aborted  = [j \in Jobs |-> FALSE]
  /\ pc       = [j \in Jobs |-> "idle"]
  /\ frame    = [j \in Jobs |-> "none"]
  /\ err      = [j \in Jobs |-> "none"]
  /\ final    = [j \in Jobs |-> "undefined"]
  /\ trip     = [j \in Jobs |-> "absent"]
  /\ itin     = [j \in Jobs |-> "none"]
  /\ refunded = [j \in Jobs |-> FALSE]
  /\ copy     = [s \in Savers |-> NoCopy]
  /\ stale    = [j \in Jobs |-> FALSE]
  /\ used     = [u \in Users |-> 0]
  /\ tier     = [u \in Users |-> "free"]
  /\ rowLock  = [u \in Users |-> NoJob]
  /\ ledger   = [j \in Jobs |-> "none"]
  /\ resets = 0 /\ crashes = 0 /\ loads = 0

-----------------------------------------------------------------------------
\* Control helpers.

\* The request is suspended at the await named l.
Await(j, l) == pc' = [pc EXCEPT ![j] = l]

\* progress$.next({step}): the subscriber drops it once the job is cancelled,
\* and a request with no job (POST /trips) has no subscriber.
Emit(j, step) ==
  progress' = IF job[j] = "processing" THEN [progress EXCEPT ![j] = step]
                                       ELSE progress

\* Slip: the catch forgets to set the job to 'error'.
RejectSilently(j) == Await(j, "done") /\ UNCHANGED <<job, progress>>

\* create rejects: the catch of startTripCreation sets the job to 'error'
\* unless it is 'cancelled' already.
Reject(j) ==
  /\ Await(j, "done")
  /\ job' = IF job[j] = "processing" THEN [job EXCEPT ![j] = "error"] ELSE job
  /\ Emit(j, "error")

\* The outer catch of create: a trip is marked as failed for every error but a
\* TripCancelledError; the quota unit of an AI trip is then returned.
OuterCatch(j, e) ==
  /\ frame' = [frame EXCEPT ![j] = "outer"]
  /\ err' = [err EXCEPT ![j] = e]
  /\ \/ e # "cancelled" /\ Await(j, "mark") /\ UNCHANGED <<job, progress>>
     \/ e = "cancelled" /\ j \in AiJobs /\ Await(j, "flag")
                        /\ UNCHANGED <<job, progress>>
     \/ e = "cancelled" /\ j \notin AiJobs /\ Reject(j)

\* A catch inside create that first marks the trip, then refunds, then throws.
InnerCatch(j, e) ==
  /\ frame' = [frame EXCEPT ![j] = "inner"]
  /\ err' = [err EXCEPT ![j] = e]
  /\ Await(j, "mark")

\* restoreAiQuota has returned (it never throws).
AfterRefund(j) ==
  \/ frame[j] = "inner" /\ OuterCatch(j, err[j])
  \/ /\ frame[j] = "fallback" /\ Await(j, "merge")
     /\ UNCHANGED <<job, progress, frame, err>>
  \/ frame[j] = "outer" /\ Reject(j) /\ UNCHANGED <<frame, err>>

\* A write to the user row waits until no transaction has it locked.
RowFree(u) == rowLock[u] = NoJob
-----------------------------------------------------------------------------
\* The request and its job.

\* POST /trips/create-async: the job is created and its run is scheduled.
CreateAsync(j) ==
  /\ pc[j] = "idle" /\ j \in AsyncJobs
  /\ job' = [job EXCEPT ![j] = "pending"]
  /\ Await(j, "queued")
  /\ UNCHANGED <<progress, aborted, frame, err, final, rowVars, userVars, bounds>>

\* POST /trips: the same saga without a job, a progress stream or a signal.
CreateSync(j) ==
  /\ pc[j] = "idle" /\ j \notin AsyncJobs
  /\ Await(j, "phaseA")
  /\ UNCHANGED <<jobVars, frame, err, final, rowVars, userVars, bounds>>

\* setImmediate runs startTripCreation up to the first await of create.
StartTripCreation(j) ==
  /\ pc[j] = "queued"
  /\ job' = [job EXCEPT ![j] = "processing"]
  /\ Await(j, "phaseA")
  /\ UNCHANGED <<progress, aborted, frame, err, final, rowVars, userVars, bounds>>

\* DELETE /trips/jobs/:jobId by the owner.  A client learns the jobId from the
\* response of create-async, after which setImmediate has run, so a pending
\* job is never cancelled; on a terminal job the handler does nothing.
CancelJob(j) ==
  /\ job[j] = "processing"
  /\ job' = [job EXCEPT ![j] = "cancelled"]
  /\ aborted' = [aborted EXCEPT ![j] = TRUE]
  /\ progress' = [progress EXCEPT ![j] = "cancelled"]
  /\ UNCHANGED <<ctlVars, rowVars, userVars, bounds>>

\* The job is dropped an hour after its creation.  Every external call of a run
\* has a timeout of minutes at most, so the run is over by then.
CleanupJob(j) ==
  /\ pc[j] = "done" /\ job[j] \in Terminal
  /\ job' = [job EXCEPT ![j] = "gone"]
  /\ progress' = [progress EXCEPT ![j] = "null"]
  /\ UNCHANGED <<aborted, ctlVars, rowVars, userVars, bounds>>

-----------------------------------------------------------------------------
\* Phase A: quota check and trip row in one short transaction.

\* A manual trip touches no user row.
PhaseAManual(j) ==
  /\ pc[j] = "phaseA" /\ j \notin AiJobs
  /\ trip' = [trip EXCEPT ![j] = "none"]
  /\ Await(j, "validate")
  /\ UNCHANGED <<jobVars, frame, err, final, itin, refunded, copy, stale, userVars, bounds>>

\* Slip: a plain SELECT, no row lock.
ReadUserUnlocked(j) ==
  LET u == Owner[j] IN
  /\ pc[j] = "phaseA" /\ j \in AiJobs
  /\ u \in Admins \/ used[u] < Limit(u)
  /\ Await(j, "charge")
  /\ UNCHANGED <<jobVars, frame, err, final, rowVars, userVars, bounds>>

\* SELECT ... FOR UPDATE, then the limit is compared with what was read.
LockUser(j) ==
  LET u == Owner[j] IN
  /\ pc[j] = "phaseA" /\ j \in AiJobs
  /\ RowFree(u)
  /\ u \in Admins \/ used[u] < Limit(u)
  /\ rowLock' = [rowLock EXCEPT ![u] = j]
  /\ Await(j, "charge")
  /\ UNCHANGED <<jobVars, frame, err, final, rowVars, used, tier, ledger, bounds>>

\* The limit is reached: ForbiddenException, the transaction rolls back.
LimitReached(j) ==
  LET u == Owner[j] IN
  /\ pc[j] = "phaseA" /\ j \in AiJobs
  /\ RowFree(u)
  /\ u \notin Admins /\ used[u] >= Limit(u)
  /\ Reject(j)
  /\ UNCHANGED <<aborted, frame, err, final, rowVars, userVars, bounds>>

\* count + 1 (not for an admin), INSERT of the trip, COMMIT.
CommitPhaseA(j) ==
  LET u == Owner[j] IN
  /\ pc[j] = "charge"
  /\ IF u \in Admins
       THEN UNCHANGED <<used, ledger>>
       ELSE /\ used' = [used EXCEPT ![u] = @ + 1]
            /\ ledger' = [ledger EXCEPT ![j] = "charged"]
  /\ trip' = [trip EXCEPT ![j] = "generating"]
  /\ rowLock' = [rowLock EXCEPT ![u] = NoJob]
  /\ Await(j, "validate")
  /\ UNCHANGED <<jobVars, frame, err, final, itin, refunded, copy, stale, tier, bounds>>

\* Slip: the counter is incremented outside the transaction.
RollbackKeepsCount(j) ==
  LET u == Owner[j] IN
  /\ DbMayFail /\ pc[j] \in {"phaseA", "charge"}
  /\ used' = [used EXCEPT ![u] = IF pc[j] = "charge" THEN @ + 1 ELSE @]
  /\ rowLock' = [rowLock EXCEPT ![u] = IF @ = j THEN NoJob ELSE @]
  /\ Reject(j)
  /\ UNCHANGED <<aborted, frame, err, final, rowVars, tier, ledger, bounds>>

\* A statement of phase A fails: nothing of the transaction remains.
RollbackPhaseA(j) ==
  LET u == Owner[j] IN
  /\ DbMayFail /\ pc[j] \in {"phaseA", "charge"}
  /\ rowLock' = [rowLock EXCEPT ![u] = IF @ = j THEN NoJob ELSE @]
  /\ Reject(j)
  /\ UNCHANGED <<aborted, frame, err, final, rowVars, used, tier, ledger, bounds>>

-----------------------------------------------------------------------------
\* Phase B: external calls, with no transaction open.

\* First statement after phase A: throwIfCancelled, inside the outer try only.
Validate(j) ==
  /\ pc[j] = "validate"
  /\ \/ aborted[j] /\ OuterCatch(j, "cancelled")
     \/ /\ ~aborted[j] /\ Emit(j, "validating") /\ Await(j, "locating")
        /\ UNCHANGED <<job, frame, err>>
  /\ UNCHANGED <<aborted, final, rowVars, userVars, bounds>>

\* Location and timezone have answered, failed or timed out.  The check that
\* follows is inside the AI try for an AI trip, outside it for a manual one.
FetchWeather(j) ==
  /\ pc[j] = "locating"
  /\ \/ aborted[j] /\ j \in AiJobs /\ InnerCatch(j, "cancelled")
                   /\ UNCHANGED <<job, progress>>
     \/ aborted[j] /\ j \notin AiJobs /\ OuterCatch(j, "cancelled")
     \/ /\ ~aborted[j] /\ Emit(j, "weather") /\ Await(j, "weather")
        /\ UNCHANGED <<job, frame, err>>
  /\ UNCHANGED <<aborted, final, rowVars, userVars, bounds>>

\* Weather has answered; a manual trip goes on to phase C with empty days.
AfterWeather(j) ==
  /\ pc[j] = "weather"
  /\ \/ aborted[j] /\ j \in AiJobs /\ InnerCatch(j, "cancelled")
                   /\ UNCHANGED <<job, progress>>
     \/ aborted[j] /\ j \notin AiJobs /\ OuterCatch(j, "cancelled")
     \/ /\ ~aborted[j] /\ j \in AiJobs
        /\ Emit(j, "ai_generating") /\ Await(j, "generating")
        /\ UNCHANGED <<job, frame, err>>
     \/ /\ ~aborted[j] /\ j \notin AiJobs
        /\ Emit(j, "saving") /\ Await(j, "saving")
        /\ UNCHANGED <<job, frame, err>>
  /\ UNCHANGED <<aborted, final, rowVars, userVars, bounds>>

\* generateAllItineraries has answered and nobody has cancelled.
AiSucceeds(j) ==
  /\ pc[j] = "generating" /\ ~aborted[j]
  /\ final' = [final EXCEPT ![j] = "success"]
  /\ Emit(j, "saving") /\ Await(j, "saving")
  /\ UNCHANGED <<job, aborted, frame, err, rowVars, userVars, bounds>>

\* Slip: the fallback forgets finalAiStatus = 'failed'.
AiFailsAsSuccess(j) ==
  /\ pc[j] = "generating" /\ ~aborted[j]
  /\ final' = [final EXCEPT ![j] = "success"]
  /\ frame' = [frame EXCEPT ![j] = "fallback"]
  /\ Emit(j, "error") /\ Await(j, "flag")
  /\ UNCHANGED <<job, aborted, err, rowVars, userVars, bounds>>

\* Slip: the fallback forgets the refund.
AiFailsUnrefunded(j) ==
  /\ pc[j] = "generating" /\ ~aborted[j]
  /\ final' = [final EXCEPT ![j] = "failed"]
  /\ Emit(j, "error") /\ Await(j, "merge")
  /\ UNCHANGED <<job, aborted, frame, err, rowVars, userVars, bounds>>

\* It has failed: refund now, then fall back to empty itineraries.
AiFails(j) ==
  /\ pc[j] = "generating" /\ ~aborted[j]
  /\ final' = [final EXCEPT ![j] = "failed"]
  /\ frame' = [frame EXCEPT ![j] = "fallback"]
  /\ Emit(j, "error") /\ Await(j, "flag")
  /\ UNCHANGED <<job, aborted, err, rowVars, userVars, bounds>>

\* Slip: the cancellation is thrown past every compensation.
AiCancelledUnrefunded(j) ==
  /\ pc[j] = "generating" /\ aborted[j]
  /\ Reject(j)
  /\ UNCHANGED <<aborted, frame, err, final, rowVars, userVars, bounds>>

\* Whatever it answers once the signal is aborted counts as a cancellation.
AiCancelled(j) ==
  /\ pc[j] = "generating" /\ aborted[j]
  /\ InnerCatch(j, "cancelled")
  /\ UNCHANGED <<jobVars, final, rowVars, userVars, bounds>>

\* The fallback resumes: last throwIfCancelled before phase C, outer try only.
MergeFallback(j) ==
  /\ pc[j] = "merge"
  /\ \/ aborted[j] /\ OuterCatch(j, "cancelled")
     \/ /\ ~aborted[j] /\ Emit(j, "saving") /\ Await(j, "saving")
        /\ UNCHANGED <<job, frame, err>>
  /\ UNCHANGED <<aborted, final, rowVars, userVars, bounds>>

-----------------------------------------------------------------------------
\* Phase C: itineraries and aiStatus in one short transaction, then findOne.

\* Slip: aiStatus is written for a successful generation only.
CommitSuccessOnly(j) ==
  /\ pc[j] = "saving" /\ trip[j] \in Rows
  /\ itin' = [itin EXCEPT ![j] = IF final[j] = "success" THEN "full" ELSE "empty"]
  /\ trip' = [trip EXCEPT ![j] = IF final[j] = "success" THEN "success" ELSE @]
  /\ Emit(j, "complete") /\ Await(j, "reply")
  /\ UNCHANGED <<job, aborted, frame, err, final, refunded, copy, stale, userVars, bounds>>

\* Slip: phase C writes 'success' whatever the generation did.
CommitAlwaysSuccess(j) ==
  /\ pc[j] = "saving" /\ trip[j] \in Rows
  /\ itin' = [itin EXCEPT ![j] = IF final[j] = "success" THEN "full" ELSE "empty"]
  /\ trip' = [trip EXCEPT ![j] = "success"]
  /\ Emit(j, "complete") /\ Await(j, "reply")
  /\ UNCHANGED <<job, aborted, frame, err, final, refunded, copy, stale, userVars, bounds>>

\* One transaction: itineraries, and aiStatus if the generation set one.

CommitPhaseC(j) ==
  /\ pc[j] = "saving" /\ trip[j] \in Rows
  /\ itin' = [itin EXCEPT ![j] = IF final[j] = "success" THEN "full" ELSE "empty"]
  /\ trip' = [trip EXCEPT ![j] = IF final[j] = "undefined" THEN @ ELSE final[j]]
  /\ Emit(j, "complete") /\ Await(j, "reply")
  /\ UNCHANGED <<job, aborted, frame, err, final, refunded, copy, stale, userVars, bounds>>

\* The save fails: always when the trip is gone (foreign key), else by fault.
FailPhaseC(j) ==
  /\ pc[j] = "saving" /\ (DbMayFail \/ trip[j] = "deleted")
  /\ InnerCatch(j, "failure")
  /\ UNCHANGED <<jobVars, final, rowVars, userVars, bounds>>

\* findOne answers and updateJob overwrites the status of the job, whatever it
\* is ('cancelled' included).
Reply(j) ==
  /\ pc[j] = "reply" /\ trip[j] \in Rows
  /\ Await(j, "done")
  /\ IF job[j] = "none" THEN UNCHANGED <<job, progress>>
     ELSE /\ job' = [job EXCEPT ![j] = "completed"]
          /\ progress' = [progress EXCEPT ![j] = "complete"]
  /\ UNCHANGED <<aborted, frame, err, final, rowVars, userVars, bounds>>

\* findOne throws: the trip was deleted, or the query failed.
ReplyFails(j) ==
  /\ pc[j] = "reply" /\ (DbMayFail \/ trip[j] = "deleted")
  /\ Reject(j)
  /\ UNCHANGED <<aborted, frame, err, final, rowVars, userVars, bounds>>

-----------------------------------------------------------------------------
\* Compensation.

\* Where create goes once markTripFailed has returned (it never throws).
AfterMark(j) ==
  \/ j \in AiJobs /\ Await(j, "flag") /\ UNCHANGED <<job, progress, frame, err>>
  \/ j \notin AiJobs /\ frame[j] = "inner" /\ OuterCatch(j, err[j])
  \/ /\ j \notin AiJobs /\ frame[j] = "outer" /\ Reject(j)
     /\ UNCHANGED <<frame, err>>

\* UPDATE trips SET aiStatus = 'failed'; a deleted row is not affected.
MarkTripFailed(j) ==
  /\ pc[j] = "mark"
  /\ \/ trip' = IF trip[j] \in Rows THEN [trip EXCEPT ![j] = "failed"] ELSE trip
     \/ DbMayFail /\ UNCHANGED trip
  /\ AfterMark(j)
  /\ UNCHANGED <<aborted, final, itin, refunded, copy, stale, userVars, bounds>>

\* UPDATE trips SET quotaRefunded = true WHERE NOT quotaRefunded hits the row.
FlipRefundFlag(j) ==
  /\ pc[j] = "flag" /\ trip[j] \in Rows /\ ~refunded[j]
  /\ refunded' = [refunded EXCEPT ![j] = TRUE]
  /\ Await(j, "credit")
  /\ UNCHANGED <<jobVars, frame, err, final, trip, itin, copy, stale, userVars, bounds>>

\* It hits no row (refunded before, or trip gone), or fails and is logged.
SkipRefund(j) ==
  /\ pc[j] = "flag"
  /\ refunded[j] \/ trip[j] = "deleted" \/ DbMayFail
  /\ AfterRefund(j)
  /\ UNCHANGED <<aborted, final, rowVars, userVars, bounds>>

\* GREATEST(count - 1, 0) on the user row.
DecrementAiTripCount(j) ==
  LET u == Owner[j] IN
  /\ pc[j] = "credit" /\ u \notin Admins
  /\ RowFree(u)
  /\ used' = [used EXCEPT ![u] = IF @ > 0 THEN @ - 1 ELSE 0]
  /\ ledger' = [ledger EXCEPT ![j] = CASE @ = "charged" -> "refunded"
                                       [] @ = "carried" -> "lateRefund"
                                       [] OTHER         -> "overRefund"]
  /\ AfterRefund(j)
  /\ UNCHANGED <<aborted, final, rowVars, tier, rowLock, bounds>>

\* No decrement: the owner is an admin, or the statement fails and is logged.
SkipDecrement(j) ==
  /\ pc[j] = "credit"
  /\ Owner[j] \in Admins \/ DbMayFail
  /\ AfterRefund(j)
  /\ UNCHANGED <<aborted, final, rowVars, userVars, bounds>>
-----------------------------------------------------------------------------
\* The environment.

\* DELETE /trips/:id by the owner: the row and, by cascade, its itineraries.
RemoveTrip(j) ==
  /\ trip[j] \in Rows
  /\ trip' = [trip EXCEPT ![j] = "deleted"]
  /\ itin' = [itin EXCEPT ![j] = "none"]
  /\ UNCHANGED <<jobVars, ctlVars, refunded, copy, stale, userVars, bounds>>

\* A handler that will save the trip loads it: with its itineraries in the status
\* check of findAll and findOne (when the status that the dates call for is
\* another), in the daily job and in update, without them in generateShareToken.
LoadTrip(s, j) ==
  /\ copy[s] = NoCopy /\ trip[j] \in Rows /\ loads < MaxLoads
  /\ copy' = [copy EXCEPT ![s] = [of |-> j, trip |-> trip[j], refunded |-> refunded[j],
                                  itin |-> IF s \in WholeSavers THEN itin[j] ELSE "none"]]
  /\ loads' = loads + 1
  /\ UNCHANGED <<jobVars, ctlVars, trip, itin, refunded, stale, userVars, resets, crashes>>

\* TypeORM takes itineraries that the entity does not have out of the trip, and
\* itineraries."tripId" is NOT NULL: the save fails as a whole.
Orphans(s) == s \in WholeSavers /\ copy[s].itin = "none" /\ itin[copy[s].of] # "none"

\* The entity is saved: every column that differs from the row is written, and a
\* trip that was deleted meanwhile is inserted again.
SaveTrip(s) ==
  LET c == copy[s]  j == copy[s].of IN
  /\ c # NoCopy /\ ~Orphans(s)
  /\ trip' = [trip EXCEPT ![j] = c.trip]
  /\ refunded' = [refunded EXCEPT ![j] = c.refunded]
  /\ itin' = [itin EXCEPT ![j] = IF s \in WholeSavers THEN c.itin ELSE @]
  /\ stale' = [stale EXCEPT ![j] = @ \/ <<trip', itin', refunded'>> # <<trip, itin, refunded>>]
  /\ copy' = [copy EXCEPT ![s] = NoCopy]
  /\ UNCHANGED <<jobVars, ctlVars, userVars, bounds>>

SaveFails(s) ==
  /\ copy[s] # NoCopy /\ (DbMayFail \/ Orphans(s))
  /\ copy' = [copy EXCEPT ![s] = NoCopy]
  /\ UNCHANGED <<jobVars, ctlVars, trip, itin, refunded, stale, userVars, bounds>>

\* What a reset of the counters of the users in U does to the history.
CarryOver(U) ==
  ledger' = [j \in Jobs |->
               IF Owner[j] \notin U THEN ledger[j]
               ELSE CASE ledger[j] = "charged" -> "carried"
                      [] ledger[j] \in {"refunded", "lateRefund"} -> "closed"
                      [] OTHER -> ledger[j]]

\* Cron on the 1st of each month; the UPDATE waits for every row lock.
ResetMonthlyAiTripCounters ==
  /\ resets < MaxResets
  /\ \A u \in Users : RowFree(u)
  /\ used' = [u \in Users |-> 0]
  /\ CarryOver(Users)
  /\ resets' = resets + 1
  /\ UNCHANGED <<jobVars, ctlVars, rowVars, tier, rowLock, crashes, loads>>

\* The INITIAL_PURCHASE webhook: premium, and a fresh counter.
InitialPurchase(u) ==
  /\ resets < MaxResets
  /\ RowFree(u) /\ tier[u] = "free"
  /\ tier' = [tier EXCEPT ![u] = "premium"]
  /\ used' = [used EXCEPT ![u] = 0]
  /\ CarryOver({u})
  /\ resets' = resets + 1
  /\ UNCHANGED <<jobVars, ctlVars, rowVars, rowLock, crashes, loads>>

\* The EXPIRATION webhook: back to free, the counter stays.
Expiration(u) ==
  /\ RowFree(u) /\ tier[u] = "premium"
  /\ tier' = [tier EXCEPT ![u] = "free"]
  /\ UNCHANGED <<jobVars, ctlVars, rowVars, used, rowLock, ledger, bounds>>

\* The server restarts: the job store, every suspended create and every loaded
\* entity are lost, an open transaction rolls back, the database stays.
Restart ==
  /\ crashes < MaxCrashes
  /\ job' = [j \in Jobs |-> IF job[j] = "none" THEN "none" ELSE "gone"]
  /\ progress' = [j \in Jobs |-> "null"]
  /\ pc' = [j \in Jobs |-> IF Suspended(j) THEN "lost" ELSE pc[j]]
  /\ frame' = [j \in Jobs |-> "none"]
  /\ err' = [j \in Jobs |-> "none"]
  /\ final' = [j \in Jobs |-> "undefined"]
  /\ rowLock' = [u \in Users |-> NoJob]
  /\ crashes' = crashes + 1
  /\ copy' = [s \in Savers |-> NoCopy]
  /\ UNCHANGED <<aborted, trip, itin, refunded, stale, used, tier, ledger, resets, loads>>

\* Nothing is left to run.
Quiescent ==
  /\ \A j \in Jobs : pc[j] \in {"done", "lost"}
  /\ UNCHANGED vars

PhaseA(j) == \/ PhaseAManual(j) \/ LockUser(j) \/ LimitReached(j)
             \/ CommitPhaseA(j) \/ RollbackPhaseA(j)
PhaseB(j) == \/ Validate(j) \/ FetchWeather(j) \/ AfterWeather(j)
             \/ AiSucceeds(j) \/ AiFails(j) \/ AiCancelled(j) \/ MergeFallback(j)
PhaseC(j) == CommitPhaseC(j) \/ FailPhaseC(j) \/ Reply(j) \/ ReplyFails(j)
Compensate(j) == \/ MarkTripFailed(j) \/ FlipRefundFlag(j) \/ SkipRefund(j)
                 \/ DecrementAiTripCount(j) \/ SkipDecrement(j)

\* The steps the event loop owes a request it has accepted.
Run(j) == StartTripCreation(j) \/ PhaseA(j) \/ PhaseB(j) \/ PhaseC(j) \/ Compensate(j)

Next ==
  \/ \E j \in Jobs : \/ CreateAsync(j) \/ CreateSync(j) \/ CancelJob(j)
                     \/ CleanupJob(j) \/ RemoveTrip(j) \/ Run(j)
  \/ \E s \in Savers : \/ SaveTrip(s) \/ SaveFails(s)
                       \/ \E j \in Jobs : LoadTrip(s, j)
  \/ \E u \in Users : InitialPurchase(u) \/ Expiration(u)
  \/ ResetMonthlyAiTripCounters \/ Restart \/ Quiescent

Spec == Init /\ [][Next]_vars

\* Promises settle: every external call has a timeout, a row lock is held for
\* one short transaction, and the event loop starves no callback.
FairSpec == Spec /\ \A j \in Jobs : WF_vars(Run(j))

-----------------------------------------------------------------------------
(***************************************************************************)
(* Properties.                                                             *)
(***************************************************************************)

\* Types of the variables (entities trip.entity.ts, user.entity.ts, JobData).
Steps == {"null", "validating", "weather", "ai_generating", "saving", "complete",
          "error", "cancelled"}
ControlOK ==
  /\ job \in [Jobs -> {"none", "gone"} \cup Active \cup Terminal]
  /\ progress \in [Jobs -> Steps]
  /\ pc \in [Jobs -> {"idle", "done", "lost"} \cup Awaits]
  /\ frame \in [Jobs -> {"none", "inner", "fallback", "outer"}]
  /\ err \in [Jobs -> {"none", "cancelled", "failure"}]
Entity == [of : Jobs, trip : Rows, itin : {"none", "empty", "full"}, refunded : BOOLEAN]
DataOK ==
  /\ aborted \in [Jobs -> BOOLEAN]
  /\ final \in [Jobs -> {"undefined", "success", "failed"}]
  /\ trip \in [Jobs -> {"absent", "deleted"} \cup Rows]
  /\ itin \in [Jobs -> {"none", "empty", "full"}]
  /\ refunded \in [Jobs -> BOOLEAN]
  /\ copy \in [Savers -> {NoCopy} \cup Entity]
  /\ stale \in [Jobs -> BOOLEAN]
  /\ used \in [Users -> Nat]
  /\ tier \in [Users -> {"free", "premium"}]
  /\ rowLock \in [Users -> Jobs \cup {NoJob}]
  /\ ledger \in [Jobs -> {"none", "charged", "carried", "refunded",
                          "lateRefund", "closed", "overRefund"}]
  /\ resets \in 0..MaxResets /\ crashes \in 0..MaxCrashes /\ loads \in 0..MaxLoads
TypeOK == ControlOK /\ DataOK

\* restoreAiQuota runs on up to three failure branches of one request, yet the
\* counter is never decremented twice for a trip, nor for a trip that was not
\* charged.  The comment at trips.service.ts:134-142 says so without a condition;
\* the code keeps it unless a save puts back an entity that was loaded before the
\* flag was set (RefundOnceAlways is what the comment says, see the README).
RefundOnce       == \A j \in Jobs : stale[j] \/ ledger[j] # "overRefund"
RefundOnceAlways == \A j \in Jobs : ledger[j] # "overRefund"

\* The counter never counts more than the trips charged since the last reset and
\* not refunded, and counts all of them up to the refunds of trips charged before
\* that reset: those decrement a counter that no longer counts them, GREATEST(..,
\* 0) or not.  Only a trip that a save put back can be refunded once more.
CounterMatchesLedger ==
  \A u \in Users : /\ used[u] <= Cardinality(Live(u))
                   /\ \/ Cardinality(Live(u)) <= used[u] + Cardinality(Late(u))
                      \/ \E j \in Jobs : Owner[j] = u /\ stale[j]

\* An AI trip that reads 'success' has its AI itineraries, was charged (unless
\* its owner is an admin), and was not refunded on any branch, as long as no save
\* has put the trip back.
SuccessIsPaid ==
  \A j \in Jobs : trip[j] = "success" /\ ~stale[j] =>
    /\ itin[j] = "full" /\ ~refunded[j]
    /\ Owner[j] \in Admins \/ ledger[j] \in {"charged", "carried"}

\* With a database that answers, no request ends (a restart loses it instead)
\* with a quota unit spent on a trip that got no AI itineraries, unless its
\* owner deleted the trip (affected = 0 in restoreAiQuota) or a save put it back.
NoChargeForFailure ==
  \A j \in Jobs : pc[j] = "done" /\ ledger[j] \in {"charged", "carried"} =>
    trip[j] = "success" \/ trip[j] = "deleted" \/ stale[j]

\* With a database that answers, a request nobody cancelled, and no restart lost,
\* leaves no trip in 'generating' unless a save put it back to that.
UncancelledTripSettles ==
  \A j \in Jobs : pc[j] = "done" /\ ~aborted[j] => trip[j] # "generating" \/ stale[j]

\* The counter grows only while it is below the limit of the tier in force at
\* that moment: the row lock keeps the check true until the increment.
QuotaNeverOverrun ==
  [][\A u \in Users : used'[u] > used[u] => used'[u] <= Limit(u)]_vars

\* The verdict shown on a trip never flips, whichever branches run after it; only
\* a save of the whole entity can put the trip back.
VerdictStands ==
  [][\A j \in Jobs : trip[j] \in {"success", "failed"} =>
       trip'[j] \in {trip[j], "deleted"} \/ stale'[j]]_vars

\* Every accepted request comes to an end, or is lost with the server, and its job
\* comes to a status on which the client stops polling or is gone.
JobSettles ==
  \A j \in Jobs : Suspended(j) ~> pc[j] \in {"done", "lost"} /\ job[j] \notin Active

\* A cancellation that arrives before phase C gives the quota unit back, unless
\* the owner deletes the trip as well or the server restarts meanwhile.
CancelRefunds ==
  \A j \in Jobs :
    /\ aborted[j] /\ ledger[j] = "charged"
    /\ pc[j] \in {"validate", "locating", "weather", "generating", "merge"}
    ~> ledger[j] \in {"refunded", "lateRefund", "closed"} \/ trip[j] = "deleted" \/ pc[j] = "lost"

\* What makes those invariants inductive, part by part.

\* The row lock belongs to the request that is about to increment the counter,
\* and the limit it has checked still holds.
LockInv ==
  /\ \A u \in Users : rowLock[u] # NoJob =>
       Owner[rowLock[u]] = u /\ pc[rowLock[u]] = "charge"
  /\ \A j \in Jobs : pc[j] = "charge" =>
       /\ j \in AiJobs /\ rowLock[Owner[j]] = j
       /\ Owner[j] \in Admins \/ used[Owner[j]] < Limit(Owner[j])

\* How far a request has come tells what its rows look like, until a save puts
\* the trip back.
BeforeRow == {"idle", "queued", "phaseA", "charge"}
BeforeSave == {"validate", "locating", "weather", "generating", "merge", "saving"}
RowsFit(j) ==
  /\ pc[j] \in BeforeSave \/ (pc[j] \in {"flag", "credit"} /\ frame[j] = "fallback")
       => trip[j] \in {"none", "generating", "deleted"}
  /\ pc[j] \in BeforeSave \ {"merge", "saving"} => ~refunded[j]
  /\ pc[j] = "saving" /\ final[j] = "success" => ~refunded[j]
  /\ trip[j] = "success" => pc[j] \in {"reply", "done", "lost"} /\ itin[j] = "full"
  /\ IF j \in AiJobs THEN trip[j] # "none" ELSE trip[j] \notin {"generating", "success"}
Flow(j) ==
  /\ pc[j] \in BeforeRow => trip[j] = "absent" /\ frame[j] = "none"
  /\ pc[j] \in Awaits \ BeforeRow => trip[j] # "absent"
  /\ trip[j] = "absent" => ~refunded[j] /\ ledger[j] = "none" /\ ~stale[j]
  /\ pc[j] \in BeforeSave \ {"merge", "saving"} => frame[j] = "none"
  /\ pc[j] = "merge" => frame[j] = "fallback"
  /\ pc[j] = "mark" => frame[j] # "fallback"
  /\ frame[j] = "fallback" => final[j] = "failed"
  /\ j \notin AiJobs => /\ pc[j] \notin {"generating", "merge", "flag", "credit"}
                        /\ final[j] = "undefined"
  /\ stale[j] \/ RowsFit(j)
CopyInv == \A s \in Savers : copy[s] # NoCopy => trip[copy[s].of] # "absent"
FlowInv == CopyInv /\ \A j \in Jobs : Flow(j)

\* A charged trip that is not refunded still has its unit in the ledger, until a
\* save puts the trip back.
UnitKept(j) ==
  /\ ledger[j] # "overRefund"
  /\ trip[j] # "absent" /\ j \in AiJobs /\ Owner[j] \notin Admins
       /\ (~refunded[j] \/ pc[j] = "credit") => ledger[j] \in {"charged", "carried"}
  /\ pc[j] = "credit" => refunded[j]
  /\ trip[j] = "success" => ~refunded[j]
LedgerInv == \A j \in Jobs : stale[j] \/ UnitKept(j)

IInv == TypeOK /\ LockInv /\ FlowInv /\ LedgerInv

\* And with a database that answers (DbMayFail = FALSE), part by part.

\* The unit is still spent.
Spent(j) == ledger[j] \in {"charged", "carried"}

\* Once the refund flag is set the unit is given back before the request goes on, and
\* a trip that gets no AI itineraries is not saved before that.
RefundFirst(j) ==
  /\ refunded[j] /\ pc[j] \notin {"credit", "lost"} => ~Spent(j)
  /\ pc[j] = "merge" \/ (pc[j] = "saving" /\ final[j] # "success")
       => ~Spent(j) \/ trip[j] = "deleted"
  /\ pc[j] \in {"reply", "done"} => ~Spent(j) \/ trip[j] \in {"success", "deleted"}
RefundInv ==
  \A j \in Jobs :
    /\ Spent(j) => j \in AiJobs /\ Owner[j] \notin Admins
    /\ stale[j] \/ RefundFirst(j)

\* An AI request that is neither cancelled nor going to its verdict has it.
Settled(j) ==
  /\ pc[j] = "reply" => trip[j] # "generating"
  /\ pc[j] = "done" \/ (pc[j] \in {"flag", "credit"} /\ frame[j] # "fallback")
       => trip[j] # "generating" \/ aborted[j]
VerdictInv ==
  \A j \in Jobs :
    /\ err[j] = "cancelled" => aborted[j]
    /\ pc[j] = "saving" /\ j \in AiJobs => final[j] # "undefined"
    /\ stale[j] \/ Settled(j)

SettleInv == RefundInv /\ VerdictInv

\* The promise to the user, AiTripOrder, read off the rows of the database.
OrderOf(t) == CASE t = "absent"     -> "none"
                [] t = "generating" -> "open"
                [] t = "success"    -> "delivered"
                [] t = "failed"     -> "failed"
                [] OTHER            -> "withdrawn"
Order == INSTANCE AiTripOrder WITH
  Orders <- AiJobs,
  order  <- [j \in AiJobs |-> IF stale[j] THEN "overwritten" ELSE OrderOf(trip[j])],
  billed <- [j \in AiJobs |-> trip[j] # "absent" /\ ~refunded[j] /\ ~stale[j]]
ImplementsOrder == Order!Spec
=============================================================================
