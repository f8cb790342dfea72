------------------------- MODULE TripCreationProofs -------------------------
(***************************************************************************)
(* Theorems about TripCreation, for every finite set of requests and every *)
(* limit of the quota.                                                     *)
(***************************************************************************)
EXTENDS TripCreation, FiniteSetTheorems, TLAPS

-----------------------------------------------------------------------------
(* Types.  The helpers that move a request to its next await come first. *)

LEMMA EmitType ==
  ASSUME ControlOK, NEW j \in Jobs, NEW s \in Steps, Emit(j, s)
  PROVE  progress' \in [Jobs -> Steps]
BY DEF ControlOK, Emit

LEMMA RejectType ==
  ASSUME ControlOK, NEW j \in Jobs, Reject(j)
  PROVE  /\ job' \in [Jobs -> {"none", "gone"} \cup Active \cup Terminal]
         /\ progress' \in [Jobs -> Steps]
         /\ pc' \in [Jobs -> {"idle", "done", "lost"} \cup Awaits]
BY EmitType DEF ControlOK, Reject, Await, Terminal, Steps

LEMMA OuterCatchType ==
  ASSUME ControlOK, NEW j \in Jobs, NEW e \in {"none", "cancelled", "failure"},
         OuterCatch(j, e)
  PROVE  ControlOK'
BY RejectType DEF ControlOK, OuterCatch, Await, Awaits

LEMMA InnerCatchType ==
  ASSUME ControlOK, NEW j \in Jobs, NEW e \in {"cancelled", "failure"},
         InnerCatch(j, e), UNCHANGED <<job, progress>>
  PROVE  ControlOK'
BY DEF ControlOK, InnerCatch, Await, Awaits

LEMMA AfterRefundType ==
  ASSUME ControlOK, NEW j \in Jobs, AfterRefund(j)
  PROVE  ControlOK'
<1>1. err[j] \in {"none", "cancelled", "failure"}
  BY DEF ControlOK
<1>2. CASE frame[j] = "inner" /\ OuterCatch(j, err[j])
  BY <1>1, <1>2, OuterCatchType
<1>3. CASE frame[j] = "fallback" /\ Await(j, "merge") /\ UNCHANGED <<job, progress, frame, err>>
  BY <1>3 DEF ControlOK, Await, Awaits
<1>4. CASE Reject(j) /\ UNCHANGED <<frame, err>>
  BY <1>4, RejectType DEF ControlOK
<1> QED
  BY <1>2, <1>3, <1>4 DEF AfterRefund

LEMMA AfterMarkType ==
  ASSUME ControlOK, NEW j \in Jobs, AfterMark(j)
  PROVE  ControlOK'
<1>1. err[j] \in {"none", "cancelled", "failure"}
  BY DEF ControlOK
<1>2. CASE Await(j, "flag") /\ UNCHANGED <<job, progress, frame, err>>
  BY <1>2 DEF ControlOK, Await, Awaits
<1>3. CASE OuterCatch(j, err[j])
  BY <1>1, <1>3, OuterCatchType
<1>4. CASE Reject(j) /\ UNCHANGED <<frame, err>>
  BY <1>4, RejectType DEF ControlOK
<1> QED
  BY <1>2, <1>3, <1>4 DEF AfterMark

LEMMA TypeStep == ASSUME TypeOK, [Next]_vars PROVE TypeOK'
<1> USE RequestsAssumption, BoundsAssumption DEF TypeOK
<1>1. ASSUME NEW j \in Jobs, PhaseA(j) PROVE TypeOK'
  <2>0. Owner[j] \in Users
    OBVIOUS
  <2>1. CASE PhaseAManual(j)
    BY <2>1 DEF PhaseAManual, ControlOK, DataOK, Await, Awaits, Rows, jobVars, userVars, bounds
  <2>2. CASE LockUser(j)
    BY <2>0, <2>2 DEF LockUser, ControlOK, DataOK, Await, Awaits, jobVars, rowVars, bounds
  <2>3. CASE LimitReached(j)
    BY <2>3, RejectType DEF LimitReached, ControlOK, DataOK, rowVars, userVars, bounds
  <2>4. CASE CommitPhaseA(j)
    BY <2>0, <2>4 DEF CommitPhaseA, ControlOK, DataOK, Await, Awaits, Rows, jobVars, bounds
  <2>5. CASE RollbackPhaseA(j)
    BY <2>0, <2>5, RejectType DEF RollbackPhaseA, ControlOK, DataOK, rowVars, bounds
  <2> QED
    BY <1>1, <2>1, <2>2, <2>3, <2>4, <2>5 DEF PhaseA
<1>2. ASSUME NEW j \in Jobs, PhaseB(j) PROVE TypeOK'
  <2>1. CASE Validate(j)
    BY <2>1, OuterCatchType, EmitType DEF Validate, ControlOK, DataOK, Steps, Await, Awaits, rowVars, userVars, bounds
  <2>2. CASE FetchWeather(j)
    BY <2>2, OuterCatchType, InnerCatchType, EmitType
    DEF FetchWeather, ControlOK, DataOK, Steps, Await, Awaits, rowVars, userVars, bounds
  <2>3. CASE AfterWeather(j)
    BY <2>3, OuterCatchType, InnerCatchType, EmitType
    DEF AfterWeather, ControlOK, DataOK, Steps, Await, Awaits, rowVars, userVars, bounds
  <2>4. CASE AiSucceeds(j)
    BY <2>4, EmitType DEF AiSucceeds, ControlOK, DataOK, Steps, Await, Awaits, rowVars, userVars, bounds
  <2>5. CASE AiFails(j)
    BY <2>5, EmitType DEF AiFails, ControlOK, DataOK, Steps, Await, Awaits, rowVars, userVars, bounds
  <2>6. CASE AiCancelled(j)
    BY <2>6, InnerCatchType DEF AiCancelled, DataOK, jobVars, rowVars, userVars, bounds
  <2>7. CASE MergeFallback(j)
    BY <2>7, OuterCatchType, EmitType DEF MergeFallback, ControlOK, DataOK, Steps, Await, Awaits, rowVars, userVars, bounds
  <2> QED
    BY <1>2, <2>1, <2>2, <2>3, <2>4, <2>5, <2>6, <2>7 DEF PhaseB
<1>3. ASSUME NEW j \in Jobs, PhaseC(j) PROVE TypeOK'
  <2>1. CASE CommitPhaseC(j)
    BY <2>1, EmitType DEF CommitPhaseC, ControlOK, DataOK, Steps, Rows, Await, Awaits, userVars, bounds
  <2>2. CASE FailPhaseC(j)
    BY <2>2, InnerCatchType DEF FailPhaseC, DataOK, jobVars, rowVars, userVars, bounds
  <2>3. CASE Reply(j)
    <3>1. /\ pc' = [pc EXCEPT ![j] = "done"]
          /\ job' = job \/ job' = [job EXCEPT ![j] = "completed"]
          /\ progress' = progress \/ progress' = [progress EXCEPT ![j] = "complete"]
          /\ UNCHANGED <<aborted, frame, err, final, rowVars, userVars, bounds>>
      BY <2>3 DEF Reply, Await
    <3>2. ControlOK'
      BY <3>1 DEF ControlOK, Steps, Terminal
    <3> QED
      BY <3>1, <3>2 DEF DataOK, rowVars, userVars, bounds
  <2>4. CASE ReplyFails(j)
    BY <2>4, RejectType DEF ReplyFails, ControlOK, DataOK, rowVars, userVars, bounds
  <2> QED
    BY <1>3, <2>1, <2>2, <2>3, <2>4 DEF PhaseC
<1>4. ASSUME NEW j \in Jobs, Compensate(j) PROVE TypeOK'
  <2>0. Owner[j] \in Users
    OBVIOUS
  <2>1. CASE MarkTripFailed(j)
    BY <2>1, AfterMarkType DEF MarkTripFailed, DataOK, Rows, userVars, bounds
  <2>2. CASE FlipRefundFlag(j)
    BY <2>2 DEF FlipRefundFlag, ControlOK, DataOK, Await, Awaits, jobVars, userVars, bounds
  <2>3. CASE SkipRefund(j)
    BY <2>3, AfterRefundType DEF SkipRefund, DataOK, rowVars, userVars, bounds
  <2>4. CASE DecrementAiTripCount(j)
    BY <2>0, <2>4, AfterRefundType DEF DecrementAiTripCount, DataOK, rowVars, bounds
  <2>5. CASE SkipDecrement(j)
    BY <2>5, AfterRefundType DEF SkipDecrement, DataOK, rowVars, userVars, bounds
  <2> QED
    BY <1>4, <2>1, <2>2, <2>3, <2>4, <2>5 DEF Compensate
<1>5. ASSUME NEW j \in Jobs,
             \/ CreateAsync(j) \/ CreateSync(j) \/ StartTripCreation(j)
             \/ CancelJob(j) \/ CleanupJob(j) \/ RemoveTrip(j)
      PROVE  TypeOK'
  <2>1. CASE CreateAsync(j)
    BY <2>1 DEF CreateAsync, ControlOK, DataOK, Active, Await, Awaits, rowVars, userVars, bounds
  <2>2. CASE CreateSync(j)
    BY <2>2 DEF CreateSync, ControlOK, DataOK, Await, Awaits, jobVars, rowVars, userVars, bounds
  <2>3. CASE StartTripCreation(j)
    BY <2>3 DEF StartTripCreation, ControlOK, DataOK, Active, Await, Awaits, rowVars, userVars, bounds
  <2>4. CASE CancelJob(j)
    BY <2>4 DEF CancelJob, ControlOK, DataOK, Terminal, Steps, ctlVars, rowVars, userVars, bounds
  <2>5. CASE CleanupJob(j)
    BY <2>5 DEF CleanupJob, ControlOK, DataOK, Steps, ctlVars, rowVars, userVars, bounds
  <2>6. CASE RemoveTrip(j)
    BY <2>6 DEF RemoveTrip, ControlOK, DataOK, jobVars, ctlVars, userVars, bounds
  <2> QED
    BY <1>5, <2>1, <2>2, <2>3, <2>4, <2>5, <2>6
<1>6. ASSUME NEW u \in Users, InitialPurchase(u) \/ Expiration(u) PROVE TypeOK'
  BY <1>6 DEF InitialPurchase, Expiration, CarryOver, ControlOK, DataOK,
     jobVars, ctlVars, rowVars, bounds
<1>7. CASE ResetMonthlyAiTripCounters
  BY <1>7 DEF ResetMonthlyAiTripCounters, CarryOver, ControlOK, DataOK, jobVars, ctlVars, rowVars
<1>8. CASE Restart
  BY <1>8 DEF Restart, ControlOK, DataOK, Steps, rowVars
<1>9. ASSUME NEW s \in Savers, SaveTrip(s) \/ SaveFails(s) \/ \E j \in Jobs : LoadTrip(s, j)
      PROVE  TypeOK'
  <2>1. CASE SaveTrip(s)
    <3>1. copy[s] \in Entity
      BY <2>1 DEF SaveTrip, DataOK
    <3> QED
      BY <2>1, <3>1 DEF SaveTrip, ControlOK, DataOK, Entity, Rows, jobVars, ctlVars, userVars, bounds
  <2>2. CASE SaveFails(s)
    BY <2>2 DEF SaveFails, ControlOK, DataOK, jobVars, ctlVars, userVars, bounds
  <2>3. ASSUME NEW j \in Jobs, LoadTrip(s, j) PROVE TypeOK'
    BY <2>3 DEF LoadTrip, ControlOK, DataOK, Entity, Rows, jobVars, ctlVars, userVars
  <2> QED
    BY <1>9, <2>1, <2>2, <2>3
<1>10. CASE UNCHANGED vars
  BY <1>10 DEF vars, jobVars, ctlVars, rowVars, userVars, bounds, ControlOK, DataOK
<1> QED
  BY <1>1, <1>2, <1>3, <1>4, <1>5, <1>6, <1>7, <1>8, <1>9, <1>10 DEF Next, Run, Quiescent
-----------------------------------------------------------------------------
(* Where the helpers send a request, as far as the invariants can tell. *)

LEMMA AwaitFlow ==
  ASSUME TypeOK, NEW j \in Jobs, NEW l, Await(j, l)
  PROVE  pc' = [pc EXCEPT ![j] = pc'[j]] /\ pc'[j] = l
BY DEF Await, TypeOK, ControlOK

LEMMA OuterCatchFlow ==
  ASSUME TypeOK, NEW j \in Jobs, NEW e, OuterCatch(j, e)
  PROVE  /\ pc' = [pc EXCEPT ![j] = pc'[j]]
         /\ pc'[j] \in {"mark", "flag", "done"}
         /\ pc'[j] = "flag" => j \in AiJobs
         /\ pc'[j] = "done" => j \notin AiJobs
         /\ pc'[j] = "mark" <=> e # "cancelled"
         /\ frame' = [frame EXCEPT ![j] = "outer"]
         /\ err' = [err EXCEPT ![j] = e]
BY DEF OuterCatch, Reject, Await, TypeOK, ControlOK

LEMMA AfterRefundFlow ==
  ASSUME TypeOK, NEW j \in Jobs, AfterRefund(j)
  PROVE  /\ pc' = [pc EXCEPT ![j] = pc'[j]]
         /\ pc'[j] \in {"mark", "flag", "done", "merge"}
         /\ pc'[j] = "flag" => j \in AiJobs
         /\ pc'[j] = "merge" <=> frame[j] = "fallback"
         /\ frame' = [frame EXCEPT ![j] = frame'[j]]
         /\ frame'[j] = IF frame[j] = "fallback" THEN "fallback" ELSE "outer"
         /\ pc'[j] = "flag" => err[j] = "cancelled"
         /\ err' = err
<1>1. CASE frame[j] = "inner" /\ OuterCatch(j, err[j])
  BY <1>1, OuterCatchFlow DEF TypeOK, ControlOK
<1>2. CASE frame[j] = "fallback" /\ Await(j, "merge") /\ UNCHANGED <<job, progress, frame, err>>
  BY <1>2 DEF Await, TypeOK, ControlOK
<1>3. CASE frame[j] = "outer" /\ Reject(j) /\ UNCHANGED <<frame, err>>
  BY <1>3 DEF Reject, Await, TypeOK, ControlOK
<1> QED
  BY <1>1, <1>2, <1>3 DEF AfterRefund

LEMMA AfterMarkFlow ==
  ASSUME TypeOK, NEW j \in Jobs, AfterMark(j)
  PROVE  /\ pc' = [pc EXCEPT ![j] = pc'[j]]
         /\ pc'[j] \in {"mark", "flag", "done"}
         /\ pc'[j] = "flag" => j \in AiJobs /\ frame'[j] = frame[j]
         /\ pc'[j] # "flag" => j \notin AiJobs
         /\ frame' = [frame EXCEPT ![j] = frame'[j]]
         /\ frame'[j] \in {frame[j], "outer"}
         /\ err' = err
<1>1. CASE Await(j, "flag") /\ j \in AiJobs /\ UNCHANGED <<job, progress, frame, err>>
  BY <1>1 DEF Await, TypeOK, ControlOK
<1>2. CASE j \notin AiJobs /\ OuterCatch(j, err[j])
  BY <1>2, OuterCatchFlow DEF TypeOK, ControlOK
<1>3. CASE j \notin AiJobs /\ Reject(j) /\ UNCHANGED <<frame, err>>
  BY <1>3 DEF Reject, Await, TypeOK, ControlOK
<1> QED
  BY <1>1, <1>2, <1>3 DEF AfterMark

-----------------------------------------------------------------------------
(* The savers. *)

Saver(s) == SaveTrip(s) \/ SaveFails(s) \/ \E j \in Jobs : LoadTrip(s, j)

\* The savers touch no control, and the rows of at most one trip, then stale.
Overwritten(j) ==
  /\ trip[j] # "absent" /\ trip'[j] # "absent" /\ stale'[j]
  /\ \A i \in Jobs \ {j} : /\ trip'[i] = trip[i] /\ itin'[i] = itin[i]
                          /\ refunded'[i] = refunded[i] /\ stale'[i] = stale[i]

LEMMA SaverStep ==
  ASSUME TypeOK, CopyInv, NEW s \in Savers, Saver(s)
  PROVE  /\ UNCHANGED <<jobVars, ctlVars, userVars>>
         /\ UNCHANGED <<trip, itin, refunded, stale>> \/ \E j \in Jobs : Overwritten(j)
         /\ CopyInv'
<1> USE DEF TypeOK, DataOK, CopyInv
<1>1. CASE SaveTrip(s)
  <2> DEFINE j == copy[s].of
  <2>1. j \in Jobs /\ copy[s].trip \in Rows /\ trip[j] # "absent"
    BY <1>1 DEF SaveTrip, Entity
  <2>2. /\ trip' = [trip EXCEPT ![j] = copy[s].trip]
        /\ refunded' = [refunded EXCEPT ![j] = copy[s].refunded]
        /\ itin' = [itin EXCEPT ![j] = IF s \in WholeSavers THEN copy[s].itin ELSE @]
        /\ copy' = [copy EXCEPT ![s] = NoCopy]
        /\ UNCHANGED <<jobVars, ctlVars, userVars>>
    BY <1>1 DEF SaveTrip
  <2>3. stale' = [stale EXCEPT ![j] = @ \/ <<trip', itin', refunded'>> # <<trip, itin, refunded>>]
    BY <1>1 DEF SaveTrip
  <2>a. \A i \in Jobs : trip[i] # "absent" => trip'[i] # "absent"
    BY <2>1, <2>2 DEF Rows
  <2>b. \A t \in Savers : copy'[t] = NoCopy \/ (copy'[t] = copy[t] /\ copy[t].of \in Jobs)
    BY <2>2 DEF Entity
  <2>4. trip'[j] # "absent" /\ CopyInv'
    BY <2>1, <2>a, <2>b
  <2>5. CASE stale[j] \/ <<trip', itin', refunded'>> # <<trip, itin, refunded>>
    <3>1. stale'[j]
      BY <2>1, <2>3, <2>5
    <3>2. Overwritten(j)
      BY <2>1, <2>2, <2>3, <2>4, <3>1 DEF Overwritten
    <3> QED
      BY <2>1, <2>2, <2>4, <3>2
  <2>6. CASE ~(stale[j] \/ <<trip', itin', refunded'>> # <<trip, itin, refunded>>)
    <3>1. UNCHANGED <<trip, itin, refunded>>
      BY <2>6
    <3>2. stale' = stale
      BY <2>1, <2>3, <2>6
    <3> QED
      BY <2>2, <2>4, <3>1, <3>2
  <2> QED
    BY <2>5, <2>6
<1>2. CASE SaveFails(s)
  BY <1>2 DEF SaveFails
<1>3. ASSUME NEW j \in Jobs, LoadTrip(s, j)
      PROVE  UNCHANGED <<jobVars, ctlVars, userVars, trip, itin, refunded, stale>> /\ CopyInv'
  BY <1>3 DEF LoadTrip, Rows
<1> QED
  BY <1>1, <1>2, <1>3 DEF Saver

\* No other step is seen by the savers, but for a restart that drops them.
LEMMA CopyStep ==
  ASSUME TypeOK, CopyInv, [Next]_vars
  PROVE  /\ CopyInv'
         /\ stale' = stale \/ \E s \in Savers : Saver(s)
         /\ \A j \in Jobs : stale[j] => stale'[j]
<1> USE DEF TypeOK, DataOK
<1>1. ASSUME copy' = copy, stale' = stale, \A j \in Jobs : trip[j] # "absent" => trip'[j] # "absent"
      PROVE  CopyInv' /\ stale' = stale
  BY <1>1 DEF CopyInv, Entity
<1>2. ASSUME NEW j \in Jobs, Run(j) PROVE CopyInv' /\ stale' = stale
  <2>1. CASE PhaseA(j)
    BY <1>1, <2>1 DEF PhaseA, PhaseAManual, LockUser, LimitReached, CommitPhaseA, RollbackPhaseA, rowVars
  <2>2. CASE PhaseB(j)
    BY <1>1, <2>2 DEF PhaseB, Validate, FetchWeather, AfterWeather, AiSucceeds, AiFails, AiCancelled,
       MergeFallback, rowVars
  <2>3. CASE CommitPhaseC(j)
    <3>1. /\ copy' = copy /\ stale' = stale /\ trip[j] \in Rows
          /\ trip' = [trip EXCEPT ![j] = IF final[j] = "undefined" THEN @ ELSE final[j]]
          /\ final[j] \in {"undefined", "success", "failed"}
      BY <2>3 DEF CommitPhaseC
    <3> QED
      BY <1>1, <3>1
  <2>4. CASE FailPhaseC(j) \/ Reply(j) \/ ReplyFails(j) \/ StartTripCreation(j)
    BY <1>1, <2>4 DEF FailPhaseC, Reply, ReplyFails, StartTripCreation, rowVars
  <2>5. CASE Compensate(j)
    BY <1>1, <2>5 DEF Compensate, MarkTripFailed, FlipRefundFlag, SkipRefund, DecrementAiTripCount,
       SkipDecrement, rowVars
  <2> QED
    BY <1>2, <2>1, <2>2, <2>3, <2>4, <2>5 DEF Run, PhaseC
<1>3. ASSUME NEW j \in Jobs, \/ CreateAsync(j) \/ CreateSync(j) \/ CancelJob(j)
                             \/ CleanupJob(j) \/ RemoveTrip(j)
      PROVE  CopyInv' /\ stale' = stale
  BY <1>1, <1>3 DEF CreateAsync, CreateSync, CancelJob, CleanupJob, RemoveTrip, rowVars
<1>4. ASSUME NEW u \in Users, InitialPurchase(u) \/ Expiration(u) PROVE CopyInv' /\ stale' = stale
  BY <1>1, <1>4 DEF InitialPurchase, Expiration, rowVars
<1>5. CASE ResetMonthlyAiTripCounters \/ UNCHANGED vars
  BY <1>1, <1>5 DEF ResetMonthlyAiTripCounters, vars, rowVars
<1>6. CASE Restart
  BY <1>6 DEF Restart, CopyInv
<1>7. ASSUME NEW s \in Savers, Saver(s) PROVE CopyInv' /\ \A j \in Jobs : stale[j] => stale'[j]
  BY <1>7, SaverStep DEF Overwritten
<1> QED
  BY <1>2, <1>3, <1>4, <1>5, <1>6, <1>7 DEF Next, Quiescent, Saver

-----------------------------------------------------------------------------
(* The row lock. *)

LEMMA LockStep == ASSUME TypeOK, CopyInv, LockInv, [Next]_vars PROVE LockInv'
<1> USE RequestsAssumption DEF LockInv
<1>0. \A j \in Jobs : Owner[j] \in Users
  OBVIOUS
\* A step that leaves the lock, the counter and the tier alone, and moves one
\* request between two awaits other than "charge".
<1>1. ASSUME NEW j \in Jobs, UNCHANGED <<used, tier, rowLock>>,
             pc' = [pc EXCEPT ![j] = pc'[j]], pc[j] # "charge", pc'[j] # "charge"
      PROVE  LockInv'
  BY <1>0, <1>1 DEF TypeOK, ControlOK, DataOK, Limit
<1>2. ASSUME NEW j \in Jobs, PhaseA(j) PROVE LockInv'
  <2>1. CASE PhaseAManual(j)
    BY <1>1, <2>1, AwaitFlow DEF PhaseAManual, userVars
  <2>2. CASE LockUser(j)
    BY <1>0, <2>2 DEF LockUser, RowFree, Await, TypeOK, ControlOK, DataOK, Limit
  <2>3. CASE LimitReached(j)
    BY <1>1, <2>3, AwaitFlow DEF LimitReached, Reject, userVars
  <2>4. CASE CommitPhaseA(j)
    BY <1>0, <2>4 DEF CommitPhaseA, Await, TypeOK, ControlOK, DataOK, Limit
  <2>5. CASE RollbackPhaseA(j)
    BY <1>0, <2>5 DEF RollbackPhaseA, Reject, Await, TypeOK, ControlOK, DataOK, Limit
  <2> QED
    BY <1>2, <2>1, <2>2, <2>3, <2>4, <2>5 DEF PhaseA
<1>3. ASSUME NEW j \in Jobs, PhaseB(j) PROVE LockInv'
  <2>1. CASE Validate(j) \/ FetchWeather(j) \/ MergeFallback(j)
    BY <1>1, <2>1, OuterCatchFlow
    DEF Validate, FetchWeather, MergeFallback, InnerCatch, Await, userVars, TypeOK, ControlOK
  <2>2. CASE AfterWeather(j)
    BY <1>1, <2>2, OuterCatchFlow DEF AfterWeather, InnerCatch, Await, userVars, TypeOK, ControlOK
  <2>3. CASE AiSucceeds(j) \/ AiFails(j) \/ AiCancelled(j)
    BY <1>1, <2>3 DEF AiSucceeds, AiFails, AiCancelled, InnerCatch, Await, userVars, TypeOK, ControlOK
  <2> QED
    BY <1>3, <2>1, <2>2, <2>3 DEF PhaseB
<1>4. ASSUME NEW j \in Jobs, PhaseC(j) PROVE LockInv'
  BY <1>1, <1>4 DEF PhaseC, CommitPhaseC, FailPhaseC, Reply, ReplyFails, InnerCatch, Reject,
     Await, userVars, TypeOK, ControlOK
<1>5. ASSUME NEW j \in Jobs, Compensate(j) PROVE LockInv'
  <2>1. CASE MarkTripFailed(j)
    BY <1>1, <2>1, AfterMarkFlow DEF MarkTripFailed, userVars
  <2>2. CASE FlipRefundFlag(j)
    BY <1>1, <2>2, AwaitFlow DEF FlipRefundFlag, userVars
  <2>3. CASE SkipRefund(j) \/ SkipDecrement(j)
    BY <1>1, <2>3, AfterRefundFlow DEF SkipRefund, SkipDecrement, userVars
  <2>4. CASE DecrementAiTripCount(j)
    <3>1. /\ pc' = [pc EXCEPT ![j] = pc'[j]] /\ pc[j] = "credit" /\ pc'[j] # "charge"
          /\ UNCHANGED <<tier, rowLock>> /\ rowLock[Owner[j]] = NoJob
          /\ used' = [used EXCEPT ![Owner[j]] = used'[Owner[j]]]
      BY <1>0, <2>4, AfterRefundFlow DEF DecrementAiTripCount, RowFree, TypeOK, DataOK
    <3> QED
      BY <1>0, <3>1 DEF TypeOK, ControlOK, DataOK, Limit
  <2> QED
    BY <1>5, <2>1, <2>2, <2>3, <2>4 DEF Compensate
<1>6. ASSUME NEW j \in Jobs,
             \/ CreateAsync(j) \/ CreateSync(j) \/ StartTripCreation(j)
             \/ CancelJob(j) \/ CleanupJob(j) \/ RemoveTrip(j)
      PROVE  LockInv'
  <2>1. CASE CreateAsync(j) \/ CreateSync(j) \/ StartTripCreation(j)
    BY <1>1, <2>1 DEF CreateAsync, CreateSync, StartTripCreation, Await, userVars, TypeOK, ControlOK
  <2>2. CASE CancelJob(j) \/ CleanupJob(j) \/ RemoveTrip(j)
    BY <2>2 DEF CancelJob, CleanupJob, RemoveTrip, ctlVars, userVars, Limit
  <2> QED
    BY <1>6, <2>1, <2>2
<1>7. ASSUME NEW u \in Users, InitialPurchase(u) \/ Expiration(u) PROVE LockInv'
  BY <1>0, <1>7 DEF InitialPurchase, Expiration, RowFree, ctlVars, TypeOK, ControlOK, DataOK, Limit
<1>8. CASE ResetMonthlyAiTripCounters
  BY <1>0, <1>8 DEF ResetMonthlyAiTripCounters, RowFree, ctlVars, TypeOK, ControlOK, DataOK, Limit
<1>9. CASE Restart
  BY <1>0, <1>9 DEF Restart, Suspended, Awaits, TypeOK, ControlOK, DataOK, Limit
<1>10. CASE UNCHANGED vars
  BY <1>10 DEF vars, ctlVars, userVars, Limit
<1>11. ASSUME NEW s \in Savers, Saver(s) PROVE LockInv'
  BY <1>11, SaverStep DEF ctlVars, userVars, Limit
<1> QED
  BY <1>2, <1>3, <1>4, <1>5, <1>6, <1>7, <1>8, <1>9, <1>10, <1>11 DEF Next, Run, Quiescent, Saver

-----------------------------------------------------------------------------
(* How far a request has come, and what its rows look like. *)

LEMMA FlowStep == ASSUME TypeOK, LockInv, FlowInv, [Next]_vars PROVE FlowInv'
<1>0. \A j \in Jobs : Flow(j)
  BY DEF FlowInv
<1>c. CopyInv'
  BY CopyStep DEF FlowInv
<1>00. (\A j \in Jobs : Flow(j)') => FlowInv'
  BY <1>c DEF FlowInv
<1> DEFINE Same(i) ==
      /\ pc'[i] = pc[i] /\ frame'[i] = frame[i] /\ final'[i] = final[i]
      /\ trip'[i] = trip[i] /\ itin'[i] = itin[i]
      /\ refunded'[i] = refunded[i] /\ ledger'[i] = ledger[i]
      /\ stale'[i] = stale[i]
\* A step of one request leaves the rows and the control of the others alone.
<1>1. ASSUME NEW j \in Jobs, Flow(j)', \A i \in Jobs \ {j} : Same(i)
      PROVE  FlowInv'
  <2> SUFFICES ASSUME NEW i \in Jobs, i # j PROVE Flow(i)'
    BY <1>1, <1>00
  <2>1. Same(i) /\ Flow(i)
    BY <1>0, <1>1
  <2> QED
    BY <2>1 DEF Flow, RowsFit
<1>3. ASSUME NEW j \in Jobs, PhaseA(j) PROVE FlowInv'
  <2> SUFFICES Flow(j)' /\ \A i \in Jobs \ {j} : Same(i)
    BY <1>1
  <2>0. Flow(j)
    BY <1>0
  <2>1. CASE PhaseAManual(j)
    <3>1. /\ \A i \in Jobs \ {j} : Same(i)
          /\ pc[j] = "phaseA" /\ pc'[j] = "validate" /\ trip'[j] = "none" /\ j \notin AiJobs
          /\ UNCHANGED <<frame, final, itin, refunded, ledger, stale>>
      BY <2>1 DEF PhaseAManual, Await, userVars, TypeOK, ControlOK, DataOK
    <3> QED
      BY <2>0, <3>1 DEF Flow, RowsFit, BeforeRow, BeforeSave, Awaits
  <2>2. CASE LockUser(j)
    <3>1. /\ \A i \in Jobs \ {j} : Same(i)
          /\ pc[j] = "phaseA" /\ pc'[j] = "charge" /\ j \in AiJobs
          /\ UNCHANGED <<frame, final, trip, itin, refunded, ledger, stale>>
      BY <2>2 DEF LockUser, Await, rowVars, TypeOK, ControlOK, DataOK
    <3> QED
      BY <2>0, <3>1 DEF Flow, RowsFit, BeforeRow, BeforeSave, Awaits
  <2>3. CASE LimitReached(j)
    <3>1. /\ \A i \in Jobs \ {j} : Same(i)
          /\ pc[j] = "phaseA" /\ pc'[j] = "done" /\ j \in AiJobs
          /\ UNCHANGED <<frame, final, trip, itin, refunded, ledger, stale>>
      BY <2>3 DEF LimitReached, Reject, Await, rowVars, userVars, TypeOK, ControlOK, DataOK
    <3> QED
      BY <2>0, <3>1 DEF Flow, RowsFit, BeforeRow, BeforeSave, Awaits
  <2>4. CASE CommitPhaseA(j)
    <3>1. /\ \A i \in Jobs \ {j} : Same(i)
          /\ pc[j] = "charge" /\ pc'[j] = "validate" /\ trip'[j] = "generating" /\ j \in AiJobs
          /\ UNCHANGED <<frame, final, itin, refunded, stale>>
      BY <2>4 DEF CommitPhaseA, Await, LockInv, TypeOK, ControlOK, DataOK
    <3> QED
      BY <2>0, <3>1 DEF Flow, RowsFit, BeforeRow, BeforeSave, Awaits
  <2>5. CASE RollbackPhaseA(j)
    <3>1. /\ \A i \in Jobs \ {j} : Same(i)
          /\ pc[j] \in {"phaseA", "charge"} /\ pc'[j] = "done"
          /\ UNCHANGED <<frame, final, trip, itin, refunded, ledger, stale>>
      BY <2>5 DEF RollbackPhaseA, Reject, Await, rowVars, TypeOK, ControlOK, DataOK
    <3> QED
      BY <2>0, <3>1 DEF Flow, RowsFit, BeforeRow, BeforeSave, Awaits
  <2> QED
    BY <1>3, <2>1, <2>2, <2>3, <2>4, <2>5 DEF PhaseA
<1>4. ASSUME NEW j \in Jobs, PhaseB(j) PROVE FlowInv'
  <2> SUFFICES Flow(j)' /\ \A i \in Jobs \ {j} : Same(i)
    BY <1>1
  <2>0. Flow(j)
    BY <1>0
  <2>1. CASE Validate(j)
    <3>1. /\ \A i \in Jobs \ {j} : Same(i)
          /\ pc[j] = "validate" /\ UNCHANGED <<final, trip, itin, refunded, ledger, stale>>
          /\ \/ pc'[j] \in {"mark", "done"} /\ frame'[j] \in {"inner", "outer"}
             \/ pc'[j] = "flag" /\ j \in AiJobs /\ frame'[j] = "outer"
             \/ pc'[j] = "locating" /\ frame'[j] = frame[j]
      BY <2>1, OuterCatchFlow DEF Validate, Await, rowVars, userVars, TypeOK, ControlOK, DataOK
    <3> QED
      BY <2>0, <3>1 DEF Flow, RowsFit, BeforeRow, BeforeSave, Awaits
  <2>2. CASE FetchWeather(j)
    <3>1. /\ \A i \in Jobs \ {j} : Same(i)
          /\ pc[j] = "locating" /\ UNCHANGED <<final, trip, itin, refunded, ledger, stale>>
          /\ \/ pc'[j] \in {"mark", "done"} /\ frame'[j] \in {"inner", "outer"}
             \/ pc'[j] = "flag" /\ j \in AiJobs /\ frame'[j] = "outer"
             \/ pc'[j] = "weather" /\ frame'[j] = frame[j]
      BY <2>2, OuterCatchFlow DEF FetchWeather, InnerCatch, Await, rowVars, userVars, TypeOK, ControlOK, DataOK
    <3> QED
      BY <2>0, <3>1 DEF Flow, RowsFit, BeforeRow, BeforeSave, Awaits
  <2>3. CASE AfterWeather(j)
    <3>1. /\ \A i \in Jobs \ {j} : Same(i)
          /\ pc[j] = "weather" /\ UNCHANGED <<final, trip, itin, refunded, ledger, stale>>
          /\ \/ pc'[j] \in {"mark", "done"} /\ frame'[j] \in {"inner", "outer"}
             \/ pc'[j] = "flag" /\ j \in AiJobs /\ frame'[j] = "outer"
             \/ pc'[j] = "generating" /\ j \in AiJobs /\ frame'[j] = frame[j]
             \/ pc'[j] = "saving" /\ frame'[j] = frame[j]
      BY <2>3, OuterCatchFlow DEF AfterWeather, InnerCatch, Await, rowVars, userVars, TypeOK, ControlOK, DataOK
    <3> QED
      BY <2>0, <3>1 DEF Flow, RowsFit, BeforeRow, BeforeSave, Awaits
  <2>4. CASE AiSucceeds(j)
    <3>1. /\ \A i \in Jobs \ {j} : Same(i)
          /\ pc[j] = "generating" /\ pc'[j] = "saving" /\ final'[j] = "success"
          /\ UNCHANGED <<frame, trip, itin, refunded, ledger, stale>>
      BY <2>4 DEF AiSucceeds, Await, rowVars, userVars, TypeOK, ControlOK, DataOK
    <3> QED
      BY <2>0, <3>1 DEF Flow, RowsFit, BeforeRow, BeforeSave, Awaits
  <2>5. CASE AiFails(j)
    <3>1. /\ \A i \in Jobs \ {j} : Same(i)
          /\ pc[j] = "generating" /\ pc'[j] = "flag" /\ final'[j] = "failed" /\ frame'[j] = "fallback"
          /\ UNCHANGED <<trip, itin, refunded, ledger, stale>>
      BY <2>5 DEF AiFails, Await, rowVars, userVars, TypeOK, ControlOK, DataOK
    <3> QED
      BY <2>0, <3>1 DEF Flow, RowsFit, BeforeRow, BeforeSave, Awaits
  <2>6. CASE AiCancelled(j)
    <3>1. /\ \A i \in Jobs \ {j} : Same(i)
          /\ pc[j] = "generating" /\ pc'[j] = "mark" /\ frame'[j] = "inner"
          /\ UNCHANGED <<final, trip, itin, refunded, ledger, stale>>
      BY <2>6 DEF AiCancelled, InnerCatch, Await, rowVars, userVars, TypeOK, ControlOK, DataOK
    <3> QED
      BY <2>0, <3>1 DEF Flow, RowsFit, BeforeRow, BeforeSave, Awaits
  <2>7. CASE MergeFallback(j)
    <3>1. /\ \A i \in Jobs \ {j} : Same(i)
          /\ pc[j] = "merge" /\ UNCHANGED <<final, trip, itin, refunded, ledger, stale>>
          /\ \/ pc'[j] \in {"mark", "done"} /\ frame'[j] \in {"inner", "outer"}
             \/ pc'[j] = "flag" /\ j \in AiJobs /\ frame'[j] = "outer"
             \/ pc'[j] = "saving" /\ frame'[j] = frame[j]
      BY <2>7, OuterCatchFlow DEF MergeFallback, Await, rowVars, userVars, TypeOK, ControlOK, DataOK
    <3> QED
      BY <2>0, <3>1 DEF Flow, RowsFit, BeforeRow, BeforeSave, Awaits
  <2> QED
    BY <1>4, <2>1, <2>2, <2>3, <2>4, <2>5, <2>6, <2>7 DEF PhaseB
<1>5. ASSUME NEW j \in Jobs, PhaseC(j) PROVE FlowInv'
  <2> SUFFICES Flow(j)' /\ \A i \in Jobs \ {j} : Same(i)
    BY <1>1
  <2>0. Flow(j)
    BY <1>0
  <2>1. CASE CommitPhaseC(j)
    <3>1. /\ \A i \in Jobs \ {j} : Same(i)
          /\ pc[j] = "saving" /\ pc'[j] = "reply" /\ trip[j] \in Rows
          /\ itin'[j] = IF final[j] = "success" THEN "full" ELSE "empty"
          /\ trip'[j] = IF final[j] = "undefined" THEN trip[j] ELSE final[j]
          /\ final[j] \in {"undefined", "success", "failed"}
          /\ UNCHANGED <<frame, final, refunded, ledger, stale>>
      BY <2>1 DEF CommitPhaseC, Await, userVars, TypeOK, ControlOK, DataOK
    <3> QED
      BY <2>0, <3>1 DEF Flow, RowsFit, BeforeRow, BeforeSave, Awaits
  <2>2. CASE FailPhaseC(j)
    <3>1. /\ \A i \in Jobs \ {j} : Same(i)
          /\ pc[j] = "saving" /\ pc'[j] = "mark" /\ frame'[j] = "inner"
          /\ UNCHANGED <<final, trip, itin, refunded, ledger, stale>>
      BY <2>2 DEF FailPhaseC, InnerCatch, Await, rowVars, userVars, TypeOK, ControlOK, DataOK
    <3> QED
      BY <2>0, <3>1 DEF Flow, RowsFit, BeforeRow, BeforeSave, Awaits
  <2>3. CASE Reply(j)
    <3>1. /\ \A i \in Jobs \ {j} : Same(i)
          /\ pc[j] = "reply" /\ pc'[j] = "done"
          /\ UNCHANGED <<frame, final, trip, itin, refunded, ledger, stale>>
      BY <2>3 DEF Reply, Await, rowVars, userVars, TypeOK, ControlOK, DataOK
    <3> QED
      BY <2>0, <3>1 DEF Flow, RowsFit, BeforeRow, BeforeSave, Awaits
  <2>4. CASE ReplyFails(j)
    <3>1. /\ \A i \in Jobs \ {j} : Same(i)
          /\ pc[j] = "reply" /\ pc'[j] = "done"
          /\ UNCHANGED <<frame, final, trip, itin, refunded, ledger, stale>>
      BY <2>4 DEF ReplyFails, Reject, Await, rowVars, userVars, TypeOK, ControlOK, DataOK
    <3> QED
      BY <2>0, <3>1 DEF Flow, RowsFit, BeforeRow, BeforeSave, Awaits
  <2> QED
    BY <1>5, <2>1, <2>2, <2>3, <2>4 DEF PhaseC
<1>6. ASSUME NEW j \in Jobs, Compensate(j) PROVE FlowInv'
  <2> SUFFICES Flow(j)' /\ \A i \in Jobs \ {j} : Same(i)
    BY <1>1
  <2>0. Flow(j)
    BY <1>0
  <2>1. CASE MarkTripFailed(j)
    <3>1. /\ \A i \in Jobs \ {j} : Same(i)
          /\ pc[j] = "mark" /\ pc'[j] \in {"mark", "flag", "done"} /\ (pc'[j] = "flag" => j \in AiJobs)
          /\ frame'[j] \in {frame[j], "outer"}
          /\ trip'[j] = trip[j] \/ (trip[j] \in Rows /\ trip'[j] = "failed")
          /\ UNCHANGED <<final, itin, refunded, ledger, stale>>
      BY <2>1, AfterMarkFlow DEF MarkTripFailed, userVars, TypeOK, ControlOK, DataOK
    <3> QED
      BY <2>0, <3>1 DEF Flow, RowsFit, BeforeRow, BeforeSave, Awaits
  <2>2. CASE FlipRefundFlag(j)
    <3>1. /\ \A i \in Jobs \ {j} : Same(i)
          /\ pc[j] = "flag" /\ pc'[j] = "credit" /\ trip[j] \in Rows
          /\ UNCHANGED <<frame, final, trip, itin, ledger, stale>>
      BY <2>2 DEF FlipRefundFlag, Await, userVars, TypeOK, ControlOK, DataOK
    <3> QED
      BY <2>0, <3>1 DEF Flow, RowsFit, BeforeRow, BeforeSave, Awaits
  <2>3. CASE SkipRefund(j)
    <3>1. /\ \A i \in Jobs \ {j} : Same(i)
          /\ pc[j] = "flag" /\ UNCHANGED <<final, trip, itin, refunded, ledger, stale>>
          /\ pc'[j] \in {"mark", "flag", "done", "merge"}
          /\ pc'[j] = "flag" => j \in AiJobs
          /\ pc'[j] = "merge" <=> frame[j] = "fallback"
          /\ frame'[j] = IF frame[j] = "fallback" THEN "fallback" ELSE "outer"
      BY <2>3, AfterRefundFlow DEF SkipRefund, rowVars, userVars, TypeOK, ControlOK, DataOK
    <3> QED
      BY <2>0, <3>1 DEF Flow, RowsFit, BeforeRow, BeforeSave, Awaits
  <2>4. CASE DecrementAiTripCount(j)
    <3>1. /\ \A i \in Jobs \ {j} : Same(i)
          /\ pc[j] = "credit" /\ UNCHANGED <<final, trip, itin, refunded, stale>>
          /\ pc'[j] \in {"mark", "flag", "done", "merge"}
          /\ pc'[j] = "flag" => j \in AiJobs
          /\ pc'[j] = "merge" <=> frame[j] = "fallback"
          /\ frame'[j] = IF frame[j] = "fallback" THEN "fallback" ELSE "outer"
      BY <2>4, AfterRefundFlow DEF DecrementAiTripCount, rowVars, TypeOK, ControlOK, DataOK
    <3> QED
      BY <2>0, <3>1 DEF Flow, RowsFit, BeforeRow, BeforeSave, Awaits
  <2>5. CASE SkipDecrement(j)
    <3>1. /\ \A i \in Jobs \ {j} : Same(i)
          /\ pc[j] = "credit" /\ UNCHANGED <<final, trip, itin, refunded, ledger, stale>>
          /\ pc'[j] \in {"mark", "flag", "done", "merge"}
          /\ pc'[j] = "flag" => j \in AiJobs
          /\ pc'[j] = "merge" <=> frame[j] = "fallback"
          /\ frame'[j] = IF frame[j] = "fallback" THEN "fallback" ELSE "outer"
      BY <2>5, AfterRefundFlow DEF SkipDecrement, rowVars, userVars, TypeOK, ControlOK, DataOK
    <3> QED
      BY <2>0, <3>1 DEF Flow, RowsFit, BeforeRow, BeforeSave, Awaits
  <2> QED
    BY <1>6, <2>1, <2>2, <2>3, <2>4, <2>5 DEF Compensate
<1>7. ASSUME NEW j \in Jobs,
             \/ CreateAsync(j) \/ CreateSync(j) \/ StartTripCreation(j)
             \/ CancelJob(j) \/ CleanupJob(j) \/ RemoveTrip(j)
      PROVE  FlowInv'
  <2> SUFFICES Flow(j)' /\ \A i \in Jobs \ {j} : Same(i)
    BY <1>1
  <2>0. Flow(j)
    BY <1>0
  <2>1. CASE CreateAsync(j) \/ CreateSync(j) \/ StartTripCreation(j)
    <3>1. /\ \A i \in Jobs \ {j} : Same(i)
          /\ pc[j] \in {"idle", "queued"} /\ pc'[j] \in {"queued", "phaseA"}
          /\ UNCHANGED <<frame, final, trip, itin, refunded, ledger, stale>>
      BY <2>1 DEF CreateAsync, CreateSync, StartTripCreation, Await, rowVars, userVars, TypeOK, ControlOK, DataOK
    <3> QED
      BY <2>0, <3>1 DEF Flow, RowsFit, BeforeRow, BeforeSave, Awaits
  <2>2. CASE CancelJob(j) \/ CleanupJob(j)
    <3>1. UNCHANGED <<pc, frame, final, trip, itin, refunded, ledger, stale>>
      BY <2>2 DEF CancelJob, CleanupJob, ctlVars, rowVars, userVars
    <3> QED
      BY <2>0, <3>1 DEF Flow, RowsFit
  <2>3. CASE RemoveTrip(j)
    <3>1. /\ \A i \in Jobs \ {j} : Same(i)
          /\ trip[j] \in Rows /\ trip'[j] = "deleted"
          /\ UNCHANGED <<pc, frame, final, refunded, ledger, stale>>
      BY <2>3 DEF RemoveTrip, ctlVars, userVars, TypeOK, ControlOK, DataOK
    <3> QED
      BY <2>0, <3>1 DEF Flow, RowsFit, Rows
  <2> QED
    BY <1>7, <2>1, <2>2, <2>3
<1>8. ASSUME UNCHANGED <<pc, frame, final, trip, itin, refunded, stale>>,
             \A j \in Jobs : ledger[j] = "none" => ledger'[j] = "none"
      PROVE  FlowInv'
  <2> SUFFICES ASSUME NEW j \in Jobs PROVE Flow(j)'
    BY <1>00
  <2> QED
    BY <1>0, <1>8 DEF Flow, RowsFit
<1>9. ASSUME NEW u \in Users, InitialPurchase(u) \/ Expiration(u) PROVE FlowInv'
  BY <1>8, <1>9 DEF InitialPurchase, Expiration, CarryOver, ctlVars, rowVars
<1>10. CASE ResetMonthlyAiTripCounters
  BY <1>8, <1>10 DEF ResetMonthlyAiTripCounters, CarryOver, ctlVars, rowVars
<1>11. CASE Restart
  <2> SUFFICES ASSUME NEW j \in Jobs PROVE Flow(j)'
    BY <1>00
  <2>1. /\ pc'[j] = "lost" \/ (pc'[j] = pc[j] /\ pc[j] \notin Awaits)
        /\ frame'[j] = "none" /\ final'[j] = "undefined"
        /\ UNCHANGED <<trip, itin, refunded, ledger, stale>>
    BY <1>11 DEF Restart, Suspended, rowVars
  <2> QED
    BY <1>0, <2>1 DEF Flow, RowsFit, BeforeRow, BeforeSave, Awaits
<1>12. CASE UNCHANGED vars
  BY <1>8, <1>12 DEF vars, ctlVars, rowVars, userVars
<1>13. ASSUME NEW s \in Savers, Saver(s) PROVE FlowInv'
  <2>0. /\ UNCHANGED <<pc, frame, final, ledger>>
        /\ UNCHANGED <<trip, itin, refunded, stale>> \/ \E j \in Jobs : Overwritten(j)
    BY <1>13, SaverStep DEF FlowInv, ctlVars, userVars
  <2>1. CASE UNCHANGED <<trip, itin, refunded, stale>>
    BY <1>8, <2>0, <2>1
  <2>2. ASSUME NEW j \in Jobs, Overwritten(j) PROVE FlowInv'
    <3>1. \A i \in Jobs \ {j} : Same(i)
      BY <2>0, <2>2 DEF Overwritten
    <3>2. Flow(j)'
      BY <1>0, <2>0, <2>2 DEF Overwritten, Flow, BeforeRow
    <3> QED
      BY <1>1, <3>1, <3>2
  <2> QED
    BY <2>0, <2>1, <2>2
<1> QED
  BY <1>3, <1>4, <1>5, <1>6, <1>7, <1>9, <1>10, <1>11, <1>12, <1>13 DEF Next, Run, Quiescent, Saver

-----------------------------------------------------------------------------
(* The quota unit of every request. *)

LEMMA LedgerStep ==
  ASSUME TypeOK, LockInv, FlowInv, LedgerInv, [Next]_vars PROVE LedgerInv'
<1> DEFINE Unit(j) == stale[j] \/ UnitKept(j)
<1> DEFINE Same(i) == /\ pc'[i] = pc[i] /\ trip'[i] = trip[i]
                      /\ refunded'[i] = refunded[i] /\ ledger'[i] = ledger[i]
                      /\ stale'[i] = stale[i]
<1>0. \A j \in Jobs : Unit(j)
  BY DEF LedgerInv
<1>00. (\A j \in Jobs : Unit(j)') => LedgerInv'
  BY DEF LedgerInv
<1> USE DEF UnitKept
<1>1. ASSUME NEW j \in Jobs, Unit(j)', \A i \in Jobs \ {j} : Same(i) PROVE LedgerInv'
  <2> SUFFICES ASSUME NEW i \in Jobs, i # j PROVE Unit(i)'
    BY <1>1, <1>00
  <2>1. Same(i) /\ Unit(i)
    BY <1>0, <1>1
  <2> QED
    BY <2>1
\* A step that moves one request, not to "credit", and touches no row.
<1>2. ASSUME NEW j \in Jobs, UNCHANGED <<trip, refunded, ledger, stale>>,
             pc' = [pc EXCEPT ![j] = pc'[j]], pc'[j] # "credit"
      PROVE  LedgerInv'
  BY <1>0, <1>1, <1>2 DEF TypeOK, ControlOK
<1>3. ASSUME NEW j \in Jobs, PhaseA(j) PROVE LedgerInv'
  <2>1. CASE PhaseAManual(j)
    <3>1. /\ \A i \in Jobs \ {j} : Same(i)
          /\ pc'[j] = "validate" /\ trip'[j] = "none" /\ j \notin AiJobs
          /\ UNCHANGED <<refunded, ledger, stale>>
      BY <2>1 DEF PhaseAManual, Await, userVars, TypeOK, ControlOK, DataOK
    <3> QED
      BY <1>0, <1>1, <3>1
  <2>2. CASE LockUser(j)
    BY <1>2, <2>2, AwaitFlow DEF LockUser, rowVars
  <2>3. CASE LimitReached(j) \/ RollbackPhaseA(j)
    BY <1>2, <2>3, AwaitFlow DEF LimitReached, RollbackPhaseA, Reject, rowVars, userVars
  <2>4. CASE CommitPhaseA(j)
    <3>1. /\ \A i \in Jobs \ {j} : Same(i)
          /\ pc'[j] = "validate" /\ trip'[j] = "generating" /\ UNCHANGED <<refunded, stale>>
          /\ \/ Owner[j] \in Admins /\ ledger'[j] = ledger[j]
             \/ ledger'[j] = "charged"
      BY <2>4 DEF CommitPhaseA, Await, TypeOK, ControlOK, DataOK
    <3> QED
      BY <1>0, <1>1, <3>1
  <2> QED
    BY <1>3, <2>1, <2>2, <2>3, <2>4 DEF PhaseA
<1>4. ASSUME NEW j \in Jobs, PhaseB(j) PROVE LedgerInv'
  <2>1. CASE Validate(j) \/ FetchWeather(j) \/ MergeFallback(j)
    BY <1>2, <2>1, OuterCatchFlow, AwaitFlow
    DEF Validate, FetchWeather, MergeFallback, InnerCatch, rowVars, userVars
  <2>2. CASE AfterWeather(j)
    BY <1>2, <2>2, OuterCatchFlow, AwaitFlow DEF AfterWeather, InnerCatch, rowVars, userVars
  <2>3. CASE AiSucceeds(j) \/ AiFails(j) \/ AiCancelled(j)
    BY <1>2, <2>3, AwaitFlow DEF AiSucceeds, AiFails, AiCancelled, InnerCatch, rowVars, userVars
  <2> QED
    BY <1>4, <2>1, <2>2, <2>3 DEF PhaseB
<1>5. ASSUME NEW j \in Jobs, PhaseC(j) PROVE LedgerInv'
  <2>1. CASE CommitPhaseC(j)
    <3>1. /\ \A i \in Jobs \ {j} : Same(i)
          /\ pc[j] = "saving" /\ pc'[j] = "reply" /\ trip[j] \in Rows
          /\ trip'[j] = (IF final[j] = "undefined" THEN trip[j] ELSE final[j])
          /\ UNCHANGED <<refunded, ledger, stale>>
      BY <2>1 DEF CommitPhaseC, Await, userVars, TypeOK, ControlOK, DataOK
    <3>2. stale[j] \/ (final[j] = "success" => ~refunded[j])
      BY <3>1 DEF FlowInv, Flow, RowsFit
    <3> QED
      BY <1>0, <1>1, <3>1, <3>2 DEF Rows
  <2>2. CASE FailPhaseC(j) \/ Reply(j) \/ ReplyFails(j)
    BY <1>2, <2>2, AwaitFlow DEF FailPhaseC, Reply, ReplyFails, InnerCatch, Reject, rowVars, userVars
  <2> QED
    BY <1>5, <2>1, <2>2 DEF PhaseC
<1>6. ASSUME NEW j \in Jobs, Compensate(j) PROVE LedgerInv'
  <2>1. CASE MarkTripFailed(j)
    <3>1. /\ \A i \in Jobs \ {j} : Same(i)
          /\ pc'[j] # "credit"
          /\ trip'[j] = trip[j] \/ (trip[j] \in Rows /\ trip'[j] = "failed")
          /\ UNCHANGED <<refunded, ledger, stale>>
      BY <2>1, AfterMarkFlow DEF MarkTripFailed, userVars, TypeOK, ControlOK, DataOK
    <3> QED
      BY <1>0, <1>1, <3>1 DEF Rows
  <2>2. CASE FlipRefundFlag(j)
    <3>1. /\ \A i \in Jobs \ {j} : Same(i)
          /\ trip[j] \in Rows /\ ~refunded[j] /\ refunded'[j] = TRUE
          /\ pc[j] = "flag" /\ pc'[j] = "credit"
          /\ UNCHANGED <<trip, ledger, stale>>
      BY <2>2 DEF FlipRefundFlag, Await, userVars, TypeOK, ControlOK, DataOK
    <3>2. stale[j] \/ trip[j] # "success"
      BY <3>1 DEF FlowInv, Flow, RowsFit
    <3> QED
      BY <1>0, <1>1, <3>1, <3>2 DEF Rows
  <2>3. CASE SkipRefund(j) \/ SkipDecrement(j)
    BY <1>2, <2>3, AfterRefundFlow DEF SkipRefund, SkipDecrement, rowVars, userVars
  <2>4. CASE DecrementAiTripCount(j)
    <3>1. /\ \A i \in Jobs \ {j} : Same(i)
          /\ pc[j] = "credit" /\ pc'[j] # "credit" /\ Owner[j] \notin Admins
          /\ UNCHANGED <<trip, refunded, stale>>
          /\ ledger'[j] = CASE ledger[j] = "charged" -> "refunded"
                            [] ledger[j] = "carried" -> "lateRefund"
                            [] OTHER                 -> "overRefund"
      BY <2>4, AfterRefundFlow DEF DecrementAiTripCount, rowVars, TypeOK, ControlOK, DataOK
    <3>2. stale[j] \/ (refunded[j] /\ ledger[j] \in {"charged", "carried"})
      BY <1>0, <3>1 DEF FlowInv, Flow, Awaits, BeforeRow
    <3> QED
      BY <1>0, <1>1, <3>1, <3>2
  <2> QED
    BY <1>6, <2>1, <2>2, <2>3, <2>4 DEF Compensate
<1>7. ASSUME NEW j \in Jobs,
             \/ CreateAsync(j) \/ CreateSync(j) \/ StartTripCreation(j)
             \/ CancelJob(j) \/ CleanupJob(j) \/ RemoveTrip(j)
      PROVE  LedgerInv'
  <2>1. CASE CreateAsync(j) \/ CreateSync(j) \/ StartTripCreation(j)
    BY <1>2, <2>1, AwaitFlow DEF CreateAsync, CreateSync, StartTripCreation, rowVars, userVars
  <2>2. CASE CancelJob(j) \/ CleanupJob(j)
    BY <2>2 DEF CancelJob, CleanupJob, ctlVars, rowVars, userVars, LedgerInv
  <2>3. CASE RemoveTrip(j)
    <3>1. /\ \A i \in Jobs \ {j} : Same(i)
          /\ trip[j] \in Rows /\ trip'[j] = "deleted"
          /\ UNCHANGED <<pc, refunded, ledger, stale>>
      BY <2>3 DEF RemoveTrip, ctlVars, userVars, TypeOK, ControlOK, DataOK
    <3> QED
      BY <1>0, <1>1, <3>1 DEF Rows
  <2> QED
    BY <1>7, <2>1, <2>2, <2>3
<1>8. ASSUME UNCHANGED <<pc, trip, refunded, stale>>,
             \A j \in Jobs : \/ ledger'[j] = ledger[j]
                             \/ ledger[j] = "charged" /\ ledger'[j] = "carried"
                             \/ ledger[j] \in {"refunded", "lateRefund"} /\ ledger'[j] = "closed"
      PROVE  LedgerInv'
  <2> SUFFICES ASSUME NEW j \in Jobs PROVE Unit(j)'
    BY <1>00
  <2> QED
    BY <1>0, <1>8
<1>9. ASSUME NEW u \in Users, InitialPurchase(u) \/ Expiration(u) PROVE LedgerInv'
  BY <1>8, <1>9 DEF InitialPurchase, Expiration, CarryOver, ctlVars, rowVars
<1>10. CASE ResetMonthlyAiTripCounters
  BY <1>8, <1>10 DEF ResetMonthlyAiTripCounters, CarryOver, ctlVars, rowVars
<1>11. CASE Restart
  <2> SUFFICES ASSUME NEW j \in Jobs PROVE Unit(j)'
    BY <1>00
  <2>1. (pc'[j] = "lost" \/ pc'[j] = pc[j]) /\ UNCHANGED <<trip, refunded, ledger, stale>>
    BY <1>11 DEF Restart, rowVars
  <2> QED
    BY <1>0, <2>1
<1>12. CASE UNCHANGED vars
  BY <1>8, <1>12 DEF vars, ctlVars, rowVars, userVars
<1>13. ASSUME NEW s \in Savers, Saver(s) PROVE LedgerInv'
  <2>0. /\ UNCHANGED <<pc, ledger>>
        /\ UNCHANGED <<trip, itin, refunded, stale>> \/ \E j \in Jobs : Overwritten(j)
    BY <1>13, SaverStep DEF FlowInv, ctlVars, userVars
  <2>1. CASE UNCHANGED <<trip, itin, refunded, stale>>
    BY <1>8, <2>0, <2>1
  <2>2. ASSUME NEW j \in Jobs, Overwritten(j) PROVE LedgerInv'
    BY <1>1, <2>0, <2>2 DEF Overwritten
  <2> QED
    BY <2>0, <2>1, <2>2
<1> QED
  BY <1>3, <1>4, <1>5, <1>6, <1>7, <1>9, <1>10, <1>11, <1>12, <1>13 DEF Next, Run, Quiescent, Saver

-----------------------------------------------------------------------------
\* Four actions touch the counters and the ledger.
LEMMA CounterMoves ==
  ASSUME [Next]_vars
  PROVE  \/ UNCHANGED <<used, ledger>>
         \/ \E j \in Jobs : CommitPhaseA(j) \/ DecrementAiTripCount(j)
         \/ \E u \in Users : InitialPurchase(u)
         \/ ResetMonthlyAiTripCounters
<1>1. ASSUME NEW j \in Jobs, Run(j), ~CommitPhaseA(j), ~DecrementAiTripCount(j)
      PROVE  UNCHANGED <<used, ledger>>
  <2>1. CASE PhaseA(j)
    BY <1>1, <2>1 DEF PhaseA, PhaseAManual, LockUser, LimitReached, RollbackPhaseA, userVars
  <2>2. CASE PhaseB(j)
    BY <2>2 DEF PhaseB, Validate, FetchWeather, AfterWeather, AiSucceeds, AiFails, AiCancelled,
       MergeFallback, userVars
  <2>3. CASE PhaseC(j)
    BY <2>3 DEF PhaseC, CommitPhaseC, FailPhaseC, Reply, ReplyFails, userVars
  <2>4. CASE Compensate(j)
    BY <1>1, <2>4 DEF Compensate, MarkTripFailed, FlipRefundFlag, SkipRefund, SkipDecrement, userVars
  <2>5. CASE StartTripCreation(j)
    BY <2>5 DEF StartTripCreation, userVars
  <2> QED
    BY <1>1, <2>1, <2>2, <2>3, <2>4, <2>5 DEF Run
<1>2. ASSUME NEW j \in Jobs, \/ CreateAsync(j) \/ CreateSync(j) \/ CancelJob(j)
                             \/ CleanupJob(j) \/ RemoveTrip(j)
      PROVE  UNCHANGED <<used, ledger>>
  BY <1>2 DEF CreateAsync, CreateSync, CancelJob, CleanupJob, RemoveTrip, userVars
<1>3. ASSUME NEW u \in Users, Expiration(u) PROVE UNCHANGED <<used, ledger>>
  BY <1>3 DEF Expiration
<1>4. Restart \/ UNCHANGED vars => UNCHANGED <<used, ledger>>
  BY DEF Restart, vars, userVars
<1>5. ASSUME NEW s \in Savers, Saver(s) PROVE UNCHANGED <<used, ledger>>
  BY <1>5 DEF Saver, SaveTrip, SaveFails, LoadTrip, userVars
<1> QED
  BY <1>1, <1>2, <1>3, <1>4, <1>5 DEF Next, Quiescent, Saver

-----------------------------------------------------------------------------
\* The invariant the other theorems rest on: the holder of the row lock is
\* about to increment a counter below its limit, the rows of a request match
\* how far it has come, and an unrefunded trip still has its unit.
THEOREM Inductive == Spec => []IInv
<1>1. Init => IInv
  <2>1. Init => TypeOK
    BY RequestsAssumption, BoundsAssumption
    DEF Init, TypeOK, ControlOK, DataOK, Active, Terminal, Awaits, Rows, Steps
  <2>2. Init => LockInv /\ FlowInv /\ LedgerInv
    BY RequestsAssumption
    DEF Init, LockInv, FlowInv, CopyInv, Flow, RowsFit, LedgerInv, UnitKept, BeforeRow, BeforeSave, Awaits
  <2> QED
    BY <2>1, <2>2 DEF IInv
<1>2. IInv /\ [Next]_vars => IInv'
  BY TypeStep, LockStep, FlowStep, LedgerStep DEF IInv, FlowInv
<1> QED
  BY <1>1, <1>2, PTL DEF Spec

\* No quota unit is given back twice, whichever failure branches run, as long as no
\* save puts the trip back.
THEOREM RefundsOnce == Spec => []RefundOnce
<1>1. IInv => RefundOnce
  BY DEF IInv, LedgerInv, UnitKept, RefundOnce
<1> QED
  BY <1>1, Inductive, PTL

\* A trip that reads 'success', and that no save has put back, was charged and keeps
\* its charge.
THEOREM SuccessPaid == Spec => []SuccessIsPaid
<1>1. IInv => SuccessIsPaid
  <2> SUFFICES ASSUME IInv, NEW j \in Jobs, trip[j] = "success", ~stale[j]
               PROVE  /\ itin[j] = "full" /\ ~refunded[j]
                      /\ Owner[j] \in Admins \/ ledger[j] \in {"charged", "carried"}
    BY DEF SuccessIsPaid
  <2>1. itin[j] = "full" /\ j \in AiJobs
    BY DEF IInv, FlowInv, Flow, RowsFit
  <2> QED
    BY <2>1 DEF IInv, LedgerInv, UnitKept
<1> QED
  BY <1>1, Inductive, PTL

\* The counter of a user never grows past the limit in force.
THEOREM QuotaSafe == Spec => QuotaNeverOverrun
<1>1. ASSUME IInv, [Next]_vars PROVE \A u \in Users : used'[u] > used[u] => used'[u] <= Limit(u)
  <2> SUFFICES ASSUME NEW u \in Users, used'[u] > used[u] PROVE used'[u] <= Limit(u)
    OBVIOUS
  <2> USE <1>1 DEF IInv, TypeOK, DataOK
  <2>1. used[u] \in Nat /\ Limit(u) \in Nat
    BY BoundsAssumption DEF Limit
  <2>2. ASSUME NEW j \in Jobs, CommitPhaseA(j) PROVE used'[u] <= Limit(u)
    <3>1. used[Owner[j]] < Limit(Owner[j]) \/ Owner[j] \in Admins
      BY <2>2 DEF CommitPhaseA, LockInv
    <3>2. u = Owner[j] /\ used'[u] = used[u] + 1 /\ Owner[j] \notin Admins
      BY <2>1, <2>2, RequestsAssumption DEF CommitPhaseA
    <3> QED
      BY <2>1, <3>1, <3>2
  <2>3. ASSUME NEW j \in Jobs, DecrementAiTripCount(j) PROVE FALSE
    BY <2>1, <2>3, RequestsAssumption DEF DecrementAiTripCount
  <2>4. ASSUME NEW v \in Users, InitialPurchase(v) PROVE FALSE
    BY <2>1, <2>4 DEF InitialPurchase
  <2>5. CASE ResetMonthlyAiTripCounters
    BY <2>1, <2>5 DEF ResetMonthlyAiTripCounters
  <2>6. CASE UNCHANGED <<used, ledger>>
    BY <2>1, <2>6
  <2> QED
    BY <1>1, <2>2, <2>3, <2>4, <2>5, <2>6, CounterMoves
<1>2. IInv /\ [Next]_vars => [\A u \in Users : used'[u] > used[u] => used'[u] <= Limit(u)]_vars
  BY <1>1
<1> QED
  BY <1>2, Inductive, PTL DEF Spec, QuotaNeverOverrun

-----------------------------------------------------------------------------
(* What a step may do to the rows of the trips. *)

\* A trip appears, gets its verdict, is deleted, or its refund flag is set; or the
\* step is about a trip that a save has put back.
RowStep ==
  \/ UNCHANGED <<trip, refunded, stale>>
  \/ \E j \in Jobs :
       /\ stale'[j] /\ trip[j] # "absent" /\ trip'[j] # "absent"
       /\ \A i \in Jobs \ {j} : /\ trip'[i] = trip[i] /\ refunded'[i] = refunded[i]
                               /\ stale'[i] = stale[i]
  \/ \E j \in Jobs :
       /\ UNCHANGED <<refunded, stale>> /\ trip' = [trip EXCEPT ![j] = trip'[j]] /\ ~stale[j]
       /\ \/ trip[j] = "absent" /\ trip'[j] = IF j \in AiJobs THEN "generating" ELSE "none"
          \/ trip[j] = "generating" /\ trip'[j] = "success" /\ ~refunded[j]
          \/ trip[j] \in {"none", "generating"} /\ trip'[j] = "failed"
          \/ trip[j] \in Rows /\ trip'[j] = "deleted"
  \/ \E j \in AiJobs :
       /\ trip[j] \in {"generating", "failed"} /\ ~refunded[j] /\ ~stale[j]
       /\ UNCHANGED <<trip, stale>> /\ refunded' = [refunded EXCEPT ![j] = TRUE]

LEMMA RowSteps == ASSUME IInv, [Next]_vars PROVE RowStep
<1> USE DEF IInv, TypeOK, DataOK
\* Of a trip that was put back, no step says more.
<1>0. ASSUME NEW j \in Jobs, stale[j], stale' = stale, trip[j] # "absent", trip'[j] # "absent",
             \A i \in Jobs \ {j} : trip'[i] = trip[i] /\ refunded'[i] = refunded[i]
      PROVE  RowStep
  BY <1>0 DEF RowStep
<1>1. ASSUME NEW j \in Jobs, PhaseA(j) PROVE RowStep
  <2>1. CASE PhaseAManual(j)
    <3>1. pc[j] = "phaseA" /\ j \notin AiJobs /\ trip' = [trip EXCEPT ![j] = "none"]
          /\ UNCHANGED <<refunded, stale>>
      BY <2>1 DEF PhaseAManual
    <3>2. trip[j] = "absent" /\ ~stale[j] /\ trip'[j] = "none" /\ trip' = [trip EXCEPT ![j] = trip'[j]]
      BY <3>1 DEF FlowInv, Flow, BeforeRow
    <3> QED
      BY <3>1, <3>2 DEF RowStep
  <2>2. CASE CommitPhaseA(j)
    <3>1. pc[j] = "charge" /\ trip' = [trip EXCEPT ![j] = "generating"]
          /\ UNCHANGED <<refunded, stale>>
      BY <2>2 DEF CommitPhaseA
    <3>2. /\ trip[j] = "absent" /\ ~stale[j] /\ j \in AiJobs /\ trip'[j] = "generating"
          /\ trip' = [trip EXCEPT ![j] = trip'[j]]
      BY <3>1 DEF FlowInv, Flow, LockInv, BeforeRow
    <3> QED
      BY <3>1, <3>2 DEF RowStep
  <2>3. CASE LockUser(j) \/ LimitReached(j) \/ RollbackPhaseA(j)
    BY <2>3 DEF LockUser, LimitReached, RollbackPhaseA, rowVars, RowStep
  <2> QED
    BY <1>1, <2>1, <2>2, <2>3 DEF PhaseA
<1>2. ASSUME NEW j \in Jobs, PhaseB(j) PROVE RowStep
  BY <1>2 DEF PhaseB, Validate, FetchWeather, AfterWeather, AiSucceeds, AiFails, AiCancelled,
     MergeFallback, rowVars, RowStep
<1>3. ASSUME NEW j \in Jobs, PhaseC(j) PROVE RowStep
  <2>1. CASE CommitPhaseC(j)
    <3>1. /\ pc[j] = "saving" /\ trip[j] \in Rows /\ UNCHANGED <<refunded, stale>>
          /\ trip' = [trip EXCEPT ![j] = IF final[j] = "undefined" THEN @ ELSE final[j]]
      BY <2>1 DEF CommitPhaseC
    <3>0. final[j] \in {"undefined", "success", "failed"}
      OBVIOUS
    <3>a. CASE stale[j]
      BY <1>0, <3>0, <3>1, <3>a DEF Rows
    <3>2. ~stale[j] => /\ trip[j] \in {"none", "generating"}
                       /\ final[j] = "success" => ~refunded[j]
                       /\ final[j] = "success" => trip[j] = "generating" \/ j \notin AiJobs
                       /\ j \notin AiJobs => final[j] = "undefined"
      BY <3>1 DEF FlowInv, Flow, RowsFit, BeforeSave, Rows
    <3>3. CASE final[j] = "undefined"
      BY <3>1, <3>3 DEF RowStep
    <3>4. CASE final[j] # "undefined" /\ ~stale[j]
      <4>1. trip'[j] = final[j] /\ trip' = [trip EXCEPT ![j] = trip'[j]]
        BY <3>1, <3>4
      <4> QED
        BY <3>0, <3>1, <3>2, <3>4, <4>1 DEF RowStep
    <3> QED
      BY <3>a, <3>3, <3>4
  <2>2. CASE FailPhaseC(j) \/ Reply(j) \/ ReplyFails(j)
    BY <2>2 DEF FailPhaseC, Reply, ReplyFails, rowVars, RowStep
  <2> QED
    BY <1>3, <2>1, <2>2 DEF PhaseC
<1>4. ASSUME NEW j \in Jobs, Compensate(j) PROVE RowStep
  <2>1. CASE MarkTripFailed(j)
    <3>1. /\ pc[j] = "mark" /\ UNCHANGED <<refunded, stale>>
          /\ UNCHANGED trip \/ (trip[j] \in Rows /\ trip' = [trip EXCEPT ![j] = "failed"])
      BY <2>1 DEF MarkTripFailed
    <3>a. CASE stale[j] /\ trip[j] \in Rows
      BY <1>0, <3>1, <3>a DEF Rows
    <3>2. stale[j] \/ trip[j] # "success"
      BY <3>1 DEF FlowInv, Flow, RowsFit
    <3>3. CASE UNCHANGED trip \/ trip[j] = "failed"
      BY <3>1, <3>3 DEF RowStep
    <3>4. CASE trip[j] \in {"none", "generating"} /\ ~stale[j] /\ trip' = [trip EXCEPT ![j] = "failed"]
      <4>1. trip'[j] = "failed" /\ trip' = [trip EXCEPT ![j] = trip'[j]]
        BY <3>4
      <4> QED
        BY <3>1, <3>4, <4>1 DEF RowStep
    <3> QED
      BY <3>1, <3>2, <3>a, <3>3, <3>4 DEF Rows
  <2>2. CASE FlipRefundFlag(j)
    <3>1. /\ pc[j] = "flag" /\ trip[j] \in Rows /\ ~refunded[j] /\ UNCHANGED <<trip, stale>>
          /\ refunded' = [refunded EXCEPT ![j] = TRUE]
      BY <2>2 DEF FlipRefundFlag
    <3>a. CASE stale[j]
      BY <1>0, <3>1, <3>a DEF Rows
    <3>2. j \in AiJobs /\ (stale[j] \/ trip[j] \notin {"none", "success"})
      BY <3>1 DEF FlowInv, Flow, RowsFit
    <3> QED
      BY <3>1, <3>2, <3>a DEF RowStep, Rows
  <2>3. CASE SkipRefund(j) \/ DecrementAiTripCount(j) \/ SkipDecrement(j)
    BY <2>3 DEF SkipRefund, DecrementAiTripCount, SkipDecrement, rowVars, RowStep
  <2> QED
    BY <1>4, <2>1, <2>2, <2>3 DEF Compensate
<1>5. ASSUME NEW j \in Jobs, RemoveTrip(j) PROVE RowStep
  <2>1. trip[j] \in Rows /\ trip'[j] = "deleted" /\ UNCHANGED <<refunded, stale>>
        /\ trip' = [trip EXCEPT ![j] = trip'[j]]
    BY <1>5 DEF RemoveTrip
  <2>2. CASE stale[j]
    BY <1>0, <2>1, <2>2 DEF Rows
  <2>3. CASE ~stale[j]
    BY <2>1, <2>3 DEF RowStep
  <2> QED
    BY <2>2, <2>3
<1>6. ASSUME NEW j \in Jobs, \/ CreateAsync(j) \/ CreateSync(j) \/ StartTripCreation(j)
                             \/ CancelJob(j) \/ CleanupJob(j)
      PROVE  RowStep
  BY <1>6 DEF CreateAsync, CreateSync, StartTripCreation, CancelJob, CleanupJob, rowVars, RowStep
<1>7. ASSUME NEW u \in Users, InitialPurchase(u) \/ Expiration(u) PROVE RowStep
  BY <1>7 DEF InitialPurchase, Expiration, rowVars, RowStep
<1>8. CASE ResetMonthlyAiTripCounters \/ Restart \/ UNCHANGED vars
  BY <1>8 DEF ResetMonthlyAiTripCounters, Restart, vars, rowVars, RowStep
<1>9. ASSUME NEW s \in Savers, Saver(s) PROVE RowStep
  <2>1. UNCHANGED <<trip, refunded, stale>> \/ \E j \in Jobs : Overwritten(j)
    BY <1>9, SaverStep DEF FlowInv
  <2> QED
    BY <2>1 DEF RowStep, Overwritten
<1> QED
  BY <1>1, <1>2, <1>3, <1>4, <1>5, <1>6, <1>7, <1>8, <1>9 DEF Next, Run, Quiescent, Saver

\* A verdict on a trip is final, up to the saves that put the trip back.
THEOREM VerdictsStand == Spec => VerdictStands
<1>1. IInv /\ [Next]_vars =>
        [\A j \in Jobs : trip[j] \in {"success", "failed"} =>
           trip'[j] \in {trip[j], "deleted"} \/ stale'[j]]_vars
  <2> SUFFICES ASSUME IInv, [Next]_vars, NEW j \in Jobs, trip[j] \in {"success", "failed"}
               PROVE  trip'[j] \in {trip[j], "deleted"} \/ stale'[j]
    OBVIOUS
  <2>1. RowStep
    BY RowSteps
  <2> QED
    BY <2>1 DEF RowStep, IInv, TypeOK, DataOK
<1> QED
  BY <1>1, Inductive, PTL DEF Spec, VerdictStands

\* The rows of the database behave as the orders of AiTripOrder: billed when
\* they appear, delivered only while billed, refunded once and never after, until
\* a save overwrites them.
THEOREM OrderRefinement == Spec => ImplementsOrder
<1> DEFINE State(j) == IF stale[j] THEN "overwritten" ELSE OrderOf(trip[j])
           Billed(j) == trip[j] # "absent" /\ ~refunded[j] /\ ~stale[j]
           order == [j \in AiJobs |-> State(j)]
           billed == [j \in AiJobs |-> Billed(j)]
<1>0. /\ OrderOf("absent") = "none" /\ OrderOf("generating") = "open"
      /\ OrderOf("success") = "delivered" /\ OrderOf("failed") = "failed"
      /\ OrderOf("deleted") = "withdrawn" /\ OrderOf("none") = "withdrawn"
  BY DEF OrderOf
<1>1. Init => Order!Init
  <2> SUFFICES ASSUME Init PROVE Order!Init
    OBVIOUS
  <2>1. \A j \in AiJobs : trip[j] = "absent" /\ refunded[j] = FALSE /\ stale[j] = FALSE
    BY RequestsAssumption DEF Init
  <2>2. order = [j \in AiJobs |-> "none"] /\ billed = [j \in AiJobs |-> FALSE]
    BY <1>0, <2>1
  <2> QED
    BY <2>2 DEF Order!Init
<1>2. IInv /\ [Next]_vars => [Order!Next]_(Order!vars)
  <2> SUFFICES ASSUME IInv, RowStep PROVE [Order!Next]_(Order!vars)
    BY RowSteps
  <2> USE RequestsAssumption DEF IInv, TypeOK, DataOK
  <2> DEFINE Same(i) == trip'[i] = trip[i] /\ refunded'[i] = refunded[i] /\ stale'[i] = stale[i]
  \* A step about one trip moves its order alone.
  <2>a. ASSUME \A i \in AiJobs : Same(i) PROVE UNCHANGED <<order, billed>>
    <3>1. \A i \in AiJobs : State(i)' = State(i) /\ Billed(i)' = Billed(i)
      BY <2>a
    <3> QED
      BY <3>1
  <2>b. ASSUME NEW j \in AiJobs, \A i \in Jobs \ {j} : Same(i)
        PROVE  /\ order[j] = State(j) /\ billed[j] = Billed(j)
               /\ order' = [order EXCEPT ![j] = State(j)']
               /\ billed' = [billed EXCEPT ![j] = Billed(j)']
               /\ Billed(j) = Billed(j)' => billed' = billed
               /\ State(j) = State(j)' => order' = order
    <3>1. \A i \in AiJobs \ {j} : State(i)' = State(i) /\ Billed(i)' = Billed(i)
      BY <2>b
    <3> HIDE DEF State, Billed
    <3> QED
      BY <3>1
  <2>1. CASE UNCHANGED <<trip, refunded, stale>>
    BY <2>1, <2>a DEF Order!vars
  <2>2. ASSUME NEW j \in Jobs, \A i \in Jobs \ {j} : Same(i), j \notin AiJobs
        PROVE  UNCHANGED Order!vars
    BY <2>2, <2>a DEF Order!vars
  <2>3. ASSUME NEW j \in AiJobs, \A i \in Jobs \ {j} : Same(i), stale'[j], trip[j] # "absent"
        PROVE  [Order!Next]_(Order!vars)
    <3>1. State(j)' = "overwritten" /\ Billed(j)' = FALSE
      BY <2>3
    <3>2. CASE stale[j]
      <4>1. State(j) = "overwritten" /\ Billed(j) = FALSE
        BY <3>2
      <4>2. UNCHANGED <<order, billed>>
        BY <2>3, <2>b, <3>1, <4>1
      <4> QED
        BY <4>2 DEF Order!vars
    <3>3. CASE ~stale[j]
      <4>0. trip[j] \in {"deleted"} \cup Rows
        BY <2>3
      <4>1. State(j) \notin {"none", "overwritten"}
        BY <1>0, <3>3, <4>0 DEF Rows
      <4> HIDE DEF State, Billed
      <4>2. /\ order[j] \notin {"none", "overwritten"}
            /\ order' = [order EXCEPT ![j] = "overwritten"]
            /\ billed' = [billed EXCEPT ![j] = FALSE]
        BY <2>3, <2>b, <3>1, <4>1
      <4> HIDE DEF order, billed
      <4> QED
        BY <4>2 DEF order, billed, State, Billed, Order!Next, Order!Overwrite
    <3> QED
      BY <3>2, <3>3
  <2>4. ASSUME NEW j \in AiJobs, UNCHANGED <<refunded, stale>>, ~stale[j],
               \A i \in Jobs \ {j} : Same(i),
               \/ trip[j] = "absent" /\ trip'[j] = "generating"
               \/ trip[j] = "generating" /\ trip'[j] = "success" /\ ~refunded[j]
               \/ trip[j] = "generating" /\ trip'[j] = "failed"
               \/ trip[j] \in {"generating", "success", "failed"} /\ trip'[j] = "deleted"
        PROVE  [Order!Next]_(Order!vars)
    <3>0. State(j) = OrderOf(trip[j]) /\ State(j)' = OrderOf(trip'[j])
      BY <2>4
    <3>c. trip[j] # "absent" => Billed(j)' = Billed(j)
      BY <2>4
    <3>1. CASE trip[j] = "absent"
      <4>1. ~refunded[j]
        BY <3>1 DEF FlowInv, Flow
      <4>2. Billed(j)' = TRUE /\ State(j) = "none" /\ State(j)' = "open"
        BY <1>0, <2>4, <3>0, <3>1, <4>1
      <4> HIDE DEF State, Billed
      <4>3. /\ order[j] = "none" /\ order' = [order EXCEPT ![j] = "open"]
            /\ billed' = [billed EXCEPT ![j] = TRUE]
        BY <2>4, <2>b, <4>2
      <4> HIDE DEF order, billed
      <4> QED
        BY <4>3 DEF order, billed, State, Billed, Order!Next, Order!Place
    <3>2. CASE trip[j] = "generating" /\ trip'[j] = "success" /\ ~refunded[j]
      <4>1. Billed(j) = TRUE /\ Billed(j)' = Billed(j)
            /\ State(j) = "open" /\ State(j)' = "delivered"
        BY <1>0, <2>4, <3>0, <3>c, <3>2
      <4> HIDE DEF State, Billed
      <4>2. /\ order[j] = "open" /\ billed[j] /\ order' = [order EXCEPT ![j] = "delivered"]
            /\ billed' = billed
        BY <2>4, <2>b, <4>1
      <4> HIDE DEF order, billed
      <4> QED
        BY <4>2 DEF order, billed, State, Billed, Order!Next, Order!Deliver
    <3>3. CASE trip[j] = "generating" /\ trip'[j] = "failed"
      <4>1. Billed(j)' = Billed(j) /\ State(j) = "open" /\ State(j)' = "failed"
        BY <1>0, <3>0, <3>c, <3>3
      <4> HIDE DEF State, Billed
      <4>2. order[j] = "open" /\ order' = [order EXCEPT ![j] = "failed"] /\ billed' = billed
        BY <2>4, <2>b, <4>1
      <4> HIDE DEF order, billed
      <4> QED
        BY <4>2 DEF order, billed, State, Billed, Order!Next, Order!Fail
    <3>4. CASE trip[j] \in {"generating", "success", "failed"} /\ trip'[j] = "deleted"
      <4>1. Billed(j)' = Billed(j) /\ State(j) \in {"open", "delivered", "failed"}
            /\ State(j)' = "withdrawn"
        BY <1>0, <3>0, <3>c, <3>4
      <4> HIDE DEF State, Billed
      <4>2. /\ order[j] \in {"open", "delivered", "failed"}
            /\ order' = [order EXCEPT ![j] = "withdrawn"] /\ billed' = billed
        BY <2>4, <2>b, <4>1
      <4> HIDE DEF order, billed
      <4> QED
        BY <4>2 DEF order, billed, State, Billed, Order!Next, Order!Withdraw
    <3> QED
      BY <2>4, <3>1, <3>2, <3>3, <3>4
  <2>5. ASSUME NEW j \in AiJobs, trip[j] \in {"generating", "failed"}, ~refunded[j], ~stale[j],
               UNCHANGED <<trip, stale>>, refunded' = [refunded EXCEPT ![j] = TRUE]
        PROVE  [Order!Next]_(Order!vars)
    <3>0. \A i \in Jobs \ {j} : Same(i)
      BY <2>5
    <3>1. Billed(j) = TRUE /\ Billed(j)' = FALSE /\ State(j) \in {"open", "failed"}
          /\ State(j)' = State(j)
      BY <1>0, <2>5
    <3> HIDE DEF State, Billed
    <3>2. /\ order[j] \in {"open", "failed"} /\ billed[j] /\ order' = order
          /\ billed' = [billed EXCEPT ![j] = FALSE]
      BY <2>b, <3>0, <3>1
    <3> HIDE DEF order, billed
    <3> QED
      BY <3>2 DEF order, billed, State, Billed, Order!Next, Order!Refund
  <2>6. ASSUME NEW j \in AiJobs, ~stale[j] PROVE trip[j] # "none"
    BY <2>6 DEF FlowInv, Flow, RowsFit
  <2> HIDE DEF State, Billed, order, billed
  <2> QED
    BY <2>1, <2>2, <2>3, <2>4, <2>5, <2>6 DEF RowStep, Rows
<1> QED
  BY <1>1, <1>2, Inductive, PTL DEF Spec, ImplementsOrder, Order!Spec

-----------------------------------------------------------------------------
(* The counter and the ledger. *)

LEMMA OwnedFinite ==
  ASSUME NEW u \in Users
  PROVE  IsFiniteSet(Live(u)) /\ IsFiniteSet(Late(u))
BY BoundsAssumption, FS_Subset DEF Live, Late

\* Has a save put back a trip of the user?
PutBack(u) == \E j \in Jobs : Owner[j] = u /\ stale[j]

\* One request changes its unit, and its owner's counter follows.
LEMMA UnitStep ==
  ASSUME TypeOK, CounterMatchesLedger, NEW j \in Jobs, stale' = stale,
         used' = [used EXCEPT ![Owner[j]] = used'[Owner[j]]],
         ledger' = [ledger EXCEPT ![j] = ledger'[j]],
         \/ /\ ledger[j] = "none" /\ ledger'[j] = "charged"
            /\ used'[Owner[j]] = used[Owner[j]] + 1
         \/ /\ \/ ledger[j] = "charged" /\ ledger'[j] = "refunded"
               \/ ledger[j] = "carried" /\ ledger'[j] = "lateRefund"
            /\ used'[Owner[j]] = IF used[Owner[j]] > 0 THEN used[Owner[j]] - 1 ELSE 0
         \/ /\ ledger[j] \notin {"charged", "carried"} /\ ledger'[j] = "overRefund" /\ stale[j]
            /\ used'[Owner[j]] = IF used[Owner[j]] > 0 THEN used[Owner[j]] - 1 ELSE 0
  PROVE  CounterMatchesLedger'
<1> USE RequestsAssumption DEF TypeOK, DataOK
<1> SUFFICES ASSUME NEW u \in Users
             PROVE  /\ used'[u] <= Cardinality(Live(u)')
                    /\ PutBack(u) \/ Cardinality(Live(u)') <= used'[u] + Cardinality(Late(u)')
  BY DEF CounterMatchesLedger, PutBack
<1>1. /\ IsFiniteSet(Live(u)) /\ IsFiniteSet(Late(u)) /\ used[u] \in Nat
      /\ Cardinality(Live(u)) \in Nat /\ Cardinality(Late(u)) \in Nat
      /\ used[u] <= Cardinality(Live(u))
      /\ PutBack(u) \/ Cardinality(Live(u)) <= used[u] + Cardinality(Late(u))
  BY OwnedFinite, FS_CardinalityType DEF CounterMatchesLedger, PutBack
<1>2. CASE u # Owner[j]
  <2>1. Live(u)' = Live(u) /\ Late(u)' = Late(u)
    BY <1>2 DEF Live, Late
  <2>2. used'[u] = used[u]
    BY <1>2
  <2> QED
    BY <1>1, <2>1, <2>2
<1>3. CASE u = Owner[j] /\ ledger[j] = "none" /\ ledger'[j] = "charged"
  <2>1. Live(u)' = Live(u) \cup {j} /\ j \notin Live(u) /\ Late(u)' = Late(u)
    BY <1>3 DEF Live, Late
  <2>a. Cardinality(Live(u) \cup {j}) = Cardinality(Live(u)) + 1
    <3>1. IsFiniteSet(Live(u)) /\ j \notin Live(u)
      BY <2>1, OwnedFinite
    <3> HIDE DEF Live
    <3> QED
      BY ONLY <3>1, FS_AddElement
  <2>2. Cardinality(Live(u)') = Cardinality(Live(u)) + 1
    BY <2>1, <2>a
  <2>3. used'[u] = used[u] + 1
    BY <1>3
  <2> QED
    BY <1>1, <2>1, <2>2, <2>3
<1>4. CASE u = Owner[j] /\ ledger[j] = "charged"
  <2>1. Live(u)' = Live(u) \ {j} /\ j \in Live(u) /\ Late(u)' = Late(u)
    BY <1>4 DEF Live, Late
  <2>2. Cardinality(Live(u)') = Cardinality(Live(u)) - 1
    BY <1>1, <2>1, FS_RemoveElement
  <2>3. Cardinality(Live(u)) # 0
    BY <1>1, <2>1, FS_EmptySet
  <2>4. used'[u] = IF used[u] > 0 THEN used[u] - 1 ELSE 0
    BY <1>4
  <2> QED
    BY <1>1, <2>1, <2>2, <2>3, <2>4
<1>5. CASE u = Owner[j] /\ ledger[j] = "carried"
  <2>1. Late(u)' = Late(u) \cup {j} /\ j \notin Late(u) /\ Live(u)' = Live(u)
    BY <1>5 DEF Live, Late
  <2>a. Cardinality(Late(u) \cup {j}) = Cardinality(Late(u)) + 1
    <3>1. IsFiniteSet(Late(u)) /\ j \notin Late(u)
      BY <2>1, OwnedFinite
    <3> HIDE DEF Late
    <3> QED
      BY ONLY <3>1, FS_AddElement
  <2>2. Cardinality(Late(u)') = Cardinality(Late(u)) + 1
    BY <2>1, <2>a
  <2>3. used'[u] = IF used[u] > 0 THEN used[u] - 1 ELSE 0
    BY <1>5
  <2> QED
    BY <1>1, <2>1, <2>2, <2>3
<1>6. CASE u = Owner[j] /\ ledger[j] \notin {"charged", "carried"} /\ ledger'[j] = "overRefund"
           /\ stale[j]
  <2>1. PutBack(u)
    BY <1>6 DEF PutBack
  <2>2. Live(u)' = Live(u) /\ used'[u] <= used[u]
    BY <1>1, <1>6 DEF Live
  <2> QED
    BY <1>1, <2>1, <2>2
<1> QED
  BY <1>2, <1>3, <1>4, <1>5, <1>6

\* A reset of the counters of U forgets the charges counted in them.
LEMMA ResetStep ==
  ASSUME TypeOK, CounterMatchesLedger, NEW U \in SUBSET Users, CarryOver(U), stale' = stale,
         used' = [u \in Users |-> IF u \in U THEN 0 ELSE used[u]]
  PROVE  CounterMatchesLedger'
<1> SUFFICES ASSUME NEW u \in Users
             PROVE  /\ used'[u] <= Cardinality(Live(u)')
                    /\ PutBack(u) \/ Cardinality(Live(u)') <= used'[u] + Cardinality(Late(u)')
  BY DEF CounterMatchesLedger, PutBack
<1>1. CASE u \in U
  <2>1. Live(u)' = {} /\ Late(u)' = {} /\ used'[u] = 0
    BY <1>1 DEF CarryOver, Live, Late
  <2> QED
    BY <2>1, FS_EmptySet
<1>2. CASE u \notin U
  <2>1. Live(u)' = Live(u) /\ Late(u)' = Late(u) /\ used'[u] = used[u]
    BY <1>2 DEF CarryOver, Live, Late
  <2> QED
    BY <2>1 DEF CounterMatchesLedger, PutBack
<1> QED
  BY <1>1, <1>2

\* The counter is the number of live charges, up to late refunds and the refunds of
\* trips that a save put back.
THEOREM CounterExact == Spec => []CounterMatchesLedger
<1>1. Init => CounterMatchesLedger
  <2> SUFFICES ASSUME Init, NEW u \in Users
               PROVE  used[u] <= Cardinality(Live(u)) /\ Cardinality(Live(u)) <= used[u] + Cardinality(Late(u))
    BY DEF CounterMatchesLedger
  <2>1. Live(u) = {} /\ Late(u) = {} /\ used[u] = 0
    BY DEF Init, Live, Late
  <2> QED
    BY <2>1, FS_EmptySet
<1>2. ASSUME IInv, CounterMatchesLedger, [Next]_vars PROVE CounterMatchesLedger'
  <2> USE <1>2, RequestsAssumption DEF IInv
  <2>0. ASSUME UNCHANGED <<used, ledger>> PROVE CounterMatchesLedger'
    <3>1. \A u \in Users : Live(u)' = Live(u) /\ Late(u)' = Late(u) /\ used'[u] = used[u]
      BY <2>0 DEF Live, Late
    <3>2. \A j \in Jobs : stale[j] => stale'[j]
      BY CopyStep DEF FlowInv
    <3> QED
      BY <3>1, <3>2 DEF CounterMatchesLedger
  <2>1. ASSUME NEW j \in Jobs, CommitPhaseA(j) PROVE CounterMatchesLedger'
    <3>1. CASE Owner[j] \in Admins
      BY <2>0, <2>1, <3>1 DEF CommitPhaseA
    <3>2. CASE Owner[j] \notin Admins
      <4>1. ledger[j] = "none"
        BY <2>1 DEF CommitPhaseA, FlowInv, Flow, BeforeRow
      <4>2. /\ stale' = stale /\ used' = [used EXCEPT ![Owner[j]] = used'[Owner[j]]]
            /\ ledger' = [ledger EXCEPT ![j] = ledger'[j]]
            /\ ledger'[j] = "charged" /\ used'[Owner[j]] = used[Owner[j]] + 1
        BY <2>1, <3>2 DEF CommitPhaseA, TypeOK, DataOK
      <4> QED
        BY <4>1, <4>2, UnitStep
    <3> QED
      BY <3>1, <3>2
  <2>2. ASSUME NEW j \in Jobs, DecrementAiTripCount(j) PROVE CounterMatchesLedger'
    <3>1. stale[j] \/ ledger[j] \in {"charged", "carried"}
      BY <2>2 DEF DecrementAiTripCount, FlowInv, Flow, LedgerInv, UnitKept, Awaits, BeforeRow
    <3>2. /\ stale' = stale /\ used' = [used EXCEPT ![Owner[j]] = used'[Owner[j]]]
          /\ ledger' = [ledger EXCEPT ![j] = ledger'[j]]
          /\ used'[Owner[j]] = IF used[Owner[j]] > 0 THEN used[Owner[j]] - 1 ELSE 0
          /\ ledger[j] = "charged" => ledger'[j] = "refunded"
          /\ ledger[j] = "carried" => ledger'[j] = "lateRefund"
          /\ ledger[j] \notin {"charged", "carried"} => ledger'[j] = "overRefund"
      BY <2>2 DEF DecrementAiTripCount, rowVars, TypeOK, DataOK
    <3> QED
      BY <3>1, <3>2, UnitStep
  <2>3. ASSUME NEW u \in Users, InitialPurchase(u) PROVE CounterMatchesLedger'
    <3>1. /\ CarryOver({u}) /\ used' = [v \in Users |-> IF v \in {u} THEN 0 ELSE used[v]]
          /\ stale' = stale
      BY <2>3 DEF InitialPurchase, rowVars, TypeOK, DataOK
    <3> QED
      BY <3>1, ResetStep
  <2>4. CASE ResetMonthlyAiTripCounters
    <3>1. /\ CarryOver(Users) /\ used' = [v \in Users |-> IF v \in Users THEN 0 ELSE used[v]]
          /\ stale' = stale
      BY <2>4 DEF ResetMonthlyAiTripCounters, rowVars
    <3> QED
      BY <3>1, ResetStep
  <2> QED
    BY <1>2, <2>0, <2>1, <2>2, <2>3, <2>4, CounterMoves
<1> QED
  BY <1>1, <1>2, Inductive, PTL DEF Spec

-----------------------------------------------------------------------------
(* A database that answers: every request comes to its verdict, and gives    *)
(* back what it has not delivered.                                           *)

LEMMA RefundStep ==
  ASSUME ~DbMayFail, IInv, RefundInv, [Next]_vars PROVE RefundInv'
<1> DEFINE Refund(j) == /\ Spent(j) => j \in AiJobs /\ Owner[j] \notin Admins
                        /\ stale[j] \/ RefundFirst(j)
<1> DEFINE Same(i) == /\ pc'[i] = pc[i] /\ final'[i] = final[i] /\ trip'[i] = trip[i]
                      /\ refunded'[i] = refunded[i] /\ ledger'[i] = ledger[i]
                      /\ stale'[i] = stale[i]
<1>t. TypeOK /\ LockInv /\ FlowInv /\ LedgerInv
  BY DEF IInv
<1>0. \A j \in Jobs : Refund(j)
  BY DEF RefundInv
<1>00. (\A j \in Jobs : Refund(j)') => RefundInv'
  BY DEF RefundInv
<1> USE DEF RefundFirst
<1>1. ASSUME NEW j \in Jobs, Refund(j)', \A i \in Jobs \ {j} : Same(i)
      PROVE  RefundInv'
  <2> SUFFICES ASSUME NEW i \in Jobs, i # j PROVE Refund(i)'
    BY <1>1, <1>00
  <2>1. Same(i) /\ Refund(i)
    BY <1>0, <1>1
  <2> QED
    BY <2>1 DEF Spent
\* A step that moves one request and touches no row: not past the refund with a unit
\* that is spent on nothing.
<1>2. ASSUME NEW j \in Jobs, \A i \in Jobs \ {j} : Same(i),
             UNCHANGED <<trip, refunded, ledger, stale>>,
             \/ stale[j]
             \/ /\ pc[j] \notin {"credit", "lost"} \/ ~Spent(j)
                /\ pc'[j] \in {"merge", "saving", "reply", "done"} =>
                     \/ ~Spent(j) \/ trip[j] = "deleted"
                     \/ pc'[j] = "saving" /\ final'[j] = "success"
                     \/ pc'[j] = "done" /\ trip[j] = "success"
      PROVE  RefundInv'
  BY <1>0, <1>1, <1>2 DEF Spent
<1>3. ASSUME NEW j \in Jobs, PhaseA(j) PROVE RefundInv'
  <2>1. CASE PhaseAManual(j)
    <3>1. /\ \A i \in Jobs \ {j} : Same(i)
          /\ pc[j] = "phaseA" /\ pc'[j] = "validate" /\ UNCHANGED <<refunded, ledger, stale>>
      BY <1>t, <2>1 DEF PhaseAManual, Await, userVars, TypeOK, ControlOK, DataOK
    <3> QED
      BY <1>0, <1>1, <3>1 DEF Spent
  <2>2. CASE LockUser(j) \/ LimitReached(j) \/ RollbackPhaseA(j)
    <3>1. /\ \A i \in Jobs \ {j} : Same(i)
          /\ pc[j] \in {"phaseA", "charge"} /\ pc'[j] \in {"charge", "done"}
          /\ UNCHANGED <<trip, refunded, ledger, stale>>
      BY <1>t, <2>2 DEF LockUser, LimitReached, RollbackPhaseA, Reject, Await, rowVars, userVars,
         TypeOK, ControlOK, DataOK
    <3>2. ledger[j] = "none"
      BY <1>t, <3>1 DEF FlowInv, Flow, BeforeRow
    <3> QED
      BY <1>2, <3>1, <3>2 DEF Spent
  <2>3. CASE CommitPhaseA(j)
    <3>1. /\ \A i \in Jobs \ {j} : Same(i)
          /\ pc[j] = "charge" /\ pc'[j] = "validate" /\ UNCHANGED <<refunded, stale>>
          /\ \/ Owner[j] \in Admins /\ ledger'[j] = ledger[j]
             \/ Owner[j] \notin Admins /\ ledger'[j] = "charged"
      BY <1>t, <2>3 DEF CommitPhaseA, Await, TypeOK, ControlOK, DataOK
    <3>2. j \in AiJobs /\ ~refunded[j] /\ ledger[j] = "none"
      BY <1>t, <3>1 DEF LockInv, FlowInv, Flow, BeforeRow
    <3> QED
      BY <1>0, <1>1, <3>1, <3>2 DEF Spent
  <2> QED
    BY <1>3, <2>1, <2>2, <2>3 DEF PhaseA
<1>4. ASSUME NEW j \in Jobs, PhaseB(j) PROVE RefundInv'
  <2>1. CASE Validate(j) \/ FetchWeather(j)
    <3>1. /\ \A i \in Jobs \ {j} : Same(i)
          /\ pc[j] \in {"validate", "locating"} /\ UNCHANGED <<trip, refunded, ledger, stale>>
          /\ pc'[j] \in {"mark", "flag", "done", "locating", "weather"}
          /\ pc'[j] = "done" => j \notin AiJobs
      BY <1>t, <2>1, OuterCatchFlow
      DEF Validate, FetchWeather, InnerCatch, Await, rowVars, userVars, TypeOK, ControlOK, DataOK
    <3> QED
      BY <1>0, <1>2, <3>1
  <2>2. CASE AfterWeather(j)
    <3>1. /\ \A i \in Jobs \ {j} : Same(i)
          /\ pc[j] = "weather" /\ UNCHANGED <<trip, refunded, ledger, stale>>
          /\ pc'[j] \in {"mark", "flag", "done", "generating", "saving"}
          /\ pc'[j] \in {"done", "saving"} => j \notin AiJobs
      BY <1>t, <2>2, OuterCatchFlow
      DEF AfterWeather, InnerCatch, Await, rowVars, userVars, TypeOK, ControlOK, DataOK
    <3> QED
      BY <1>0, <1>2, <3>1
  <2>3. CASE AiSucceeds(j) \/ AiFails(j) \/ AiCancelled(j)
    <3>1. /\ \A i \in Jobs \ {j} : Same(i)
          /\ pc[j] = "generating" /\ UNCHANGED <<trip, refunded, ledger, stale>>
          /\ \/ pc'[j] = "saving" /\ final'[j] = "success"
             \/ pc'[j] \in {"flag", "mark"}
      BY <1>t, <2>3 DEF AiSucceeds, AiFails, AiCancelled, InnerCatch, Await, rowVars, userVars,
         TypeOK, ControlOK, DataOK
    <3> QED
      BY <1>2, <3>1
  <2>4. CASE MergeFallback(j)
    <3>1. /\ \A i \in Jobs \ {j} : Same(i)
          /\ pc[j] = "merge" /\ UNCHANGED <<trip, refunded, ledger, stale>>
          /\ pc'[j] \in {"mark", "flag", "done", "saving"}
      BY <1>t, <2>4, OuterCatchFlow
      DEF MergeFallback, Await, rowVars, userVars, TypeOK, ControlOK, DataOK
    <3> QED
      BY <1>0, <1>2, <3>1
  <2> QED
    BY <1>4, <2>1, <2>2, <2>3, <2>4 DEF PhaseB
<1>5. ASSUME NEW j \in Jobs, PhaseC(j) PROVE RefundInv'
  <2>1. CASE CommitPhaseC(j)
    <3>1. /\ \A i \in Jobs \ {j} : Same(i)
          /\ pc[j] = "saving" /\ pc'[j] = "reply" /\ trip[j] \in Rows
          /\ trip'[j] = (IF final[j] = "undefined" THEN trip[j] ELSE final[j])
          /\ UNCHANGED <<final, refunded, ledger, stale>>
      BY <1>t, <2>1 DEF CommitPhaseC, Await, userVars, TypeOK, ControlOK, DataOK
    <3> QED
      BY <1>0, <1>1, <3>1 DEF Spent, Rows
  <2>2. CASE FailPhaseC(j) \/ Reply(j) \/ ReplyFails(j)
    <3>1. /\ \A i \in Jobs \ {j} : Same(i)
          /\ UNCHANGED <<trip, refunded, ledger, stale>>
          /\ \/ pc[j] = "saving" /\ pc'[j] = "mark"
             \/ pc[j] = "reply" /\ pc'[j] = "done"
      BY <1>t, <2>2 DEF FailPhaseC, Reply, ReplyFails, InnerCatch, Reject, Await, rowVars, userVars,
         TypeOK, ControlOK, DataOK
    <3> QED
      BY <1>0, <1>2, <3>1
  <2> QED
    BY <1>5, <2>1, <2>2 DEF PhaseC
<1>6. ASSUME NEW j \in Jobs, Compensate(j) PROVE RefundInv'
  <2>1. CASE MarkTripFailed(j)
    <3>1. /\ \A i \in Jobs \ {j} : Same(i)
          /\ pc[j] = "mark" /\ pc'[j] \in {"mark", "flag", "done"}
          /\ pc'[j] # "flag" => j \notin AiJobs
          /\ UNCHANGED <<refunded, ledger, stale>>
      BY <1>t, <2>1, AfterMarkFlow DEF MarkTripFailed, userVars, TypeOK, ControlOK, DataOK
    <3> QED
      BY <1>0, <1>1, <3>1 DEF Spent
  <2>2. CASE FlipRefundFlag(j)
    <3>1. /\ \A i \in Jobs \ {j} : Same(i)
          /\ pc'[j] = "credit" /\ UNCHANGED <<ledger, stale>>
      BY <1>t, <2>2 DEF FlipRefundFlag, Await, userVars, TypeOK, ControlOK, DataOK
    <3> QED
      BY <1>0, <1>1, <3>1 DEF Spent
  <2>3. CASE SkipRefund(j)
    <3>1. /\ \A i \in Jobs \ {j} : Same(i)
          /\ UNCHANGED <<trip, refunded, ledger, stale>>
          /\ pc[j] = "flag" /\ (refunded[j] \/ trip[j] = "deleted")
          /\ pc'[j] \in {"mark", "flag", "done", "merge"}
      BY <1>t, <2>3, AfterRefundFlow DEF SkipRefund, rowVars, userVars, TypeOK, ControlOK, DataOK
    <3> QED
      BY <1>0, <1>2, <3>1
  <2>4. CASE DecrementAiTripCount(j)
    <3>1. /\ \A i \in Jobs \ {j} : Same(i)
          /\ ledger'[j] \in {"refunded", "lateRefund", "overRefund"} /\ UNCHANGED stale
      BY <1>t, <2>4, AfterRefundFlow
      DEF DecrementAiTripCount, rowVars, TypeOK, ControlOK, DataOK
    <3> QED
      BY <1>1, <3>1 DEF Spent
  <2>5. CASE SkipDecrement(j)
    <3>1. /\ \A i \in Jobs \ {j} : Same(i)
          /\ UNCHANGED <<trip, refunded, ledger, stale>>
          /\ Owner[j] \in Admins
      BY <1>t, <2>5, AfterRefundFlow DEF SkipDecrement, rowVars, userVars, TypeOK, ControlOK, DataOK
    <3> QED
      BY <1>0, <1>2, <3>1
  <2> QED
    BY <1>6, <2>1, <2>2, <2>3, <2>4, <2>5 DEF Compensate
<1>7. ASSUME NEW j \in Jobs,
             \/ CreateAsync(j) \/ CreateSync(j) \/ StartTripCreation(j)
             \/ CancelJob(j) \/ CleanupJob(j) \/ RemoveTrip(j)
      PROVE  RefundInv'
  <2>1. CASE CreateAsync(j) \/ CreateSync(j) \/ StartTripCreation(j)
    <3>1. /\ \A i \in Jobs \ {j} : Same(i)
          /\ UNCHANGED <<trip, refunded, ledger, stale>>
          /\ pc[j] \in {"idle", "queued"} /\ pc'[j] \in {"queued", "phaseA"}
      BY <1>t, <2>1 DEF CreateAsync, CreateSync, StartTripCreation, Await, rowVars, userVars,
         TypeOK, ControlOK, DataOK
    <3> QED
      BY <1>2, <3>1
  <2>2. CASE CancelJob(j) \/ CleanupJob(j)
    BY <2>2 DEF CancelJob, CleanupJob, ctlVars, rowVars, userVars, RefundInv, Spent
  <2>3. CASE RemoveTrip(j)
    <3>1. /\ \A i \in Jobs \ {j} : Same(i)
          /\ trip'[j] = "deleted" /\ UNCHANGED <<pc, final, refunded, ledger, stale>>
      BY <1>t, <2>3 DEF RemoveTrip, ctlVars, userVars, TypeOK, ControlOK, DataOK
    <3> QED
      BY <1>0, <1>1, <3>1 DEF Spent
  <2> QED
    BY <1>7, <2>1, <2>2, <2>3
<1>8. ASSUME UNCHANGED <<pc, final, trip, refunded, stale>>, \A j \in Jobs : Spent(j)' <=> Spent(j)
      PROVE  RefundInv'
  <2> SUFFICES ASSUME NEW j \in Jobs PROVE Refund(j)'
    BY <1>00
  <2> QED
    BY <1>0, <1>8
<1>9. ASSUME NEW u \in Users, InitialPurchase(u) \/ Expiration(u) PROVE RefundInv'
  BY <1>8, <1>9 DEF InitialPurchase, Expiration, CarryOver, ctlVars, rowVars, Spent
<1>10. CASE ResetMonthlyAiTripCounters
  BY <1>8, <1>10 DEF ResetMonthlyAiTripCounters, CarryOver, ctlVars, rowVars, Spent
<1>11. CASE Restart
  <2> SUFFICES ASSUME NEW j \in Jobs PROVE Refund(j)'
    BY <1>00
  <2>1. /\ pc'[j] = "lost" \/ (pc'[j] = pc[j] /\ pc[j] \notin Awaits)
        /\ UNCHANGED <<trip, refunded, ledger, stale>>
    BY <1>11 DEF Restart, Suspended, rowVars
  <2> QED
    BY <1>0, <2>1 DEF Awaits, Spent
<1>12. CASE UNCHANGED vars
  BY <1>8, <1>12 DEF vars, ctlVars, rowVars, userVars, Spent
<1>13. ASSUME NEW s \in Savers, Saver(s) PROVE RefundInv'
  <2>0. /\ UNCHANGED <<pc, final, ledger>>
        /\ UNCHANGED <<trip, itin, refunded, stale>> \/ \E j \in Jobs : Overwritten(j)
    BY <1>t, <1>13, SaverStep DEF FlowInv, ctlVars, userVars
  <2>1. CASE UNCHANGED <<trip, itin, refunded, stale>>
    BY <1>8, <2>0, <2>1 DEF Spent
  <2>2. ASSUME NEW j \in Jobs, Overwritten(j) PROVE RefundInv'
    BY <1>0, <1>1, <2>0, <2>2 DEF Overwritten, Spent
  <2> QED
    BY <2>0, <2>1, <2>2
<1> QED
  BY <1>3, <1>4, <1>5, <1>6, <1>7, <1>9, <1>10, <1>11, <1>12, <1>13 DEF Next, Run, Quiescent, Saver

LEMMA VerdictStep ==
  ASSUME ~DbMayFail, IInv, VerdictInv, [Next]_vars PROVE VerdictInv'
<1> DEFINE Verdict(j) == /\ err[j] = "cancelled" => aborted[j]
                         /\ pc[j] = "saving" /\ j \in AiJobs => final[j] # "undefined"
                         /\ stale[j] \/ Settled(j)
<1> DEFINE Same(i) == /\ pc'[i] = pc[i] /\ frame'[i] = frame[i] /\ err'[i] = err[i]
                      /\ final'[i] = final[i] /\ trip'[i] = trip[i] /\ aborted'[i] = aborted[i]
                      /\ stale'[i] = stale[i]
<1>t. TypeOK /\ LockInv /\ FlowInv
  BY DEF IInv
<1>0. \A j \in Jobs : Verdict(j)
  BY DEF VerdictInv
<1>00. (\A j \in Jobs : Verdict(j)') => VerdictInv'
  BY DEF VerdictInv
<1> USE DEF Settled
<1>1. ASSUME NEW j \in Jobs, Verdict(j)', \A i \in Jobs \ {j} : Same(i)
      PROVE  VerdictInv'
  <2> SUFFICES ASSUME NEW i \in Jobs, i # j PROVE Verdict(i)'
    BY <1>1, <1>00
  <2>1. Same(i) /\ Verdict(i)
    BY <1>0, <1>1
  <2> QED
    BY <2>1
<1>2. ASSUME NEW j \in Jobs, PhaseA(j) PROVE VerdictInv'
  <2>1. /\ \A i \in Jobs \ {j} : Same(i)
        /\ pc[j] \in {"phaseA", "charge"} /\ pc'[j] \in {"validate", "charge", "done"}
        /\ pc'[j] = "done" => trip'[j] = trip[j]
        /\ UNCHANGED <<err, aborted, stale>>
    BY <1>t, <1>2 DEF PhaseA, PhaseAManual, LockUser, LimitReached, CommitPhaseA, RollbackPhaseA,
       Reject, Await, jobVars, rowVars, TypeOK, ControlOK, DataOK
  <2>2. trip[j] = "absent"
    BY <1>t, <2>1 DEF FlowInv, Flow, BeforeRow
  <2> QED
    BY <1>0, <1>1, <2>1, <2>2
<1>3. ASSUME NEW j \in Jobs, PhaseB(j) PROVE VerdictInv'
  <2>1. CASE Validate(j)
    <3>1. /\ \A i \in Jobs \ {j} : Same(i)
          /\ UNCHANGED <<trip, aborted, stale>>
          /\ \/ aborted[j] /\ pc'[j] \in {"mark", "flag", "done"}
             \/ pc'[j] = "locating" /\ UNCHANGED err
      BY <1>t, <2>1, OuterCatchFlow DEF Validate, Await, rowVars, TypeOK, ControlOK, DataOK
    <3> QED
      BY <1>0, <1>1, <3>1
  <2>2. CASE FetchWeather(j)
    <3>1. /\ \A i \in Jobs \ {j} : Same(i)
          /\ UNCHANGED <<trip, aborted, stale>>
          /\ \/ aborted[j] /\ pc'[j] \in {"mark", "flag", "done"}
             \/ pc'[j] = "weather" /\ UNCHANGED err
      BY <1>t, <2>2, OuterCatchFlow
      DEF FetchWeather, InnerCatch, Await, rowVars, TypeOK, ControlOK, DataOK
    <3> QED
      BY <1>0, <1>1, <3>1
  <2>3. CASE AfterWeather(j)
    <3>1. /\ \A i \in Jobs \ {j} : Same(i)
          /\ UNCHANGED <<trip, aborted, stale>>
          /\ \/ aborted[j] /\ pc'[j] \in {"mark", "flag", "done"}
             \/ pc'[j] = "generating" /\ UNCHANGED err
             \/ pc'[j] = "saving" /\ j \notin AiJobs /\ UNCHANGED err
      BY <1>t, <2>3, OuterCatchFlow
      DEF AfterWeather, InnerCatch, Await, rowVars, TypeOK, ControlOK, DataOK
    <3> QED
      BY <1>0, <1>1, <3>1
  <2>4. CASE AiSucceeds(j) \/ AiFails(j) \/ AiCancelled(j)
    <3>1. /\ \A i \in Jobs \ {j} : Same(i)
          /\ UNCHANGED <<trip, aborted, stale>>
          /\ \/ pc'[j] = "saving" /\ final'[j] = "success" /\ UNCHANGED err
             \/ pc'[j] = "flag" /\ frame'[j] = "fallback" /\ UNCHANGED err
             \/ aborted[j] /\ pc'[j] = "mark"
      BY <1>t, <2>4 DEF AiSucceeds, AiFails, AiCancelled, InnerCatch, Await, jobVars, rowVars,
         TypeOK, ControlOK, DataOK
    <3> QED
      BY <1>0, <1>1, <3>1
  <2>5. CASE MergeFallback(j)
    <3>1. /\ \A i \in Jobs \ {j} : Same(i)
          /\ pc[j] = "merge" /\ UNCHANGED <<trip, aborted, final, stale>>
          /\ \/ aborted[j] /\ pc'[j] \in {"mark", "flag", "done"}
             \/ pc'[j] = "saving" /\ UNCHANGED err
      BY <1>t, <2>5, OuterCatchFlow DEF MergeFallback, Await, rowVars, TypeOK, ControlOK, DataOK
    <3>2. final[j] = "failed"
      BY <1>t, <3>1 DEF FlowInv, Flow
    <3> QED
      BY <1>0, <1>1, <3>1, <3>2
  <2> QED
    BY <1>3, <2>1, <2>2, <2>3, <2>4, <2>5 DEF PhaseB
<1>4. ASSUME NEW j \in Jobs, PhaseC(j) PROVE VerdictInv'
  <2>1. CASE CommitPhaseC(j)
    <3>1. /\ \A i \in Jobs \ {j} : Same(i)
          /\ pc[j] = "saving" /\ pc'[j] = "reply"
          /\ trip'[j] = (IF final[j] = "undefined" THEN trip[j] ELSE final[j])
          /\ final[j] \in {"undefined", "success", "failed"}
          /\ UNCHANGED <<err, aborted, stale>>
      BY <1>t, <2>1 DEF CommitPhaseC, Await, TypeOK, ControlOK, DataOK
    <3>2. stale[j] \/ (j \notin AiJobs => trip[j] # "generating")
      BY <1>t DEF FlowInv, Flow, RowsFit
    <3> QED
      BY <1>0, <1>1, <3>1, <3>2
  <2>2. CASE FailPhaseC(j)
    <3>1. /\ \A i \in Jobs \ {j} : Same(i)
          /\ pc'[j] = "mark" /\ err'[j] = "failure" /\ UNCHANGED stale
      BY <1>t, <2>2 DEF FailPhaseC, InnerCatch, Await, jobVars, rowVars, TypeOK, ControlOK, DataOK
    <3> QED
      BY <1>1, <3>1
  <2>3. CASE Reply(j) \/ ReplyFails(j)
    <3>1. /\ \A i \in Jobs \ {j} : Same(i)
          /\ pc[j] = "reply" /\ pc'[j] = "done" /\ UNCHANGED <<trip, err, aborted, stale>>
      BY <1>t, <2>3 DEF Reply, ReplyFails, Reject, Await, rowVars, TypeOK, ControlOK, DataOK
    <3> QED
      BY <1>0, <1>1, <3>1
  <2> QED
    BY <1>4, <2>1, <2>2, <2>3 DEF PhaseC
<1>5. ASSUME NEW j \in Jobs, Compensate(j) PROVE VerdictInv'
  <2>1. CASE MarkTripFailed(j)
    <3>1. /\ \A i \in Jobs \ {j} : Same(i)
          /\ trip'[j] = (IF trip[j] \in Rows THEN "failed" ELSE trip[j])
          /\ pc'[j] \in {"mark", "flag", "done"} /\ UNCHANGED <<err, aborted, stale>>
      BY <1>t, <2>1, AfterMarkFlow DEF MarkTripFailed, TypeOK, ControlOK, DataOK
    <3> QED
      BY <1>0, <1>1, <3>1 DEF Rows
  <2>2. CASE FlipRefundFlag(j)
    <3>1. /\ \A i \in Jobs \ {j} : Same(i)
          /\ pc[j] = "flag" /\ pc'[j] = "credit" /\ UNCHANGED <<trip, frame, err, aborted, stale>>
      BY <1>t, <2>2 DEF FlipRefundFlag, Await, jobVars, TypeOK, ControlOK, DataOK
    <3> QED
      BY <1>0, <1>1, <3>1
  <2>3. CASE SkipRefund(j) \/ DecrementAiTripCount(j) \/ SkipDecrement(j)
    <3>1. /\ \A i \in Jobs \ {j} : Same(i)
          /\ pc[j] \in {"flag", "credit"} /\ UNCHANGED <<trip, err, aborted, stale>>
          /\ pc'[j] \in {"mark", "flag", "done", "merge"}
          /\ pc'[j] = "merge" <=> frame[j] = "fallback"
      BY <1>t, <2>3, AfterRefundFlow
      DEF SkipRefund, DecrementAiTripCount, SkipDecrement, rowVars, TypeOK, ControlOK, DataOK
    <3> QED
      BY <1>0, <1>1, <3>1
  <2> QED
    BY <1>5, <2>1, <2>2, <2>3 DEF Compensate
<1>6. ASSUME NEW j \in Jobs,
             \/ CreateAsync(j) \/ CreateSync(j) \/ StartTripCreation(j)
             \/ CancelJob(j) \/ CleanupJob(j) \/ RemoveTrip(j)
      PROVE  VerdictInv'
  <2>1. CASE CreateAsync(j) \/ CreateSync(j) \/ StartTripCreation(j)
    <3>1. /\ \A i \in Jobs \ {j} : Same(i)
          /\ pc'[j] \in {"queued", "phaseA"} /\ UNCHANGED <<err, aborted, stale>>
      BY <1>t, <2>1 DEF CreateAsync, CreateSync, StartTripCreation, Await, jobVars, rowVars,
         TypeOK, ControlOK, DataOK
    <3> QED
      BY <1>0, <1>1, <3>1
  <2>2. CASE CancelJob(j)
    <3>1. /\ \A i \in Jobs \ {j} : Same(i)
          /\ aborted'[j] = TRUE /\ UNCHANGED <<pc, frame, err, final, trip, stale>>
      BY <1>t, <2>2 DEF CancelJob, ctlVars, rowVars, TypeOK, DataOK
    <3> QED
      BY <1>0, <1>1, <3>1
  <2>3. CASE CleanupJob(j)
    BY <2>3 DEF CleanupJob, ctlVars, rowVars, VerdictInv
  <2>4. CASE RemoveTrip(j)
    <3>1. /\ \A i \in Jobs \ {j} : Same(i)
          /\ trip'[j] = "deleted" /\ UNCHANGED <<pc, frame, err, final, aborted, stale>>
      BY <1>t, <2>4 DEF RemoveTrip, jobVars, ctlVars, TypeOK, DataOK
    <3> QED
      BY <1>0, <1>1, <3>1
  <2> QED
    BY <1>6, <2>1, <2>2, <2>3, <2>4
<1>7. ASSUME UNCHANGED <<pc, frame, err, final, trip, aborted, stale>> PROVE VerdictInv'
  BY <1>7 DEF VerdictInv
<1>8. ASSUME NEW u \in Users, InitialPurchase(u) \/ Expiration(u) PROVE VerdictInv'
  BY <1>7, <1>8 DEF InitialPurchase, Expiration, jobVars, ctlVars, rowVars
<1>9. CASE ResetMonthlyAiTripCounters \/ UNCHANGED vars
  BY <1>7, <1>9 DEF ResetMonthlyAiTripCounters, vars, jobVars, ctlVars, rowVars
<1>10. CASE Restart
  <2> SUFFICES ASSUME NEW j \in Jobs PROVE Verdict(j)'
    BY <1>00
  <2>1. /\ pc'[j] = "lost" \/ (pc'[j] = pc[j] /\ pc[j] \notin Awaits)
        /\ err'[j] = "none" /\ UNCHANGED <<trip, aborted, stale>>
    BY <1>10 DEF Restart, Suspended, rowVars
  <2> QED
    BY <1>0, <2>1 DEF Awaits
<1>11. ASSUME NEW s \in Savers, Saver(s) PROVE VerdictInv'
  <2>0. /\ UNCHANGED <<pc, frame, err, final, aborted>>
        /\ UNCHANGED <<trip, itin, refunded, stale>> \/ \E j \in Jobs : Overwritten(j)
    BY <1>t, <1>11, SaverStep DEF FlowInv, jobVars, ctlVars
  <2>1. CASE UNCHANGED <<trip, itin, refunded, stale>>
    BY <1>7, <2>0, <2>1
  <2>2. ASSUME NEW j \in Jobs, Overwritten(j) PROVE VerdictInv'
    BY <1>0, <1>1, <2>0, <2>2 DEF Overwritten
  <2> QED
    BY <2>0, <2>1, <2>2
<1> QED
  BY <1>2, <1>3, <1>4, <1>5, <1>6, <1>8, <1>9, <1>10, <1>11 DEF Next, Run, Quiescent, Saver

\* While the database answers, a request has its verdict, and its unit back unless it
\* has delivered, before it ends.
THEOREM SettleInductive == ASSUME ~DbMayFail PROVE Spec => []SettleInv
<1>1. Init => SettleInv
  BY DEF Init, SettleInv, RefundInv, RefundFirst, VerdictInv, Settled, Spent
<1>2. IInv /\ SettleInv /\ [Next]_vars => SettleInv'
  BY RefundStep, VerdictStep DEF SettleInv
<1> QED
  BY <1>1, <1>2, Inductive, PTL DEF Spec

\* No quota unit stays spent on a trip that got no AI itineraries, for any number of
\* requests, cancellations, deletions, resets, restarts and savers, unless a save put
\* that trip back.
THEOREM NoChargeKept == ASSUME ~DbMayFail PROVE Spec => []NoChargeForFailure
<1>1. SettleInv => NoChargeForFailure
  BY DEF SettleInv, RefundInv, RefundFirst, NoChargeForFailure, Spent
<1> QED
  BY <1>1, SettleInductive, PTL

\* A request that is not cancelled leaves no trip in 'generating' behind that no save
\* has put back.
THEOREM UncancelledSettle == ASSUME ~DbMayFail PROVE Spec => []UncancelledTripSettles
<1>1. SettleInv => UncancelledTripSettles
  BY DEF SettleInv, VerdictInv, Settled, UncancelledTripSettles
<1> QED
  BY <1>1, SettleInductive, PTL
=============================================================================
