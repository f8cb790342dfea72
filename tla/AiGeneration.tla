---------------------------- MODULE AiGeneration ----------------------------
(***************************************************************************)
(* How the plan of a trip is asked from OpenAI                             *)
(* (backend/src/trips/services/ai.service.ts) and the circuit breaker and  *)
(* retries every call goes through (common/utils/resilience.ts).  A short  *)
(* trip is one call, with a call per day as its fallback; a longer one is  *)
(* asked day by day, in batches.  All requests of the process share the    *)
(* breaker.  A step is what runs between two awaits, so the calls of a     *)
(* batch pass the breaker together.                                        *)
(***************************************************************************)
EXTENDS Integers

CONSTANTS
  Requests,     \* callers of generateAllItineraries, each again and again
  MaxDays,      \* bound: days of a trip
  FullMax,      \* 7: the longest trip that is asked in one call
  BatchSize,    \* BATCH_SIZE
  MaxRetries,   \* maxRetries of withRetry
  Threshold,    \* failureThreshold
  ResetTimeout, \* resetTimeoutMs
  MaxFaults, MaxCancels   \* bounds

ASSUME BoundsAssumption ==
  /\ MaxDays \in Nat \ {0} /\ FullMax \in Nat /\ BatchSize \in Nat \ {0}
  /\ MaxRetries \in Nat /\ Threshold \in Nat \ {0} /\ ResetTimeout \in Nat
  /\ MaxFaults \in Nat /\ MaxCancels \in Nat

VARIABLES
  state, failureCount,   \* of the CircuitBreaker
  since,                 \* the time since lastFailureTime, up to resetTimeoutMs
  pc,        \* how far a request is
  days,      \* totalDays of its trip
  day,       \* what became of each day: no result yet, activities, none
  next,      \* the last day of the batches that were started
  left,      \* the attempts a call still has; 0: not under way
  aborted,   \* signal.aborted
  faults, cancels

breaker == <<state, failureCount, since>>
trip    == <<days, aborted>>
counts  == <<faults, cancels>>
vars    == <<breaker, pc, day, next, left, trip, counts>>

\* Unit 0 is the whole trip, unit d > 0 is day d.
Days  == 1..MaxDays
Units == 0..MaxDays

Calls(r) == {u \in Units : left[r][u] > 0}
Fault == faults < MaxFaults /\ faults' = faults + 1 /\ UNCHANGED cancels

Init ==
  /\ state = "CLOSED" /\ failureCount = 0 /\ since = ResetTimeout
  /\ pc = [r \in Requests |-> "idle"]
  /\ days = [r \in Requests |-> 1]
  /\ day = [r \in Requests |-> [d \in Days |-> "none"]]
  /\ next = [r \in Requests |-> 0]
  /\ left = [r \in Requests |-> [u \in Units |-> 0]]
  /\ aborted = [r \in Requests |-> FALSE]
  /\ faults = 0 /\ cancels = 0
-----------------------------------------------------------------------------
\* CircuitBreaker.run, before and after the call.

Passes == state # "OPEN" \/ since >= ResetTimeout

Enter ==
  /\ Passes
  /\ state' = IF state = "OPEN" THEN "HALF_OPEN" ELSE state
  /\ UNCHANGED <<failureCount, since>>

\* Slip: only a probe closes the circuit.
OnSuccessOfProbe ==
  /\ state' = IF state = "HALF_OPEN" THEN "CLOSED" ELSE state
  /\ failureCount' = 0
  /\ UNCHANGED since

\* Whatever the state: a call from before the outage closes the circuit too.
OnSuccess == state' = "CLOSED" /\ failureCount' = 0 /\ UNCHANGED since

OnFailure ==
  /\ failureCount' = failureCount + 1
  /\ since' = 0
  /\ state' = IF failureCount + 1 >= Threshold THEN "OPEN" ELSE state
-----------------------------------------------------------------------------
\* A request.

\* generateAllItineraries asks for recommendations first.
Begin(r) ==
  /\ pc[r] \in {"idle", "delivered", "thrown"}
  /\ pc' = [pc EXCEPT ![r] = "asking"]
  /\ \E n \in Days : days' = [days EXCEPT ![r] = n]
  /\ day' = [day EXCEPT ![r] = [d \in Days |-> "none"]]
  /\ next' = [next EXCEPT ![r] = 0]
  /\ aborted' = [aborted EXCEPT ![r] = FALSE]
  /\ UNCHANGED <<breaker, left, counts>>

\* The catch clause of generateFullTripItinerary.
AfterFull(r) == pc' = [pc EXCEPT ![r] = IF aborted[r] THEN "thrown" ELSE "parallel"]

RunFull(r) ==
  /\ pc[r] = "asking" /\ days[r] <= FullMax
  /\ \/ /\ Enter
        /\ left' = [left EXCEPT ![r][0] = MaxRetries + 1]
        /\ pc' = [pc EXCEPT ![r] = "full"]
     \/ /\ ~Passes /\ AfterFull(r)
        /\ UNCHANGED <<breaker, left>>
  /\ UNCHANGED <<day, next, trip, counts>>

BatchReady(r) ==
  /\ pc[r] = "parallel" \/ (pc[r] = "asking" /\ days[r] > FullMax)
  /\ next[r] < days[r] /\ Calls(r) = {}

BatchEnd(r) == IF next[r] + BatchSize < days[r] THEN next[r] + BatchSize ELSE days[r]
Batch(r) == (next[r] + 1)..BatchEnd(r)

\* Slip: a run that is refused counts as a failure of the provider.
RunBatchRefusalsCount(r) ==
  /\ BatchReady(r)
  /\ pc' = [pc EXCEPT ![r] = "parallel"]
  /\ next' = [next EXCEPT ![r] = BatchEnd(r)]
  /\ \/ /\ Enter
        /\ left' = [left EXCEPT ![r] =
                      [u \in Units |-> IF u \in Batch(r) THEN MaxRetries + 1 ELSE 0]]
        /\ UNCHANGED day
     \/ /\ ~Passes
        /\ since' = 0 /\ UNCHANGED <<state, failureCount>>
        /\ day' = [day EXCEPT ![r] = [d \in Days |-> IF d \in Batch(r) THEN "empty" ELSE @[d]]]
        /\ UNCHANGED left
  /\ UNCHANGED <<trip, counts>>

\* generateDailyItinerary for the days of the next batch; one that the breaker
\* refuses has no activities.  The signal is not looked at.
RunBatch(r) ==
  /\ BatchReady(r)
  /\ pc' = [pc EXCEPT ![r] = "parallel"]
  /\ next' = [next EXCEPT ![r] = BatchEnd(r)]
  /\ \/ /\ Enter
        /\ left' = [left EXCEPT ![r] =
                      [u \in Units |-> IF u \in Batch(r) THEN MaxRetries + 1 ELSE 0]]
        /\ UNCHANGED day
     \/ /\ ~Passes
        /\ day' = [day EXCEPT ![r] = [d \in Days |-> IF d \in Batch(r) THEN "empty" ELSE @[d]]]
        /\ UNCHANGED <<breaker, left>>
  /\ UNCHANGED <<trip, counts>>

Planned(r) == {d \in Days : day[r][d] = "planned"}

\* Slip: the first day with activities ends it.
EndAtFirst(r) ==
  /\ pc[r] = "parallel" /\ next[r] = days[r] /\ (Calls(r) = {} \/ Planned(r) # {})
  /\ pc' = [pc EXCEPT ![r] = IF Planned(r) = {} THEN "thrown" ELSE "delivered"]
  /\ UNCHANGED <<breaker, day, next, left, trip, counts>>

\* The last batch is over.  Only a trip without any day with activities fails.
EndParallel(r) ==
  /\ pc[r] = "parallel" /\ next[r] = days[r] /\ Calls(r) = {}
  /\ pc' = [pc EXCEPT ![r] = IF Planned(r) = {} THEN "thrown" ELSE "delivered"]
  /\ UNCHANGED <<breaker, day, next, left, trip, counts>>
-----------------------------------------------------------------------------
\* A call: streamCompletion under withRetry under the breaker.

\* Slip: an attempt that was aborted is not counted.
AttemptFailsUncounted(r, u) ==
  /\ left[r][u] > 0
  /\ IF aborted[r] THEN UNCHANGED counts ELSE Fault
  /\ left' = [left EXCEPT ![r][u] = IF aborted[r] THEN @ ELSE @ - 1]
  /\ IF left[r][u] > 1 \/ aborted[r]
       THEN UNCHANGED <<breaker, pc, day>>
       ELSE /\ OnFailure
            /\ IF u = 0 THEN AfterFull(r) /\ UNCHANGED day
                        ELSE day' = [day EXCEPT ![r][u] = "empty"] /\ UNCHANGED pc
  /\ UNCHANGED <<next, trip>>

\* The attempt fails, or ends after 90 seconds; one whose signal is aborted can
\* only fail.  The breaker hears of the last attempt, aborted or not.
AttemptFails(r, u) ==
  /\ left[r][u] > 0
  /\ IF aborted[r] THEN UNCHANGED counts ELSE Fault
  /\ left' = [left EXCEPT ![r][u] = @ - 1]
  /\ IF left[r][u] > 1
       THEN UNCHANGED <<breaker, pc, day>>
       ELSE /\ OnFailure
            /\ IF u = 0 THEN AfterFull(r) /\ UNCHANGED day
                        ELSE day' = [day EXCEPT ![r][u] = "empty"] /\ UNCHANGED pc
  /\ UNCHANGED <<next, trip>>

\* The answer for the whole trip has activities for some of the days, or for
\* none, or is not JSON.
FullAnswer(r) ==
  /\ left[r][0] > 0 /\ ~aborted[r]
  /\ OnSuccess
  /\ left' = [left EXCEPT ![r][0] = 0]
  /\ \/ /\ \E S \in SUBSET (1..days[r]) :
             day' = [day EXCEPT ![r] =
                       [d \in Days |-> IF d \in S THEN "planned"
                                       ELSE IF d <= days[r] THEN "empty" ELSE "none"]]
        /\ pc' = [pc EXCEPT ![r] = "delivered"]
     \/ /\ AfterFull(r) /\ UNCHANGED day
  /\ UNCHANGED <<next, trip, counts>>

DayAnswer(r, d) ==
  /\ left[r][d] > 0 /\ ~aborted[r]
  /\ OnSuccess
  /\ left' = [left EXCEPT ![r][d] = 0]
  /\ \E result \in {"planned", "empty"} : day' = [day EXCEPT ![r][d] = result]
  /\ UNCHANGED <<pc, next, trip, counts>>

\* The user cancels the creation.
Cancel(r) ==
  /\ pc[r] \in {"asking", "full", "parallel"} /\ ~aborted[r]
  /\ cancels < MaxCancels /\ cancels' = cancels + 1
  /\ aborted' = [aborted EXCEPT ![r] = TRUE]
  /\ UNCHANGED <<breaker, pc, day, next, left, days, faults>>

TimePasses ==
  /\ since < ResetTimeout
  /\ since' = since + 1
  /\ UNCHANGED <<state, failureCount, pc, day, next, left, trip, counts>>
-----------------------------------------------------------------------------
Work(r) == RunFull(r) \/ RunBatch(r) \/ EndParallel(r)

Attempt(r, u) ==
  \/ AttemptFails(r, u)
  \/ u = 0 /\ FullAnswer(r)
  \/ u # 0 /\ DayAnswer(r, u)

Next ==
  \/ \E r \in Requests : Begin(r) \/ Work(r) \/ Cancel(r) \/ \E u \in Units : Attempt(r, u)
  \/ TimePasses

Spec == Init /\ [][Next]_vars

\* A request goes on: its calls end (each attempt is stopped after 90 seconds) and
\* the event loop runs what waits for them.  Time passes.
Fairness ==
  /\ \A r \in Requests : WF_vars(Work(r) \/ \E u \in Units : Attempt(r, u))
  /\ WF_vars(TimePasses)

\* Somebody asks for a trip again and again.
LiveSpec == Spec /\ Fairness /\ \A r \in Requests : WF_vars(Begin(r))
-----------------------------------------------------------------------------
\* The types.
TypeOK ==
  /\ state \in {"CLOSED", "OPEN", "HALF_OPEN"} /\ failureCount \in Nat /\ since \in 0..ResetTimeout
  /\ pc \in [Requests -> {"idle", "asking", "full", "parallel", "delivered", "thrown"}]
  /\ days \in [Requests -> Days]
  /\ day \in [Requests -> [Days -> {"none", "planned", "empty"}]]
  /\ next \in [Requests -> 0..MaxDays]
  /\ left \in [Requests -> [Units -> 0..(MaxRetries + 1)]]
  /\ aborted \in [Requests -> BOOLEAN]
  /\ faults \in Nat /\ cancels \in Nat

\* The state of the circuit and its count tell the same, whichever calls of
\* before, during and after an outage end in whichever order: a circuit that is
\* open or half open has its failures still on the count, so that one failed
\* probe opens it again.
CircuitHonest == state = "CLOSED" <=> failureCount < Threshold

\* A plan is handed over whole: a result for every day of the trip, and no call
\* that could still change it, or the circuit, behind its back.
PlanIsWhole ==
  \A r \in Requests : pc[r] = "delivered" =>
    Calls(r) = {} /\ \A d \in 1..days[r] : day[r][d] # "none"

\* Partial success is preserved: what is thrown away had no day with activities.
WorkIsKept == \A r \in Requests : pc[r] = "thrown" => Planned(r) = {}

\* Every generation ends, whatever fails and whenever the user cancels.
GenerationEnds ==
  \A r \in Requests : []<>(pc[r] \in {"idle", "delivered", "thrown"})

\* Once the provider works again, the circuit closes and stays closed, provided
\* that somebody asks: requests that are refused do not keep it open.
CircuitRecovers == <>[](state = "CLOSED")
-----------------------------------------------------------------------------
\* What comments promise and the code does not keep.

\* The calls that pass the breaker in a step.
Entering == {c \in Requests \X Units : left[c[1]][c[2]] = 0 /\ left'[c[1]][c[2]] > 0}

\* HALF_OPEN allows one probe through (resilience.ts:71).
OneProbe ==
  [][/\ state = "HALF_OPEN" => Entering = {}
     /\ state = "OPEN" => \A c, e \in Entering : c = e]_vars

\* A total failure is never passed off as a plan (ai.service.ts:831).
FailureIsTold == \A r \in Requests : pc[r] = "delivered" => Planned(r) # {}
=============================================================================
