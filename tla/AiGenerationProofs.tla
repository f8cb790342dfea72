------------------------- MODULE AiGenerationProofs -------------------------
(***************************************************************************)
(* Proofs about AiGeneration, for any requests, lengths of trips, batches, *)
(* retries, thresholds and faults: the circuit keeps its count, a plan is  *)
(* whole when it is handed over, and what was planned is not thrown away.  *)
(***************************************************************************)
EXTENDS AiGeneration, TLAPS

\* A request at each of its awaits.
Flow(r) ==
  /\ left[r][0] > 0 => pc[r] = "full"
  /\ \A d \in Days : left[r][d] > 0 => pc[r] = "parallel"
  /\ next[r] <= days[r]
  /\ pc[r] \in {"asking", "full"} => next[r] = 0 /\ \A d \in Days : day[r][d] = "none"
  /\ pc[r] = "parallel" =>
       \A d \in Days : d <= next[r] => day[r][d] # "none" \/ left[r][d] > 0
  /\ pc[r] = "thrown" => \A d \in Days : day[r][d] # "planned"
  /\ pc[r] = "delivered" => \A d \in Days : d <= days[r] => day[r][d] # "none"

IInv == TypeOK /\ CircuitHonest /\ \A r \in Requests : Flow(r)

\* A step of one request, which leaves the others as they are.
Alone(r) ==
  \A q \in Requests \ {r} :
    /\ pc'[q] = pc[q] /\ days'[q] = days[q] /\ day'[q] = day[q]
    /\ next'[q] = next[q] /\ left'[q] = left[q]

\* One request moves, and keeps to its flow.
LEMMA FlowKept ==
  ASSUME \A q \in Requests : Flow(q), NEW r \in Requests, Alone(r), Flow(r)'
  PROVE  \A q \in Requests : Flow(q)'
BY DEF Flow, Alone

\* The breaker lets a call pass, or hears of its end.
LEMMA EnterHonest ==
  ASSUME TypeOK, CircuitHonest, Enter
  PROVE  CircuitHonest' /\ state' \in {"CLOSED", "OPEN", "HALF_OPEN"}
         /\ failureCount' \in Nat /\ since' \in 0..ResetTimeout
BY DEF TypeOK, CircuitHonest, Enter

LEMMA SuccessHonest ==
  ASSUME TypeOK, CircuitHonest, OnSuccess
  PROVE  CircuitHonest' /\ state' \in {"CLOSED", "OPEN", "HALF_OPEN"}
         /\ failureCount' \in Nat /\ since' \in 0..ResetTimeout
BY BoundsAssumption DEF TypeOK, CircuitHonest, OnSuccess

LEMMA FailureHonest ==
  ASSUME TypeOK, CircuitHonest, OnFailure
  PROVE  CircuitHonest' /\ state' \in {"CLOSED", "OPEN", "HALF_OPEN"}
         /\ failureCount' \in Nat /\ since' \in 0..ResetTimeout
BY BoundsAssumption DEF TypeOK, CircuitHonest, OnFailure

LEMMA BreakerRests ==
  ASSUME TypeOK, CircuitHonest, UNCHANGED breaker
  PROVE  CircuitHonest' /\ state' \in {"CLOSED", "OPEN", "HALF_OPEN"}
         /\ failureCount' \in Nat /\ since' \in 0..ResetTimeout
BY DEF TypeOK, CircuitHonest, breaker

\* Initially nothing is under way and the circuit is closed.
LEMMA InitHolds == Init => IInv
<1> SUFFICES ASSUME Init PROVE IInv
  OBVIOUS
<1>a. 1 \in Days /\ 0 \in 0..MaxDays /\ 0 \in 0..(MaxRetries + 1)
      /\ ResetTimeout \in 0..ResetTimeout
  BY BoundsAssumption DEF Days
<1>1. TypeOK
  BY <1>a DEF Init, TypeOK
<1>2. CircuitHonest
  BY BoundsAssumption DEF Init, CircuitHonest
<1>b. Days \subseteq Units /\ 0 \in Units
  BY BoundsAssumption DEF Days, Units
<1>3. ASSUME NEW r \in Requests PROVE Flow(r)
  <2>1. /\ pc[r] = "idle" /\ next[r] = 0 /\ days[r] = 1
        /\ left[r][0] = 0 /\ \A d \in Days : left[r][d] = 0
    BY <1>b DEF Init
  <2> QED BY <2>1 DEF Flow
<1> QED BY <1>1, <1>2, <1>3 DEF IInv
-----------------------------------------------------------------------------
LEMMA BeginKeeps ==
  ASSUME IInv, NEW r \in Requests, Begin(r)
  PROVE  IInv'
<1>1. TypeOK /\ CircuitHonest /\ (\A q \in Requests : Flow(q)) /\ Flow(r)
  BY DEF IInv
<1>a. 0 \in 0..MaxDays
  BY BoundsAssumption
<1>b. PICK n \in Days : days' = [days EXCEPT ![r] = n]
  BY DEF Begin
<1>c. /\ days' \in [Requests -> Days] /\ days'[r] \in Days
      /\ pc' \in [Requests -> {"idle", "asking", "full", "parallel", "delivered", "thrown"}]
      /\ day' \in [Requests -> [Days -> {"none", "planned", "empty"}]]
      /\ next' \in [Requests -> 0..MaxDays] /\ aborted' \in [Requests -> BOOLEAN]
  BY <1>1, <1>a, <1>b DEF TypeOK, Begin
<1>2. TypeOK'
  BY <1>1, <1>c DEF TypeOK, Begin, breaker, counts
<1>3. CircuitHonest'
  BY <1>1, BreakerRests DEF Begin
<1>4. /\ pc'[r] = "asking" /\ next'[r] = 0 /\ left'[r] = left[r] /\ days'[r] \in Days
      /\ \A d \in Days : day'[r][d] = "none"
  BY <1>1, <1>c DEF TypeOK, Begin
<1>5. left[r][0] \in Nat /\ \A d \in Days : left[r][d] \in Nat
  BY <1>1, BoundsAssumption DEF TypeOK, Units, Days
<1>6. Flow(r)'
  BY <1>1, <1>4, <1>5 DEF Flow, Begin, Days
<1>7. Alone(r)
  BY <1>1, <1>b DEF TypeOK, Begin, Alone
<1> QED BY <1>1, <1>2, <1>3, <1>6, <1>7, FlowKept DEF IInv

LEMMA RunFullKeeps ==
  ASSUME IInv, NEW r \in Requests, RunFull(r)
  PROVE  IInv'
<1>1. TypeOK /\ CircuitHonest /\ (\A q \in Requests : Flow(q)) /\ Flow(r)
  BY DEF IInv
<1>2. CASE /\ Enter
           /\ left' = [left EXCEPT ![r][0] = MaxRetries + 1]
           /\ pc' = [pc EXCEPT ![r] = "full"]
  <2>1. 0 \in Units /\ MaxRetries + 1 \in 0..(MaxRetries + 1)
    BY BoundsAssumption DEF Units
  <2>2. left' \in [Requests -> [Units -> 0..(MaxRetries + 1)]]
    BY <1>1, <1>2, <2>1 DEF TypeOK
  <2>3. TypeOK'
    BY <1>1, <1>2, <2>2, EnterHonest DEF TypeOK, RunFull, trip, counts
  <2>4. \A d \in Days : left'[r][d] = left[r][d]
    BY <1>1, <1>2 DEF TypeOK, Days, Units
  <2>5. pc'[r] = "full" /\ UNCHANGED <<next, day, days>>
    BY <1>1, <1>2 DEF TypeOK, RunFull, trip
  <2>6. pc[r] = "asking"
    BY DEF RunFull
  <2>7. Flow(r)'
    BY <1>1, <2>4, <2>5, <2>6 DEF Flow
  <2>8. Alone(r)
    BY <1>1, <1>2, <2>5 DEF TypeOK, Alone
  <2> QED BY <1>1, <1>2, <2>3, <2>7, <2>8, FlowKept, EnterHonest DEF IInv
<1>3. CASE AfterFull(r) /\ UNCHANGED <<breaker, left>>
  <2>1. /\ pc' \in [Requests -> {"idle", "asking", "full", "parallel", "delivered", "thrown"}]
        /\ pc'[r] \in {"thrown", "parallel"}
    BY <1>1, <1>3 DEF TypeOK, AfterFull
  <2>2. TypeOK'
    BY <1>1, <1>3, <2>1 DEF TypeOK, RunFull, trip, counts, breaker
  <2>3. UNCHANGED <<next, day, days, left>> /\ pc[r] = "asking"
    BY <1>3 DEF RunFull, trip
  <2>4. Flow(r)'
    BY <1>1, <2>1, <2>3 DEF Flow, Days
  <2>5. Alone(r)
    BY <1>1, <1>3, <2>3 DEF TypeOK, Alone, AfterFull
  <2> QED BY <1>1, <1>3, <2>2, <2>4, <2>5, FlowKept, BreakerRests DEF IInv
<1> QED BY <1>2, <1>3 DEF RunFull

LEMMA RunBatchKeeps ==
  ASSUME IInv, NEW r \in Requests, RunBatch(r)
  PROVE  IInv'
<1>1. TypeOK /\ CircuitHonest /\ (\A q \in Requests : Flow(q)) /\ Flow(r)
  BY DEF IInv
<1>2. days[r] \in Days /\ next[r] \in 0..MaxDays /\ days[r] \in Nat /\ next[r] \in Nat
  BY <1>1, BoundsAssumption DEF TypeOK, Days
<1>3. BatchEnd(r) \in 0..MaxDays /\ BatchEnd(r) <= days[r] /\ next[r] < BatchEnd(r)
  BY <1>2, BoundsAssumption DEF BatchEnd, RunBatch, BatchReady, Days
<1>4. /\ next' \in [Requests -> 0..MaxDays] /\ next'[r] = BatchEnd(r)
      /\ pc' \in [Requests -> {"idle", "asking", "full", "parallel", "delivered", "thrown"}]
      /\ pc'[r] = "parallel" /\ UNCHANGED <<days, aborted, faults, cancels>>
  BY <1>1, <1>3 DEF TypeOK, RunBatch, trip, counts
<1>5. \A d \in Days : d <= next'[r] => d \in Batch(r) \/ d <= next[r]
  BY <1>2, <1>3, <1>4 DEF Batch, Days
<1>6. \A u \in Units : ~(left[r][u] > 0)
  BY DEF RunBatch, BatchReady, Calls
<1>7. \A d \in Days : d <= next[r] => day[r][d] # "none"
  <2>1. CASE pc[r] = "parallel"
    BY <1>1, <1>6, <2>1 DEF Flow, Days, Units
  <2>2. CASE pc[r] = "asking"
    BY <1>1, <1>2, <2>2 DEF Flow, Days
  <2> QED BY <2>1, <2>2 DEF RunBatch, BatchReady
<1>8. CASE /\ Enter
           /\ left' = [left EXCEPT ![r] =
                         [u \in Units |-> IF u \in Batch(r) THEN MaxRetries + 1 ELSE 0]]
           /\ UNCHANGED day
  <2>1. MaxRetries + 1 \in 0..(MaxRetries + 1) /\ 0 \in 0..(MaxRetries + 1)
    BY BoundsAssumption
  <2>2. /\ left' \in [Requests -> [Units -> 0..(MaxRetries + 1)]]
        /\ \A u \in Units : left'[r][u] = IF u \in Batch(r) THEN MaxRetries + 1 ELSE 0
    BY <1>1, <1>8, <2>1 DEF TypeOK
  <2>3. TypeOK'
    BY <1>1, <1>4, <1>8, <2>2, EnterHonest DEF TypeOK
  <2>4. 0 \in Units /\ 0 \notin Batch(r) /\ Days \subseteq Units
    BY <1>2, BoundsAssumption DEF Batch, Units, Days
  <2>5. left'[r][0] = 0 /\ \A d \in Batch(r) \cap Days : left'[r][d] > 0
    BY <2>2, <2>4, BoundsAssumption
  <2>6. Flow(r)'
    BY <1>3, <1>4, <1>5, <1>7, <1>8, <2>5 DEF Flow
  <2>7. Alone(r)
    BY <1>1, <1>4, <1>8 DEF TypeOK, Alone, RunBatch
  <2> QED BY <1>1, <1>8, <2>3, <2>6, <2>7, FlowKept, EnterHonest DEF IInv
<1>9. CASE /\ day' = [day EXCEPT ![r] =
                        [d \in Days |-> IF d \in Batch(r) THEN "empty" ELSE @[d]]]
           /\ UNCHANGED <<breaker, left>>
  <2>1. /\ day' \in [Requests -> [Days -> {"none", "planned", "empty"}]]
        /\ \A d \in Days : day'[r][d] = IF d \in Batch(r) THEN "empty" ELSE day[r][d]
    BY <1>1, <1>9 DEF TypeOK
  <2>2. TypeOK'
    BY <1>1, <1>4, <1>9, <2>1 DEF TypeOK, breaker
  <2>3. 0 \in Units /\ Days \subseteq Units
    BY BoundsAssumption DEF Units, Days
  <2>4. Flow(r)'
    BY <1>3, <1>4, <1>5, <1>6, <1>7, <1>9, <2>1, <2>3 DEF Flow
  <2>5. Alone(r)
    BY <1>1, <1>4, <1>9 DEF TypeOK, Alone, RunBatch
  <2> QED BY <1>1, <1>9, <2>2, <2>4, <2>5, FlowKept, BreakerRests DEF IInv
<1> QED BY <1>8, <1>9 DEF RunBatch

LEMMA EndParallelKeeps ==
  ASSUME IInv, NEW r \in Requests, EndParallel(r)
  PROVE  IInv'
<1>1. TypeOK /\ CircuitHonest /\ (\A q \in Requests : Flow(q)) /\ Flow(r)
  BY DEF IInv
<1>2. UNCHANGED <<breaker, day, next, left, days, aborted, faults, cancels>>
  BY DEF EndParallel, trip, counts
<1>3. /\ pc' \in [Requests -> {"idle", "asking", "full", "parallel", "delivered", "thrown"}]
      /\ pc'[r] = IF Planned(r) = {} THEN "thrown" ELSE "delivered"
  BY <1>1 DEF TypeOK, EndParallel
<1>4. TypeOK'
  BY <1>1, <1>2, <1>3 DEF TypeOK, breaker
<1>5. 0 \in Units /\ Days \subseteq Units
  BY BoundsAssumption DEF Units, Days
<1>6. \A u \in Units : ~(left[r][u] > 0)
  BY DEF EndParallel, Calls
<1>7. \A d \in Days : d <= days[r] => day[r][d] # "none"
  BY <1>1, <1>5, <1>6 DEF Flow, EndParallel
<1>8. Planned(r) = {} => \A d \in Days : day[r][d] # "planned"
  BY DEF Planned
<1>9. Flow(r)'
  BY <1>1, <1>2, <1>3, <1>5, <1>6, <1>7, <1>8 DEF Flow
<1>10. Alone(r)
  BY <1>1, <1>2 DEF TypeOK, Alone, EndParallel
<1> QED BY <1>1, <1>2, <1>4, <1>9, <1>10, FlowKept, BreakerRests DEF IInv

\* An attempt less, and one that was the last ends its call.
LEMMA AttemptFailsKeeps ==
  ASSUME IInv, NEW r \in Requests, NEW u \in Units, AttemptFails(r, u)
  PROVE  IInv'
<1>1. TypeOK /\ CircuitHonest /\ (\A q \in Requests : Flow(q)) /\ Flow(r)
  BY DEF IInv
<1>2. left[r][u] \in 1..(MaxRetries + 1)
  BY <1>1, BoundsAssumption DEF TypeOK, AttemptFails
<1>3. /\ left' \in [Requests -> [Units -> 0..(MaxRetries + 1)]]
      /\ left'[r][u] = left[r][u] - 1
      /\ \A w \in Units \ {u} : left'[r][w] = left[r][w]
      /\ \A q \in Requests \ {r} : left'[q] = left[q]
  BY <1>1, <1>2, BoundsAssumption DEF TypeOK, AttemptFails
<1>4. UNCHANGED <<next, days, aborted>> /\ faults' \in Nat /\ cancels' \in Nat
  BY <1>1 DEF TypeOK, AttemptFails, trip, counts, Fault
<1>5. 0 \in Units /\ Days \subseteq Units /\ 0 \notin Days
  BY BoundsAssumption DEF Units, Days
<1>6. CASE left[r][u] > 1 /\ UNCHANGED <<breaker, pc, day>>
  <2>1. TypeOK'
    BY <1>1, <1>3, <1>4, <1>6 DEF TypeOK, breaker
  <2>2. left'[r][u] > 0
    BY <1>2, <1>3, <1>6, BoundsAssumption
  <2>3. \A w \in Units : left'[r][w] > 0 <=> left[r][w] > 0
    BY <1>2, <1>3, <2>2, BoundsAssumption
  <2>4. Flow(r)'
    BY <1>1, <1>4, <1>5, <1>6, <2>3 DEF Flow
  <2>5. Alone(r)
    BY <1>3, <1>4, <1>6 DEF Alone
  <2> QED BY <1>1, <1>6, <2>1, <2>4, <2>5, FlowKept, BreakerRests DEF IInv
<1>7. CASE u = 0 /\ OnFailure /\ AfterFull(r) /\ UNCHANGED day
  <2>1. /\ pc' \in [Requests -> {"idle", "asking", "full", "parallel", "delivered", "thrown"}]
        /\ pc'[r] \in {"thrown", "parallel"}
    BY <1>1, <1>7 DEF TypeOK, AfterFull
  <2>2. TypeOK'
    BY <1>1, <1>3, <1>4, <1>7, <2>1, FailureHonest DEF TypeOK
  <2>3. pc[r] = "full"
    BY <1>1, <1>2, <1>7 DEF Flow
  <2>4. \A d \in Days : left'[r][d] = left[r][d]
    BY <1>3, <1>5, <1>7
  <2>5. ~(left'[r][0] > 0)
    <3>1. CASE left[r][u] > 1
      BY <1>7, <3>1 DEF AttemptFails, breaker, OnFailure, TypeOK, IInv
    <3>2. CASE left[r][u] = 1
      BY <1>3, <1>7, <3>2
    <3> QED BY <1>2, <3>1, <3>2, BoundsAssumption
  <2>6. Flow(r)'
    BY <1>1, <1>4, <1>7, <2>1, <2>3, <2>4, <2>5 DEF Flow, Days
  <2>7. Alone(r)
    BY <1>1, <1>3, <1>4, <1>7 DEF TypeOK, Alone, AfterFull
  <2> QED BY <1>1, <1>7, <2>2, <2>6, <2>7, FlowKept, FailureHonest DEF IInv
<1>8. CASE u # 0 /\ OnFailure /\ day' = [day EXCEPT ![r][u] = "empty"] /\ UNCHANGED pc
  <2>1. u \in Days
    BY <1>8 DEF Units, Days
  <2>2. /\ day' \in [Requests -> [Days -> {"none", "planned", "empty"}]]
        /\ day'[r][u] = "empty" /\ \A d \in Days \ {u} : day'[r][d] = day[r][d]
        /\ \A q \in Requests \ {r} : day'[q] = day[q]
    BY <1>1, <1>8, <2>1 DEF TypeOK
  <2>3. TypeOK'
    BY <1>1, <1>3, <1>4, <1>8, <2>2, FailureHonest DEF TypeOK
  <2>4. pc[r] = "parallel"
    BY <1>1, <1>2, <2>1 DEF Flow
  <2>5. Flow(r)'
    BY <1>1, <1>3, <1>4, <1>5, <1>8, <2>1, <2>2, <2>4 DEF Flow
  <2>6. Alone(r)
    BY <1>3, <1>4, <1>8, <2>2 DEF Alone
  <2> QED BY <1>1, <1>8, <2>3, <2>5, <2>6, FlowKept, FailureHonest DEF IInv
<1> QED BY <1>6, <1>7, <1>8 DEF AttemptFails

LEMMA FullAnswerKeeps ==
  ASSUME IInv, NEW r \in Requests, FullAnswer(r)
  PROVE  IInv'
<1>1. TypeOK /\ CircuitHonest /\ (\A q \in Requests : Flow(q)) /\ Flow(r)
  BY DEF IInv
<1>2. 0 \in Units /\ Days \subseteq Units /\ 0 \notin Days /\ 0 \in 0..(MaxRetries + 1)
  BY BoundsAssumption DEF Units, Days
<1>3. /\ left' \in [Requests -> [Units -> 0..(MaxRetries + 1)]]
      /\ left'[r][0] = 0 /\ \A d \in Days : left'[r][d] = left[r][d]
      /\ \A q \in Requests \ {r} : left'[q] = left[q]
  BY <1>1, <1>2 DEF TypeOK, FullAnswer
<1>4. UNCHANGED <<next, days, aborted, faults, cancels>> /\ OnSuccess /\ pc[r] = "full"
  BY <1>1 DEF FullAnswer, trip, counts, Flow
<1>5. \A d \in Days : ~(left[r][d] > 0)
  BY <1>1, <1>4 DEF Flow
<1>6. CASE /\ \E S \in SUBSET (1..days[r]) :
                day' = [day EXCEPT ![r] =
                          [d \in Days |-> IF d \in S THEN "planned"
                                          ELSE IF d <= days[r] THEN "empty" ELSE "none"]]
           /\ pc' = [pc EXCEPT ![r] = "delivered"]
  <2>1. /\ day' \in [Requests -> [Days -> {"none", "planned", "empty"}]]
        /\ \A d \in Days : d <= days[r] => day'[r][d] # "none"
        /\ \A q \in Requests \ {r} : day'[q] = day[q]
    BY <1>1, <1>6 DEF TypeOK
  <2>2. /\ pc' \in [Requests -> {"idle", "asking", "full", "parallel", "delivered", "thrown"}]
        /\ pc'[r] = "delivered" /\ \A q \in Requests \ {r} : pc'[q] = pc[q]
    BY <1>1, <1>6 DEF TypeOK
  <2>3. TypeOK'
    BY <1>1, <1>3, <1>4, <2>1, <2>2, SuccessHonest DEF TypeOK
  <2>4. Flow(r)'
    BY <1>1, <1>3, <1>4, <1>5, <2>1, <2>2 DEF Flow
  <2>5. Alone(r)
    BY <1>3, <1>4, <2>1, <2>2 DEF Alone
  <2> QED BY <1>1, <1>4, <2>3, <2>4, <2>5, FlowKept, SuccessHonest DEF IInv
<1>7. CASE AfterFull(r) /\ UNCHANGED day
  <2>1. /\ pc' \in [Requests -> {"idle", "asking", "full", "parallel", "delivered", "thrown"}]
        /\ pc'[r] \in {"thrown", "parallel"} /\ \A q \in Requests \ {r} : pc'[q] = pc[q]
    BY <1>1, <1>7 DEF TypeOK, AfterFull
  <2>2. TypeOK'
    BY <1>1, <1>3, <1>4, <1>7, <2>1, SuccessHonest DEF TypeOK
  <2>3. Flow(r)'
    BY <1>1, <1>3, <1>4, <1>5, <1>7, <2>1 DEF Flow, Days
  <2>4. Alone(r)
    BY <1>3, <1>4, <1>7, <2>1 DEF Alone
  <2> QED BY <1>1, <1>4, <2>2, <2>3, <2>4, FlowKept, SuccessHonest DEF IInv
<1> QED BY <1>6, <1>7 DEF FullAnswer

LEMMA DayAnswerKeeps ==
  ASSUME IInv, NEW r \in Requests, NEW u \in Units, u # 0, DayAnswer(r, u)
  PROVE  IInv'
<1>1. TypeOK /\ CircuitHonest /\ (\A q \in Requests : Flow(q)) /\ Flow(r)
  BY DEF IInv
<1>2. 0 \in Units /\ Days \subseteq Units /\ 0 \notin Days /\ 0 \in 0..(MaxRetries + 1)
      /\ u \in Days
  BY BoundsAssumption DEF Units, Days
<1>3. /\ left' \in [Requests -> [Units -> 0..(MaxRetries + 1)]]
      /\ left'[r][u] = 0 /\ \A w \in Units \ {u} : left'[r][w] = left[r][w]
      /\ \A q \in Requests \ {r} : left'[q] = left[q]
  BY <1>1, <1>2 DEF TypeOK, DayAnswer
<1>4. UNCHANGED <<pc, next, days, aborted, faults, cancels>> /\ OnSuccess
  BY DEF DayAnswer, trip, counts
<1>5. pc[r] = "parallel"
  BY <1>1, <1>2 DEF Flow, DayAnswer
<1>6. /\ day' \in [Requests -> [Days -> {"none", "planned", "empty"}]]
      /\ day'[r][u] # "none" /\ \A d \in Days \ {u} : day'[r][d] = day[r][d]
      /\ \A q \in Requests \ {r} : day'[q] = day[q]
  BY <1>1, <1>2 DEF TypeOK, DayAnswer
<1>7. TypeOK'
  BY <1>1, <1>3, <1>4, <1>6, SuccessHonest DEF TypeOK
<1>8. Flow(r)'
  BY <1>1, <1>2, <1>3, <1>4, <1>5, <1>6 DEF Flow
<1>9. Alone(r)
  BY <1>3, <1>4, <1>6 DEF Alone
<1> QED BY <1>1, <1>4, <1>7, <1>8, <1>9, FlowKept, SuccessHonest DEF IInv

\* A cancellation, and time, change nothing the invariant relates.
LEMMA RestKeeps ==
  ASSUME IInv, TimePasses \/ (\E r \in Requests : Cancel(r)) \/ UNCHANGED vars
  PROVE  IInv'
<1>1. TypeOK /\ CircuitHonest /\ (\A q \in Requests : Flow(q))
  BY DEF IInv
<1>2. UNCHANGED <<state, failureCount, pc, day, next, left, days>>
  BY DEF TimePasses, Cancel, vars, breaker, trip, counts
<1>3. since' \in 0..ResetTimeout
  BY <1>1, BoundsAssumption DEF TypeOK, TimePasses, Cancel, vars, breaker
<1>4. aborted' \in [Requests -> BOOLEAN] /\ faults' \in Nat /\ cancels' \in Nat
  <2>1. CASE TimePasses
    BY <1>1, <2>1 DEF TypeOK, TimePasses, trip, counts
  <2>2. ASSUME NEW r \in Requests, Cancel(r)
        PROVE  aborted' \in [Requests -> BOOLEAN] /\ faults' \in Nat /\ cancels' \in Nat
    <3>1. aborted' = [aborted EXCEPT ![r] = TRUE]
      BY <2>2 DEF Cancel
    <3>2. cancels' = cancels + 1 /\ faults' = faults
      BY <2>2 DEF Cancel
    <3> QED BY <1>1, <3>1, <3>2 DEF TypeOK
  <2>3. CASE UNCHANGED vars
    BY <1>1, <2>3 DEF TypeOK, vars, trip, counts
  <2> QED BY <2>1, <2>2, <2>3
<1>5. TypeOK'
  BY <1>1, <1>2, <1>3, <1>4 DEF TypeOK
<1>6. CircuitHonest' /\ \A q \in Requests : Flow(q)'
  BY <1>1, <1>2 DEF CircuitHonest, Flow
<1> QED BY <1>5, <1>6 DEF IInv
-----------------------------------------------------------------------------
\* Every step keeps the invariant: the types, the count of the breaker, and what
\* a request is like at each await.
THEOREM Inductive == IInv /\ [Next]_vars => IInv'
<1> SUFFICES ASSUME IInv, [Next]_vars PROVE IInv'
  OBVIOUS
<1>1. ASSUME NEW r \in Requests, Begin(r) \/ Work(r) \/ Cancel(r) PROVE IInv'
  BY <1>1, BeginKeeps, RunFullKeeps, RunBatchKeeps, EndParallelKeeps, RestKeeps DEF Work
<1>2. ASSUME NEW r \in Requests, NEW u \in Units, Attempt(r, u) PROVE IInv'
  BY <1>2, AttemptFailsKeeps, FullAnswerKeeps, DayAnswerKeeps DEF Attempt
<1>3. CASE TimePasses \/ UNCHANGED vars
  BY <1>3, RestKeeps
<1> QED BY <1>1, <1>2, <1>3 DEF Next

LEMMA InvariantHolds == Spec => []IInv
<1>1. Init => IInv
  BY InitHolds
<1>2. IInv /\ [Next]_vars => IInv'
  BY Inductive
<1> QED BY <1>1, <1>2, PTL DEF Spec

\* The variables of the breaker and of the requests keep their types.
THEOREM TypeCorrect == Spec => []TypeOK
<1>1. IInv => TypeOK
  BY DEF IInv
<1> QED BY <1>1, InvariantHolds, PTL

\* The state of the breaker and its count never disagree, however late the calls
\* of before an outage end.
THEOREM CircuitIsHonest == Spec => []CircuitHonest
<1>1. IInv => CircuitHonest
  BY DEF IInv
<1> QED BY <1>1, InvariantHolds, PTL

\* Promise.allSettled waits for every call: a plan has a result for each day.
THEOREM DeliveredWhole == Spec => []PlanIsWhole
<1>1. IInv => PlanIsWhole
  <2> SUFFICES ASSUME IInv, NEW r \in Requests, pc[r] = "delivered"
               PROVE  Calls(r) = {} /\ \A d \in 1..days[r] : day[r][d] # "none"
    BY DEF PlanIsWhole
  <2>1. Flow(r) /\ TypeOK
    BY DEF IInv
  <2>2. \A u \in Units : u = 0 \/ u \in Days
    BY DEF Units, Days
  <2>3. Calls(r) = {}
    BY <2>1, <2>2 DEF Flow, Calls
  <2>4. \A d \in 1..days[r] : d \in Days /\ d <= days[r]
    BY <2>1, BoundsAssumption DEF TypeOK, Days
  <2> QED BY <2>1, <2>3, <2>4 DEF Flow
<1> QED BY <1>1, InvariantHolds, PTL

\* Only a trip none of whose days was planned is thrown away.
THEOREM NothingWasted == Spec => []WorkIsKept
<1>1. IInv => WorkIsKept
  BY DEF IInv, Flow, WorkIsKept, Planned
<1> QED BY <1>1, InvariantHolds, PTL
=============================================================================
