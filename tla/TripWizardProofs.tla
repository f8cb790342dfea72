-------------------------- MODULE TripWizardProofs --------------------------
(***************************************************************************)
(* Proofs about TripWizard, for any finite set of attempts and any bounds: *)
(* the form comes back, creations overlap only after Cancel, and a         *)
(* cancelled creation does not take the user away.                         *)
(***************************************************************************)
EXTENDS TripWizard, FiniteSetTheorems, TLAPS

\* Whose controller is in the ref is still at work, before its finally clause.
CtrlInv ==
  ctrl # NoAttempt =>
    att[ctrl].pc \in {"posting", "waiting", "updating", "reporting", "recovering"}

\* The guards are set by an attempt that will release them.
GuardInv == mounted /\ (loading \/ creating) => Active # {}

\* The attempt took the user to a trip.
Away(a) == \E b \in Attempts : <<a, b>> \in shown

\* What an attempt is like at each of its awaits.
Flow(a) ==
  /\ att[a].ticking \/ att[a].fetching \/ att[a].open # 0 \/ att[a].answers # {}
       => att[a].pc = "waiting"
  /\ att[a].pc = "waiting" => job[a] \notin {"none", "asked"}
  /\ att[a].pc \in {"new", "posting", "waiting"} => att[a].how = "open"
  /\ att[a].pc = "updating" => att[a].how = "trip"
  /\ att[a].pc = "recovering" => att[a].how = "saved"
  /\ att[a].pc = "reporting" => att[a].how = "error"
  /\ att[a].pc = "leaving" => att[a].how = "saved"
  /\ Away(a) => att[a].how \in {"trip", "saved"} /\ att[a].pc = "done"
  /\ a \in early =>
       /\ att[a].aborted
       /\ \/ att[a].how \in {"cancelled", "error"}
          \/ /\ att[a].pc = "waiting" /\ ~att[a].fetching
             /\ att[a].open = 0 /\ att[a].answers = {}
FlowInv == \A a \in Attempts : Flow(a)

\* Beyond the attempt that holds the guard, each one under way was let in by Cancel.
One == IF creating THEN 1 ELSE 0
OverlapInv == Cardinality(Active) <= cancels + One

IInv == TypeOK /\ CtrlInv /\ GuardInv /\ FlowInv /\ OverlapInv
-----------------------------------------------------------------------------
\* The set of attempts under way, when one attempt moves.

LEMMA ActiveFinite == IsFiniteSet(Active) /\ Cardinality(Active) \in Nat
BY NamesAssumption, FS_Subset, FS_CardinalityType DEF Active

LEMMA ActiveGrows ==
  ASSUME NEW a \in Attempts, att[a].pc = "new", att'[a].pc = "posting",
         \A b \in Attempts \ {a} : att'[b] = att[b]
  PROVE  Cardinality(Active') = Cardinality(Active) + 1
<1>1. Active' = Active \cup {a} /\ a \notin Active
  BY DEF Active
<1> QED BY <1>1, ActiveFinite, FS_AddElement

LEMMA ActiveShrinks ==
  ASSUME NEW a \in Attempts, a \in Active, att'[a].pc = "done",
         \A b \in Attempts \ {a} : att'[b] = att[b]
  PROVE  Cardinality(Active') = Cardinality(Active) - 1
<1>1. Active' = Active \ {a}
  BY DEF Active
<1> QED BY <1>1, ActiveFinite, FS_RemoveElement

\* An attempt that stays under way.
LEMMA ActiveStays ==
  ASSUME NEW a \in Attempts, a \in Active, att'[a].pc \notin {"new", "done"},
         \A b \in Attempts \ {a} : att'[b] = att[b]
  PROVE  Active' = Active
BY DEF Active

\* A promise that settles changes its attempt only, and leaves nothing under way.
LEMMA SettledIs ==
  ASSUME TypeOK, NEW a \in Attempts,
         NEW how \in {"open", "trip", "saved", "cancelled", "error"},
         NEW pc \in {"new", "posting", "waiting", "updating", "reporting",
                     "recovering", "leaving", "done"}
  PROVE  /\ Settled(a, how, pc) \in [Attempts -> Record]
         /\ \A b \in Attempts \ {a} : Settled(a, how, pc)[b] = att[b]
         /\ Settled(a, how, pc)[a].how = how
         /\ Settled(a, how, pc)[a].pc = pc
         /\ ~Settled(a, how, pc)[a].ticking
         /\ ~Settled(a, how, pc)[a].fetching
         /\ Settled(a, how, pc)[a].open = 0
         /\ Settled(a, how, pc)[a].answers = {}
         /\ Settled(a, how, pc)[a].aborted = att[a].aborted
<1>1. att[a] \in Record /\ 0 \in 0..MaxOpen
  BY BoundsAssumption DEF TypeOK
<1> DEFINE r == [att[a] EXCEPT !.how = how, !.pc = pc, !.ticking = FALSE,
                               !.open = 0, !.answers = {}, !.fetching = FALSE]
<1>2. Settled(a, how, pc) = [att EXCEPT ![a] = r] /\ att \in [Attempts -> Record]
  BY DEF Settled, TypeOK
<1>3. /\ r \in Record
      /\ r.how = how /\ r.pc = pc /\ ~r.ticking /\ ~r.fetching
      /\ r.open = 0 /\ r.answers = {} /\ r.aborted = att[a].aborted
  BY <1>1 DEF Record
<1> HIDE DEF r
<1> QED BY <1>2, <1>3

\* One attempt moves, and keeps to its flow.
LEMMA FlowKept ==
  ASSUME FlowInv, NEW a \in Attempts, Flow(a)',
         \A b \in Attempts \ {a} : att'[b] = att[b] /\ job'[b] = job[b],
         shown' = shown \/ \A b \in Attempts \ {a} : Away(b)' => Away(b),
         early' \subseteq early \cup {a}
  PROVE  FlowInv'
<1>1. \A b \in Attempts \ {a} : Away(b)' => Away(b)
  BY DEF Away
<1>2. \A b \in Attempts \ {a} : Flow(b)'
  BY <1>1 DEF FlowInv, Flow
<1> QED BY <1>2 DEF FlowInv

\* An attempt that ends and releases the guards leaves nothing to release.
LEMMA EndsReleased ==
  ASSUME TypeOK, OverlapInv, NEW a \in Attempts, a \in Active, att'[a].pc = "done",
         \A b \in Attempts \ {a} : att'[b] = att[b],
         creating' = FALSE, cancels' = cancels
  PROVE  OverlapInv'
<1>1. Cardinality(Active') = Cardinality(Active) - 1
  BY ActiveShrinks
<1> QED BY <1>1, ActiveFinite DEF OverlapInv, One, TypeOK

\* An attempt that stays under way disturbs neither guard nor count.
LEMMA StaysOn ==
  ASSUME TypeOK, CtrlInv, GuardInv, OverlapInv, NEW a \in Attempts, a \in Active,
         att'[a].pc \in {"posting", "waiting", "updating", "reporting", "recovering"},
         \A b \in Attempts \ {a} : att'[b] = att[b],
         UNCHANGED <<screen, cancels>>
  PROVE  CtrlInv' /\ GuardInv' /\ OverlapInv'
<1>1. Active' = Active
  BY ActiveStays
<1> QED BY <1>1 DEF CtrlInv, GuardInv, OverlapInv, One, screen, TypeOK

\* A step that leaves the attempts alone.
LEMMA AttSame ==
  ASSUME TypeOK, CtrlInv, GuardInv, FlowInv, OverlapInv,
         \A a \in Attempts :
           job[a] \notin {"none", "asked"} => job'[a] \notin {"none", "asked"},
         UNCHANGED <<screen, att, history, cancels>>
  PROVE  CtrlInv' /\ GuardInv' /\ FlowInv' /\ OverlapInv'
BY DEF CtrlInv, GuardInv, FlowInv, Flow, Away, OverlapInv, One, Active, screen, history
-----------------------------------------------------------------------------
LEMMA InitHolds == Init => IInv
<1> SUFFICES ASSUME Init PROVE IInv
  OBVIOUS
<1>1. New \in Record
  BY BoundsAssumption DEF New, Record
<1>2. TypeOK
  BY <1>1 DEF Init, TypeOK
<1>3. Active = {} /\ Cardinality(Active) = 0
  BY FS_EmptySet DEF Init, Active, New
<1> QED
  BY <1>2, <1>3 DEF Init, IInv, CtrlInv, GuardInv, FlowInv, Flow, Away, OverlapInv, One, New

LEMMA CreateKeeps ==
  ASSUME IInv, NEW a \in Attempts, Create(a)
  PROVE  IInv'
<1>1. att[a] \in Record
  BY DEF IInv, TypeOK
<1>2. /\ att' \in [Attempts -> Record]
      /\ att'[a] = [att[a] EXCEPT !.pc = "posting"]
      /\ \A b \in Attempts \ {a} : att'[b] = att[b]
  BY <1>1 DEF IInv, TypeOK, Create, Record
<1>3. att'[a].pc = "posting" /\ att[a].pc = "new"
  BY <1>1, <1>2 DEF Record, Create
<1>4. TypeOK'
  BY <1>2 DEF IInv, TypeOK, Create, history, counts
<1>5. CtrlInv' /\ GuardInv'
  BY <1>3 DEF CtrlInv, GuardInv, Create, Active
<1>6. Flow(a)'
  BY <1>1, <1>2 DEF IInv, FlowInv, Flow, Away, Create, history, Record
<1>7. FlowInv'
  BY <1>2, <1>6, FlowKept DEF IInv, Create, history
<1>8. OverlapInv'
  <2>1. Cardinality(Active') = Cardinality(Active) + 1
    BY <1>2, <1>3, ActiveGrows
  <2> QED BY <2>1, ActiveFinite DEF OverlapInv, One, IInv, TypeOK, Create, counts
<1> QED BY <1>4, <1>5, <1>7, <1>8 DEF IInv

\* The attempt stays under way, and its record remains a record.
LEMMA MovesOn ==
  ASSUME IInv, NEW a \in Attempts, a \in Active,
         att' \in [Attempts -> Record],
         \A b \in Attempts \ {a} : att'[b] = att[b],
         att'[a].pc \in {"posting", "waiting", "updating", "reporting", "recovering"},
         Flow(a)',
         UNCHANGED <<screen, job, delete, history, cancels>>, faults' \in Nat
  PROVE  IInv'
<1>1. TypeOK'
  BY DEF IInv, TypeOK, screen, history
<1>2. CtrlInv' /\ GuardInv' /\ OverlapInv'
  BY StaysOn DEF IInv
<1>3. FlowInv'
  BY FlowKept DEF IInv, history
<1> QED BY <1>1, <1>2, <1>3 DEF IInv

LEMMA FaultType ==
  ASSUME TypeOK, Fault PROVE faults' \in Nat /\ cancels' = cancels
BY DEF TypeOK, Fault

LEMMA StartedKeeps ==
  ASSUME IInv, NEW a \in Attempts, Started(a)
  PROVE  IInv'
<1>1. att[a] \in Record
  BY DEF IInv, TypeOK
<1>2. /\ att' \in [Attempts -> Record]
      /\ att'[a] = [att[a] EXCEPT !.pc = "waiting", !.known = TRUE, !.ticking = TRUE]
      /\ \A b \in Attempts \ {a} : att'[b] = att[b]
  BY <1>1 DEF IInv, TypeOK, Started, Record
<1>3. att'[a].pc = "waiting" /\ a \in Active
  BY <1>1, <1>2 DEF Record, Started, Active
<1>4. Flow(a)'
  BY <1>1, <1>2 DEF IInv, FlowInv, Flow, Away, Started, history, Record
<1> QED BY <1>2, <1>3, <1>4, MovesOn DEF Started, counts, IInv, TypeOK

\* The promise settles with something the screen still has to work on.
LEMMA SettlesOn ==
  ASSUME IInv, NEW a \in Attempts,
         att[a].pc \in {"posting", "waiting"},
         NEW how, NEW pc,
         <<how, pc>> \in {<<"trip", "updating">>, <<"saved", "recovering">>,
                         <<"error", "reporting">>},
         a \in early => how = "error",
         att' = Settled(a, how, pc),
         UNCHANGED <<screen, job, delete, history, cancels>>, faults' \in Nat
  PROVE  IInv'
<1>1. /\ how \in {"trip", "saved", "error"}
      /\ pc \in {"updating", "recovering", "reporting"}
      /\ pc = "updating" => how = "trip"
      /\ pc = "recovering" => how = "saved"
      /\ pc = "reporting" => how = "error"
  OBVIOUS
<1>2. /\ att' \in [Attempts -> Record]
      /\ \A b \in Attempts \ {a} : att'[b] = att[b]
      /\ att'[a].how = how /\ att'[a].pc = pc
      /\ ~att'[a].ticking /\ ~att'[a].fetching
      /\ att'[a].open = 0 /\ att'[a].answers = {}
      /\ att'[a].aborted = att[a].aborted
  <2>1. /\ how \in {"open", "trip", "saved", "cancelled", "error"}
        /\ pc \in {"new", "posting", "waiting", "updating", "reporting",
                   "recovering", "leaving", "done"}
        /\ TypeOK
    BY <1>1 DEF IInv
  <2> QED BY <2>1, SettledIs
<1>3. a \in Active
  BY DEF Active
<1>4. ~Away(a) /\ (a \in early => att[a].aborted)
  BY DEF IInv, FlowInv, Flow, Away
<1>5. Flow(a)'
  BY <1>1, <1>2, <1>4 DEF Flow, Away, history
<1> QED BY <1>1, <1>2, <1>3, <1>5, MovesOn
\* What a fetch implies, and what an open promise implies.
LEMMA WaitingIs ==
  ASSUME IInv, NEW a \in Attempts
  PROVE  /\ att[a] \in Record
         /\ att[a].fetching \/ att[a].ticking \/ att[a].open > 0
              => att[a].pc = "waiting" /\ a \in Active
         /\ att[a].fetching \/ att[a].open > 0 \/ att[a].answers # {}
              => a \notin early
         /\ att[a].pc \in {"posting", "waiting"} => att[a].how = "open"
<1>1. att[a] \in Record /\ Flow(a)
  BY DEF IInv, TypeOK, FlowInv
<1>2. att[a].open \in Nat
  BY <1>1 DEF Record
<1> QED BY <1>1, <1>2 DEF Flow, Away, Active

LEMMA FailuresKeep ==
  ASSUME IInv, NEW a \in Attempts,
         StartFails(a) \/ PollTimesOut(a) \/ Fetched(a) \/ FetchFails(a)
  PROVE  IInv'
<1>1. TypeOK /\ (Fault => faults' \in Nat /\ cancels' = cancels)
  BY FaultType DEF IInv
<1>2. CASE StartFails(a)
  BY <1>1, <1>2, SettlesOn DEF StartFails
<1>3. CASE PollTimesOut(a)
  BY <1>1, <1>3, WaitingIs, SettlesOn DEF PollTimesOut
<1>4. CASE Fetched(a)
  <2>1. faults' \in Nat /\ cancels' = cancels
    BY <1>1, <1>4 DEF Fetched, counts, TypeOK
  <2> QED BY <2>1, <1>4, WaitingIs, SettlesOn DEF Fetched
<1>5. CASE FetchFails(a)
  BY <1>1, <1>5, WaitingIs, SettlesOn DEF FetchFails
<1> QED BY <1>2, <1>3, <1>4, <1>5

\* The promise is rejected as cancelled; doCreateTrip ends at once.
LEMMA CancelledEnds ==
  ASSUME IInv, NEW a \in Attempts, att[a].pc = "waiting", CancelledNow(a),
         UNCHANGED <<job, delete, history, counts>>
  PROVE  IInv'
<1>1. TypeOK /\ OverlapInv /\ FlowInv /\ CtrlInv
  BY DEF IInv
<1>2. /\ att' \in [Attempts -> Record]
      /\ \A b \in Attempts \ {a} : att'[b] = att[b]
      /\ att'[a].how = "cancelled" /\ att'[a].pc = "done"
      /\ ~att'[a].ticking /\ ~att'[a].fetching
      /\ att'[a].open = 0 /\ att'[a].answers = {}
      /\ att'[a].aborted = att[a].aborted
  BY <1>1, SettledIs DEF CancelledNow
<1>3. a \in Active
  BY DEF Active
<1>4. TypeOK'
  BY <1>1, <1>2 DEF TypeOK, CancelledNow, history, counts
<1>5. CtrlInv' /\ GuardInv'
  BY <1>1 DEF CtrlInv, GuardInv, CancelledNow, TypeOK
<1>6. Flow(a)'
  <2>1. ~Away(a) /\ (a \in early => att[a].aborted)
    BY <1>1 DEF FlowInv, Flow, Away
  <2> QED BY <2>1, <1>2 DEF Flow, Away, history
<1>7. FlowInv'
  BY <1>1, <1>2, <1>6, FlowKept DEF history
<1>8. OverlapInv'
  BY <1>1, <1>2, <1>3, EndsReleased DEF CancelledNow, counts
<1> QED BY <1>4, <1>5, <1>7, <1>8 DEF IInv

LEMMA TickKeeps ==
  ASSUME IInv, NEW a \in Attempts, Tick(a)
  PROVE  IInv'
<1>1. att[a] \in Record /\ att[a].pc = "waiting" /\ a \in Active
  BY WaitingIs DEF Tick
<1>2. CASE att[a].aborted
  BY <1>1, <1>2, CancelledEnds DEF Tick
<1>3. CASE ~att[a].aborted
  <2>1. /\ att' \in [Attempts -> Record]
        /\ \A b \in Attempts \ {a} : att'[b] = att[b]
        /\ att'[a].pc = "waiting" /\ att'[a].how = att[a].how
        /\ UNCHANGED screen
    BY <1>1, <1>3, BoundsAssumption DEF Tick, IInv, TypeOK, Record
  <2>2. /\ a \notin early /\ ~Away(a) /\ att[a].how = "open"
        /\ job[a] \notin {"none", "asked"}
    BY <1>1, <1>3 DEF IInv, FlowInv, Flow, Away
  <2>3. Flow(a)'
    BY <2>1, <2>2 DEF Flow, Away, Tick, history
  <2> QED BY <1>1, <2>1, <2>3, MovesOn DEF Tick, counts, IInv, TypeOK
<1> QED BY <1>2, <1>3

\* An answer is dropped, or a poll is lost, or an answer comes.
LEMMA PollsMove ==
  ASSUME IInv, NEW a \in Attempts, att[a].pc = "waiting",
         att' \in [Attempts -> Record],
         \A b \in Attempts \ {a} : att'[b] = att[b],
         att'[a].pc = "waiting", att'[a].how = att[a].how,
         att'[a].fetching => a \notin early,
         att'[a].aborted = att[a].aborted,
         a \in early => att'[a].open = 0 /\ att'[a].answers = {},
         UNCHANGED <<screen, job, delete, history, cancels>>, faults' \in Nat
  PROVE  IInv'
<1>1. a \in Active
  BY DEF Active
<1>2. /\ ~Away(a) /\ att[a].how = "open" /\ (a \in early => att[a].aborted)
      /\ job[a] \notin {"none", "asked"}
  BY DEF IInv, FlowInv, Flow, Away
<1>3. Flow(a)'
  BY <1>2 DEF Flow, Away, history
<1> QED BY <1>1, <1>3, MovesOn

LEMMA PollFailsKeeps ==
  ASSUME IInv, NEW a \in Attempts, PollFails(a)
  PROVE  IInv'
<1>1. att[a] \in Record /\ att[a].pc = "waiting" /\ a \notin early
  BY WaitingIs DEF PollFails
<1>2. /\ att' \in [Attempts -> Record]
      /\ \A b \in Attempts \ {a} : att'[b] = att[b]
      /\ att'[a].pc = "waiting" /\ att'[a].how = att[a].how
      /\ att'[a].aborted = att[a].aborted
  BY <1>1, BoundsAssumption DEF PollFails, IInv, TypeOK, Record
<1>3. faults' \in Nat /\ cancels' = cancels
  BY FaultType DEF IInv, PollFails
<1> QED BY <1>1, <1>2, <1>3, PollsMove DEF PollFails

LEMMA PollAnswerKeeps ==
  ASSUME IInv, NEW a \in Attempts, PollAnswer(a)
  PROVE  IInv'
<1>1. att[a] \in Record /\ att[a].pc = "waiting"
  BY DEF PollAnswer, IInv, TypeOK
<1>2. PICK s \in att[a].answers :
        \/ /\ s = "completed"
           /\ att' = [att EXCEPT ![a].answers = @ \ {s}, ![a].ticking = FALSE,
                                 ![a].fetching = TRUE]
           /\ UNCHANGED screen
        \/ s = "cancelled" /\ CancelledNow(a)
        \/ /\ \/ s = "error"
              \/ s = "processing" /\ att[a].polls = MaxPolls
           /\ att' = Settled(a, "error", "reporting")
           /\ UNCHANGED screen
        \/ /\ \/ s = "gone"
              \/ s = "processing" /\ att[a].polls < MaxPolls
           /\ att' = [att EXCEPT ![a].answers = @ \ {s}]
           /\ UNCHANGED screen
  BY DEF PollAnswer
<1>3. a \notin early
  BY <1>2, WaitingIs
<1>4. UNCHANGED <<job, delete, history, counts>> /\ faults' \in Nat
  BY DEF PollAnswer, counts, IInv, TypeOK
<1>5. CASE att' = [att EXCEPT ![a].answers = @ \ {s}] /\ UNCHANGED screen
  <2>1. /\ att' \in [Attempts -> Record]
        /\ \A b \in Attempts \ {a} : att'[b] = att[b]
        /\ att'[a].pc = "waiting" /\ att'[a].how = att[a].how
        /\ att'[a].aborted = att[a].aborted
    BY <1>1, <1>5 DEF IInv, TypeOK, Record
  <2> QED BY <1>1, <1>3, <1>4, <1>5, <2>1, PollsMove DEF counts
<1>6. CASE att' = [att EXCEPT ![a].answers = @ \ {s}, ![a].ticking = FALSE,
                              ![a].fetching = TRUE] /\ UNCHANGED screen
  <2>1. /\ att' \in [Attempts -> Record]
        /\ \A b \in Attempts \ {a} : att'[b] = att[b]
        /\ att'[a].pc = "waiting" /\ att'[a].how = att[a].how
        /\ att'[a].aborted = att[a].aborted
    BY <1>1, <1>6 DEF IInv, TypeOK, Record
  <2> QED BY <1>1, <1>3, <1>4, <1>6, <2>1, PollsMove DEF counts
<1>7. CASE CancelledNow(a)
  BY <1>1, <1>4, <1>7, CancelledEnds
<1>8. CASE att' = Settled(a, "error", "reporting") /\ UNCHANGED screen
  BY <1>1, <1>4, <1>8, SettlesOn DEF counts
<1> QED BY <1>2, <1>5, <1>6, <1>7, <1>8

LEMMA ServeKeeps ==
  ASSUME IInv, NEW a \in Attempts, Serve(a)
  PROVE  IInv'
<1>1. att[a] \in Record /\ att[a].pc = "waiting" /\ a \notin early
  <2>1. att[a].open > 0
    BY DEF Serve
  <2> QED BY <2>1, WaitingIs
<1>2. job[a] \in {"processing", "completed", "error", "cancelled", "gone"}
  BY <1>1 DEF IInv, TypeOK, FlowInv, Flow, Away
<1>3. /\ att' \in [Attempts -> Record]
      /\ \A b \in Attempts \ {a} : att'[b] = att[b]
      /\ att'[a].pc = "waiting" /\ att'[a].how = att[a].how
      /\ att'[a].aborted = att[a].aborted
  <2>1. att[a].open - 1 \in 0..MaxOpen
    BY <1>1, BoundsAssumption DEF Serve, Record
  <2>2. att[a].answers \cup {job[a]} \in
          SUBSET {"processing", "completed", "error", "cancelled", "gone"}
    BY <1>1, <1>2 DEF Record
  <2>3. att' = [att EXCEPT ![a] = [att[a] EXCEPT !.open = att[a].open - 1,
                                                 !.answers = att[a].answers \cup {job[a]}]]
    BY <1>1 DEF Serve, IInv, TypeOK, Record
  <2>4. [att[a] EXCEPT !.open = att[a].open - 1,
                       !.answers = att[a].answers \cup {job[a]}] \in Record
    BY <1>1, <2>1, <2>2 DEF Record
  <2> QED BY <1>1, <2>3, <2>4 DEF IInv, TypeOK, Record
<1> QED BY <1>1, <1>3, PollsMove DEF Serve, counts, IInv, TypeOK

\* The attempts that end after their promise.
LEMMA EndsKeep ==
  ASSUME IInv, NEW a \in Attempts, Show(a) \/ NoTrip(a) \/ Report(a) \/ Leave(a)
  PROVE  IInv'
<1>1. TypeOK /\ CtrlInv /\ GuardInv /\ OverlapInv /\ FlowInv /\ att[a] \in Record /\ Flow(a)
  BY DEF IInv, TypeOK, FlowInv
<1>2. a \in Active
  BY DEF Active, Show, NoTrip, Report, Leave
<1>3. att' = [att EXCEPT ![a].pc = "done"]
  BY DEF Show, NoTrip, Report, Leave
<1>4. /\ att' \in [Attempts -> Record]
      /\ \A b \in Attempts \ {a} : att'[b] = att[b]
      /\ att'[a] = [att[a] EXCEPT !.pc = "done"] /\ att'[a].pc = "done"
  BY <1>1, <1>3 DEF TypeOK, Record
<1>5. UNCHANGED <<job, delete, early, cancels>> /\ faults' \in Nat
  BY <1>1, FaultType DEF Show, NoTrip, Report, Leave, history, counts, TypeOK
<1>a. \/ shown' = shown
      \/ /\ att[a].how \in {"trip", "saved"}
         /\ \E b \in Attempts : shown' = shown \cup {<<a, b>>}
  <2>1. CASE Show(a)
    BY <1>1, <2>1 DEF Show, Flow, Away
  <2>2. CASE NoTrip(a) \/ Report(a)
    BY <2>2 DEF NoTrip, Report, history
  <2>3. CASE Leave(a)
    <3>1. att[a].how = "saved" /\ att[a].found \in Attempts \cup {NoAttempt}
      BY <1>1, <2>3 DEF Leave, Flow, Away, Record
    <3> QED BY <2>3, <3>1 DEF Leave
  <2> QED BY <2>1, <2>2, <2>3
<1>b. /\ shown' \subseteq Attempts \X Attempts
      /\ \A b \in Attempts \ {a} : Away(b)' => Away(b)
      /\ Away(a)' => att[a].how \in {"trip", "saved"}
  <2>1. CASE shown' = shown
    BY <1>1, <2>1 DEF TypeOK, Away, Flow
  <2>2. ASSUME att[a].how \in {"trip", "saved"}, NEW b \in Attempts,
               shown' = shown \cup {<<a, b>>}
        PROVE  /\ shown' \subseteq Attempts \X Attempts
               /\ \A d \in Attempts \ {a} : Away(d)' => Away(d)
    <3>1. shown \subseteq Attempts \X Attempts
      BY <1>1 DEF TypeOK
    <3>2. shown' \subseteq Attempts \X Attempts
      BY <2>2, <3>1
    <3>3. \A d, e \in Attempts : d # a /\ <<d, e>> \in shown' => <<d, e>> \in shown
      BY <2>2
    <3> QED BY <3>2, <3>3 DEF Away
  <2> QED BY <1>a, <2>1, <2>2
<1>6. TypeOK'
  <2>1. mounted' \in BOOLEAN /\ loading' \in BOOLEAN /\ creating' \in BOOLEAN
    BY <1>1 DEF TypeOK, Show, NoTrip, Report, Leave
  <2>2. ctrl' \in Attempts \cup {NoAttempt}
    BY <1>1 DEF TypeOK, Show, NoTrip, Report, Leave
  <2> QED BY <1>1, <1>4, <1>5, <1>b, <2>1, <2>2 DEF TypeOK
<1>7. Flow(a)'
  <2>1. /\ att'[a].how = att[a].how /\ att'[a].aborted = att[a].aborted
        /\ ~att'[a].ticking /\ ~att'[a].fetching
        /\ att'[a].open = 0 /\ att'[a].answers = {}
    BY <1>1, <1>4 DEF Flow, Away, Show, NoTrip, Report, Leave, Record
  <2>3. a \in early => att[a].aborted /\ att[a].how \in {"cancelled", "error"}
    BY <1>1 DEF Flow, Away, Show, NoTrip, Report, Leave
  <2> QED BY <1>4, <1>5, <1>b, <2>1, <2>3 DEF Flow, Away
<1>8. FlowInv'
  BY <1>1, <1>4, <1>5, <1>b, <1>7, FlowKept
<1>9. CtrlInv'
  <2>1. CASE Show(a) \/ NoTrip(a) \/ Report(a)
    BY <2>1 DEF CtrlInv, Show, NoTrip, Report
  <2>2. CASE Leave(a)
    <3>1. ctrl' = ctrl /\ att[a].pc = "leaving"
      BY <2>2 DEF Leave
    <3>2. ctrl # NoAttempt => ctrl \in Attempts \ {a}
      BY <1>1, <3>1 DEF CtrlInv, TypeOK
    <3> QED BY <1>1, <1>4, <3>1, <3>2 DEF CtrlInv
  <2> QED BY <2>1, <2>2
<1>10. GuardInv'
  BY <1>1 DEF GuardInv, Show, NoTrip, Report, Leave, TypeOK
<1>11. OverlapInv'
  <2>1. Cardinality(Active') = Cardinality(Active) - 1
    BY <1>2, <1>4, ActiveShrinks
  <2>2. creating' = FALSE \/ creating' = creating
    BY <1>1 DEF Show, NoTrip, Report, Leave, TypeOK
  <2> QED BY <1>1, <1>5, <2>1, <2>2, ActiveFinite DEF OverlapInv, One, TypeOK
<1> QED BY <1>6, <1>8, <1>9, <1>10, <1>11 DEF IInv

LEMMA RecoverKeeps ==
  ASSUME IInv, NEW a \in Attempts, Recover(a)
  PROVE  IInv'
<1>1. TypeOK /\ CtrlInv /\ GuardInv /\ OverlapInv /\ FlowInv /\ att[a] \in Record /\ Flow(a)
  BY DEF IInv, TypeOK, FlowInv
<1>2. a \in Active
  BY DEF Active, Recover
<1>3. /\ att' \in [Attempts -> Record]
      /\ \A b \in Attempts \ {a} : att'[b] = att[b]
      /\ \E b \in Attempts \cup {NoAttempt} :
           att'[a] = [att[a] EXCEPT !.pc = "leaving", !.found = b]
      /\ att'[a].pc = "leaving"
  <2>1. PICK b \in Attempts \cup {NoAttempt} :
          att' = [att EXCEPT ![a].pc = "leaving", ![a].found = b]
    BY DEF Recover
  <2> DEFINE r == [att[a] EXCEPT !.pc = "leaving", !.found = b]
  <2>2. att' = [att EXCEPT ![a] = r] /\ att \in [Attempts -> Record]
    BY <1>1, <2>1 DEF TypeOK
  <2>3. r \in Record /\ r.pc = "leaving"
    BY <1>1 DEF Record
  <2>4. r = [att[a] EXCEPT !.pc = "leaving", !.found = b]
    OBVIOUS
  <2> HIDE DEF r
  <2> QED BY <2>2, <2>3, <2>4
<1>4. TypeOK'
  BY <1>1, <1>3 DEF TypeOK, Recover, history, counts
<1>5. Active' = Active
  BY <1>2, <1>3, ActiveStays
<1>6. CtrlInv' /\ GuardInv' /\ OverlapInv'
  BY <1>1, <1>5 DEF CtrlInv, GuardInv, OverlapInv, One, Recover, counts
<1>7. Flow(a)'
  BY <1>1, <1>3 DEF Flow, Away, Recover, history, Record
<1>8. FlowInv'
  BY <1>1, <1>3, <1>7, FlowKept DEF Recover, history
<1> QED BY <1>4, <1>6, <1>8 DEF IInv
\* What the signal changes.
LEMMA AbortMoves ==
  ASSUME IInv, Abort, UNCHANGED <<job, shown>>
  PROVE  /\ att' \in [Attempts -> Record]
         /\ delete' \in [Attempts -> {"none", "out", "over"}]
         /\ early' \subseteq Attempts
         /\ Active' = Active
         /\ \A a \in Attempts :
              att'[a].pc = att[a].pc \/ (att[a].pc = "posting" /\ att'[a].pc = "reporting")
         /\ FlowInv'
<1>1. TypeOK /\ CtrlInv /\ FlowInv
  BY DEF IInv
<1>2. CASE UNCHANGED <<att, delete, early>>
  BY <1>1, <1>2 DEF TypeOK, Active, FlowInv, Flow, Away
<1>3. CASE /\ ctrl # NoAttempt
           /\ att' = [(IF att[ctrl].pc = "posting" THEN Settled(ctrl, "error", "reporting")
                       ELSE [att EXCEPT ![ctrl].open = 0, ![ctrl].answers = {}])
                      EXCEPT ![ctrl].aborted = TRUE]
           /\ delete' = [delete EXCEPT ![ctrl] = IF att[ctrl].known THEN "out" ELSE @]
           /\ early' = IF att[ctrl].how = "open" /\ ~att[ctrl].fetching
                         THEN early \cup {ctrl} ELSE early
  <2>1. PICK c \in Attempts : c = ctrl
    BY <1>1, <1>3 DEF TypeOK
  <2>0. c \in Attempts
    BY <2>1
  <2>2. /\ att[c] \in Record /\ Flow(c)
        /\ delete' \in [Attempts -> {"none", "out", "over"}] /\ early' \subseteq Attempts
        /\ early' \subseteq early \cup {c}
    BY <1>1, <1>3, <2>1 DEF TypeOK, FlowInv
  <2>3. CASE att[c].pc = "posting"
    <3> DEFINE S == Settled(c, "error", "reporting")
    <3>1. /\ S \in [Attempts -> Record]
          /\ \A b \in Attempts \ {c} : S[b] = att[b]
          /\ S[c].how = "error" /\ S[c].pc = "reporting"
          /\ ~S[c].ticking /\ ~S[c].fetching
          /\ S[c].open = 0 /\ S[c].answers = {}
      BY <1>1, <2>1, SettledIs
    <3>2. att' = [S EXCEPT ![c].aborted = TRUE]
      BY <1>3, <2>1, <2>3
    <3> DEFINE r == [S[c] EXCEPT !.aborted = TRUE]
    <3>a. S[c] \in Record
      BY <2>1, <3>1, <1>3
    <3> HIDE DEF S
    <3>b. /\ r \in Record
          /\ r.how = "error" /\ r.pc = "reporting"
          /\ ~r.ticking /\ ~r.fetching /\ r.open = 0 /\ r.answers = {}
          /\ r.aborted
      BY <3>1, <3>a DEF Record
    <3>c. att' = [S EXCEPT ![c] = r]
      BY <3>2
    <3> HIDE DEF r
    <3>3. /\ att' \in [Attempts -> Record]
          /\ \A b \in Attempts \ {c} : att'[b] = att[b]
          /\ att'[c].how = "error" /\ att'[c].pc = "reporting"
          /\ ~att'[c].ticking /\ ~att'[c].fetching
          /\ att'[c].open = 0 /\ att'[c].answers = {}
          /\ att'[c].aborted
      BY <3>1, <3>b, <3>c, <2>0
    <3>4. ~Away(c)
      BY <2>2, <2>3 DEF Flow, Away
    <3>5. Flow(c)'
      BY <3>3, <3>4 DEF Flow, Away
    <3>6. FlowInv'
      BY <1>1, <2>2, <3>3, <3>5, FlowKept
    <3>7. Active' = Active
      BY <2>3, <3>3 DEF Active
    <3> QED BY <2>2, <2>3, <3>3, <3>6, <3>7
  <2>4. CASE att[c].pc # "posting"
    <3> DEFINE r == [att[c] EXCEPT !.open = 0, !.answers = {}, !.aborted = TRUE]
    <3>a. 0 \in 0..MaxOpen
      BY BoundsAssumption
    <3>b. r \in Record
      BY <2>2, <3>a DEF Record
    <3>c. att' = [[att EXCEPT ![c].open = 0, ![c].answers = {}] EXCEPT ![c].aborted = TRUE]
      BY <1>3, <2>1, <2>4
    <3>d. att \in [Attempts -> Record]
      BY <1>1 DEF TypeOK
    <3>1. r \in Record /\ att' = [att EXCEPT ![c] = r]
      BY <2>0, <3>b, <3>c, <3>d
    <3>2. /\ r.pc = att[c].pc /\ r.how = att[c].how /\ r.aborted
          /\ r.open = 0 /\ r.answers = {}
          /\ r.ticking = att[c].ticking /\ r.fetching = att[c].fetching
      BY <2>2 DEF Record
    <3> HIDE DEF r
    <3>3. /\ att' \in [Attempts -> Record] /\ att'[c] = r
          /\ \A b \in Attempts \ {c} : att'[b] = att[b]
      BY <1>1, <3>1 DEF TypeOK
    <3>4. c \in early' => \/ c \in early
                          \/ att[c].how = "open" /\ ~att[c].fetching
      BY <1>3, <2>1
    <3>5. att[c].pc \in {"waiting", "updating", "reporting", "recovering"}
      BY <1>1, <1>3, <2>1, <2>4 DEF CtrlInv
    <3>6. Flow(c)'
      BY <2>2, <3>2, <3>3, <3>4, <3>5 DEF Flow, Away
    <3>7. FlowInv'
      BY <1>1, <2>2, <3>3, <3>6, FlowKept
    <3>8. Active' = Active
      BY <3>2, <3>3 DEF Active
    <3> QED BY <2>2, <3>2, <3>3, <3>7, <3>8
  <2> QED BY <2>3, <2>4
<1> QED BY <1>2, <1>3 DEF Abort

LEMMA CancelKeeps ==
  ASSUME IInv, Cancel
  PROVE  IInv'
<1>1. UNCHANGED <<job, shown, ctrl, mounted, faults>> /\ Abort /\ TypeOK /\ CtrlInv
  BY DEF Cancel, IInv
<1>2. /\ att' \in [Attempts -> Record]
      /\ delete' \in [Attempts -> {"none", "out", "over"}]
      /\ early' \subseteq Attempts
      /\ Active' = Active
      /\ \A a \in Attempts :
           att'[a].pc = att[a].pc \/ (att[a].pc = "posting" /\ att'[a].pc = "reporting")
      /\ FlowInv'
  BY <1>1, AbortMoves
<1>a. cancels \in Nat /\ cancels' = cancels + 1
  BY <1>1, Zenon DEF TypeOK, Cancel
<1>b. cancels' \in Nat
  BY <1>a
<1>c. loading' \in BOOLEAN /\ creating' \in BOOLEAN
  BY Zenon DEF Cancel
<1>3. TypeOK'
  BY <1>1, <1>2, <1>b, <1>c DEF TypeOK
<1>4. CtrlInv' /\ GuardInv'
  BY <1>1, <1>2 DEF CtrlInv, GuardInv, Cancel, TypeOK
<1>5. OverlapInv'
  BY <1>1, <1>2, ActiveFinite DEF OverlapInv, One, Cancel, IInv, TypeOK
<1> QED BY <1>2, <1>3, <1>4, <1>5 DEF IInv

LEMMA UnmountKeeps ==
  ASSUME IInv, Unmount
  PROVE  IInv'
<1>1. UNCHANGED <<job, shown, ctrl, loading, creating, cancels, faults>> /\ Abort
  BY DEF Unmount, counts
<1>2. /\ att' \in [Attempts -> Record]
      /\ delete' \in [Attempts -> {"none", "out", "over"}]
      /\ early' \subseteq Attempts
      /\ Active' = Active
      /\ \A a \in Attempts :
           att'[a].pc = att[a].pc \/ (att[a].pc = "posting" /\ att'[a].pc = "reporting")
      /\ FlowInv'
  BY <1>1, AbortMoves
<1>3. TypeOK'
  BY <1>1, <1>2 DEF TypeOK, Unmount, IInv
<1>4. CtrlInv' /\ GuardInv'
  BY <1>1, <1>2 DEF CtrlInv, GuardInv, Unmount, TypeOK, IInv
<1>5. OverlapInv'
  BY <1>1, <1>2 DEF OverlapInv, One, IInv
<1> QED BY <1>2, <1>3, <1>4, <1>5 DEF IInv

\* The server moves jobs, never back to one that was not created.
LEMMA ServerKeeps ==
  ASSUME IInv,
         \/ \E a \in Attempts : Arrive(a) \/ Finish(a) \/ DeleteArrives(a) \/ DeleteFails(a)
         \/ Restart
  PROVE  IInv'
<1>1. UNCHANGED <<screen, att, history, cancels>> /\ faults' \in Nat
  BY DEF Arrive, Finish, DeleteArrives, DeleteFails, Restart, Fault, counts, IInv, TypeOK
<1>2. /\ job' \in [Attempts -> {"none", "asked", "processing", "completed", "error",
                                 "cancelled", "gone"}]
      /\ \A a \in Attempts :
           job[a] \notin {"none", "asked"} => job'[a] \notin {"none", "asked"}
  BY DEF Arrive, Finish, DeleteArrives, DeleteFails, Restart, IInv, TypeOK
<1>3. delete' \in [Attempts -> {"none", "out", "over"}]
  BY DEF Arrive, Finish, DeleteArrives, DeleteFails, Restart, IInv, TypeOK
<1>4. TypeOK'
  BY <1>1, <1>2, <1>3 DEF IInv, TypeOK, screen, history
<1> QED BY <1>1, <1>2, <1>4, AttSame DEF IInv
-----------------------------------------------------------------------------
\* Every step keeps the invariant.
THEOREM Inductive == IInv /\ [Next]_vars => IInv'
<1> SUFFICES ASSUME IInv, [Next]_vars PROVE IInv'
  OBVIOUS
<1>1. CASE UNCHANGED vars
  <2>1. UNCHANGED <<screen, att, job, delete, history, counts>>
    BY <1>1 DEF vars
  <2>2. TypeOK'
    BY <2>1 DEF IInv, TypeOK, screen, history, counts
  <2> QED BY <2>1, <2>2, AttSame DEF IInv, counts
<1>2. CASE \E a \in Attempts : Create(a) \/ Step(a) \/ Trouble(a) \/ Server(a)
  <2>1. PICK a \in Attempts : Create(a) \/ Step(a) \/ Trouble(a) \/ Server(a)
    BY <1>2
  <2>2. CASE Create(a)
    BY <2>2, CreateKeeps
  <2>3. CASE Step(a)
    BY <2>3, StartedKeeps, TickKeeps, PollAnswerKeeps, FailuresKeep, EndsKeep,
       RecoverKeeps DEF Step
  <2>4. CASE Trouble(a)
    BY <2>4, FailuresKeep, PollFailsKeeps, EndsKeep, ServerKeeps DEF Trouble
  <2>5. CASE Server(a)
    BY <2>5, ServerKeeps, ServeKeeps DEF Server
  <2> QED BY <2>1, <2>2, <2>3, <2>4, <2>5
<1>3. CASE Cancel \/ Unmount \/ Restart
  BY <1>3, CancelKeeps, UnmountKeeps, ServerKeeps
<1> QED BY <1>1, <1>2, <1>3 DEF Next

LEMMA InvariantHolds == Spec => []IInv
BY InitHolds, Inductive, PTL DEF Spec

\* The variables keep their types.
THEOREM TypeCorrect == Spec => []TypeOK
<1>1. IInv => TypeOK
  BY DEF IInv
<1> QED BY <1>1, InvariantHolds, PTL

\* The form comes back after every attempt.
THEOREM FormIsReleased == Spec => []FormReleased
<1>1. IInv => FormReleased
  <2> SUFFICES ASSUME IInv, mounted, Active = {}
               PROVE  ~loading /\ ~creating /\ ctrl = NoAttempt
    BY DEF FormReleased
  <2>1. ~loading /\ ~creating
    BY DEF IInv, GuardInv, TypeOK
  <2>2. ctrl = NoAttempt
    BY DEF IInv, CtrlInv, TypeOK, Active
  <2> QED BY <2>1, <2>2
<1> QED BY <1>1, InvariantHolds, PTL

\* Creations overlap only after Cancel.
THEOREM OverlapIsPaidFor == Spec => []OverlapNeedsCancel
<1>1. IInv => OverlapNeedsCancel
  BY ActiveFinite DEF IInv, OverlapInv, One, OverlapNeedsCancel, TypeOK
<1> QED BY <1>1, InvariantHolds, PTL

\* A creation cancelled early does not take the user away.
THEOREM EarlyCancelIsKept == Spec => []EarlyCancelHolds
<1>1. IInv => EarlyCancelHolds
  <2> SUFFICES ASSUME IInv, NEW p \in shown, p[1] \in early PROVE FALSE
    BY DEF EarlyCancelHolds
  <2>1. PICK a \in Attempts, b \in Attempts : p = <<a, b>>
    BY DEF IInv, TypeOK
  <2>2. Away(a) /\ a \in early /\ Flow(a)
    BY <2>1 DEF Away, IInv, FlowInv
  <2> QED BY <2>2 DEF Flow
<1> QED BY <1>1, InvariantHolds, PTL
=============================================================================
