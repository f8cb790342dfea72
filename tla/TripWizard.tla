----------------------------- MODULE TripWizard -----------------------------
(***************************************************************************)
(* The screen that creates a trip (screens/trips/CreateTripScreen.tsx) and *)
(* the polling client under it (createTripWithPolling in services/api.ts). *)
(* Each call of doCreateTrip is an attempt: a POST that starts a job, a    *)
(* GET every second whether the last one was answered or not, the trip     *)
(* itself, and then what the screen does about the outcome.  The attempts  *)
(* share two guards and one AbortController.  Of the server there is what  *)
(* the client can see: the state of each job.  A step is what the app runs *)
(* between two awaits.                                                     *)
(***************************************************************************)
EXTENDS Integers, FiniteSets

CONSTANTS
  Attempts,    \* calls of doCreateTrip on one mounted screen
  NoAttempt,   \* abortControllerRef.current = null
  MaxPolls,    \* maxPolls
  MaxOpen,     \* bound: polls that wait for the server at once
  Restarts,    \* whether the server may restart
  MaxCancels, MaxFaults   \* bounds

ASSUME NamesAssumption == IsFiniteSet(Attempts) /\ NoAttempt \notin Attempts
ASSUME BoundsAssumption ==
  /\ MaxPolls \in Nat \ {0} /\ MaxOpen \in Nat \ {0}
  /\ Restarts \in BOOLEAN /\ MaxCancels \in Nat /\ MaxFaults \in Nat

VARIABLES
  mounted,    \* isMountedRef
  loading,    \* isLoading: the button shows a spinner, Cancel is offered
  creating,   \* isCreatingRef
  ctrl,       \* whose controller abortControllerRef holds
  att,        \* the attempts
  job,        \* the jobs the server has for them
  delete,     \* the DELETE /trips/jobs/:id of each
  shown,      \* history: <<a, b>>, attempt a took the user to the trip of b
  early,      \* history: aborted before the app knew that the trip is there
  cancels, faults   \* cancels: history; both bound the model

screen  == <<mounted, loading, creating, ctrl>>
history == <<shown, early>>
counts  == <<cancels, faults>>
vars    == <<screen, att, job, delete, history, counts>>

\* how: what became of the promise of createTripWithPolling; known: the client
\* has the jobId, so the abort listener is attached; ticking: the interval; found:
\* whose trip latestTrip is.
New == [pc |-> "new", how |-> "open", known |-> FALSE, aborted |-> FALSE,
        ticking |-> FALSE, polls |-> 0, open |-> 0, answers |-> {},
        fetching |-> FALSE, found |-> NoAttempt]

Active == {a \in Attempts : att[a].pc \notin {"new", "done"}}

\* The promise settles; what is still under way for it has no effect any more.
Settled(a, how, pc) ==
  [att EXCEPT ![a] = [@ EXCEPT !.how = how, !.pc = pc, !.ticking = FALSE,
                               !.open = 0, !.answers = {}, !.fetching = FALSE]]

Fault == faults < MaxFaults /\ faults' = faults + 1 /\ UNCHANGED cancels

Init ==
  /\ mounted = TRUE /\ loading = FALSE /\ creating = FALSE /\ ctrl = NoAttempt
  /\ att = [a \in Attempts |-> New]
  /\ job = [a \in Attempts |-> "none"]
  /\ delete = [a \in Attempts |-> "none"]
  /\ shown = {} /\ early = {}
  /\ cancels = 0 /\ faults = 0
-----------------------------------------------------------------------------
\* Starting: the user taps Create, with a form that is filled in.

\* Slip: only the button's own state is looked at, and it is not rendered yet.
CreateTwice(a) ==
  /\ mounted /\ att[a].pc = "new"
  /\ loading' = TRUE /\ creating' = TRUE /\ ctrl' = a
  /\ att' = [att EXCEPT ![a].pc = "posting"]
  /\ job' = [job EXCEPT ![a] = "asked"]
  /\ UNCHANGED <<mounted, delete, history, counts>>

Create(a) ==
  /\ mounted /\ ~loading /\ ~creating /\ att[a].pc = "new"
  /\ loading' = TRUE /\ creating' = TRUE /\ ctrl' = a
  /\ att' = [att EXCEPT ![a].pc = "posting"]
  /\ job' = [job EXCEPT ![a] = "asked"]
  /\ UNCHANGED <<mounted, delete, history, counts>>

\* The jobId arrives: the abort listener and the interval are installed.
Started(a) ==
  /\ att[a].pc = "posting" /\ job[a] # "asked"
  /\ att' = [att EXCEPT ![a].pc = "waiting", ![a].known = TRUE, ![a].ticking = TRUE]
  /\ UNCHANGED <<screen, job, delete, history, counts>>

\* The POST fails or takes longer than 10 seconds; the server may have it.
StartFails(a) ==
  /\ att[a].pc = "posting"
  /\ Fault
  /\ att' = Settled(a, "error", "reporting")
  /\ UNCHANGED <<screen, job, delete, history>>
-----------------------------------------------------------------------------
\* Polling.

\* The catch clause of doCreateTrip for the three shapes of a cancellation, and
\* its finally clause.
CancelledNow(a) ==
  /\ att' = Settled(a, "cancelled", "done")
  /\ loading' = (loading /\ ~mounted) /\ creating' = FALSE /\ ctrl' = NoAttempt
  /\ UNCHANGED mounted

\* One second has passed.  The guard on open is the bound only.
Tick(a) ==
  /\ att[a].ticking
  /\ IF att[a].aborted
       THEN CancelledNow(a)
       ELSE /\ att[a].open < MaxOpen
            /\ att' = [att EXCEPT ![a].open = @ + 1,
                                  ![a].polls = IF @ < MaxPolls THEN @ + 1 ELSE @]
            /\ UNCHANGED screen
  /\ UNCHANGED <<job, delete, history, counts>>

\* A network error: it is ignored, the next poll is a second away.
PollFails(a) ==
  /\ att[a].open > 0
  /\ Fault
  /\ att' = [att EXCEPT ![a].open = @ - 1]
  /\ UNCHANGED <<screen, job, delete, history>>

\* No answer for 30 seconds is ECONNABORTED, which ends the attempt.
PollTimesOut(a) ==
  /\ att[a].open > 0
  /\ Fault
  /\ att' = Settled(a, "error", "reporting")
  /\ UNCHANGED <<screen, job, delete, history>>

\* Slip: the number of polls is not compared with maxPolls.
PollAnswerUnlimited(a) ==
  /\ att[a].pc = "waiting"
  /\ \E s \in att[a].answers :
       CASE s = "completed" ->
              /\ att' = [att EXCEPT ![a].answers = @ \ {s}, ![a].ticking = FALSE,
                                    ![a].fetching = TRUE]
              /\ UNCHANGED screen
         [] s = "cancelled" -> CancelledNow(a)
         [] s = "error" -> att' = Settled(a, "error", "reporting") /\ UNCHANGED screen
         [] OTHER ->
              att' = [att EXCEPT ![a].answers = @ \ {s}] /\ UNCHANGED screen
  /\ UNCHANGED <<job, delete, history, counts>>

\* The answer to a poll, possibly an old one.  "gone" is a 404, an error like any
\* other of the network.
PollAnswer(a) ==
  /\ att[a].pc = "waiting"
  /\ \E s \in att[a].answers :
       \/ /\ s = "completed"
          /\ att' = [att EXCEPT ![a].answers = @ \ {s}, ![a].ticking = FALSE,
                                ![a].fetching = TRUE]
          /\ UNCHANGED screen
       \/ s = "cancelled" /\ CancelledNow(a)
       \/ /\ \/ s = "error"
             \/ s = "processing" /\ att[a].polls = MaxPolls
          /\ att' = Settled(a, "error", "reporting")
          /\ UNCHANGED screen
       \/ /\ \/ s = "gone"
             \/ s = "processing" /\ att[a].polls < MaxPolls
          /\ att' = [att EXCEPT ![a].answers = @ \ {s}]
          /\ UNCHANGED screen
  /\ UNCHANGED <<job, delete, history, counts>>

\* getTripById, which has no signal: an abort does not stop it.
Fetched(a) ==
  /\ att[a].fetching
  /\ att' = Settled(a, "trip", "updating")
  /\ UNCHANGED <<screen, job, delete, history, counts>>

FetchFails(a) ==
  /\ att[a].fetching
  /\ Fault
  /\ att' = Settled(a, "saved", "recovering")
  /\ UNCHANGED <<screen, job, delete, history>>
-----------------------------------------------------------------------------
\* What doCreateTrip does about the outcome, after refreshStatus.

\* The screen is reset to the trip, and with it goes this screen; its unmount
\* effect runs after the finally clause and finds no controller.
Show(a) ==
  /\ att[a].pc = "updating"
  /\ att' = [att EXCEPT ![a].pc = "done"]
  /\ shown' = shown \cup {<<a, a>>}
  /\ mounted' = FALSE
  /\ loading' = FALSE /\ creating' = FALSE /\ ctrl' = NoAttempt
  /\ UNCHANGED <<job, delete, early, counts>>

\* Slip: the guard is not released after an error.
ReportAndKeep(a) ==
  /\ att[a].pc = "reporting"
  /\ att' = [att EXCEPT ![a].pc = "done"]
  /\ loading' = (loading /\ ~mounted) /\ ctrl' = NoAttempt
  /\ UNCHANGED <<mounted, creating, job, delete, history, counts>>

Report(a) ==
  /\ att[a].pc = "reporting"
  /\ att' = [att EXCEPT ![a].pc = "done"]
  /\ loading' = (loading /\ ~mounted) /\ creating' = FALSE /\ ctrl' = NoAttempt
  /\ UNCHANGED <<mounted, job, delete, history, counts>>

\* The trip has no id.
NoTrip(a) ==
  /\ att[a].pc = "updating"
  /\ Fault
  /\ att' = [att EXCEPT ![a].pc = "done"]
  /\ loading' = FALSE /\ creating' = FALSE /\ ctrl' = NoAttempt
  /\ UNCHANGED <<mounted, job, delete, history>>

\* The trip exists but could not be fetched: the newest trip of the last 10 seconds
\* is looked for, and may be that of another attempt (which is the newest is left
\* open).  The guards stay until a timer has led the user away.
Recover(a) ==
  /\ att[a].pc = "recovering"
  /\ \E b \in {c \in Attempts : job[c] \notin {"none", "asked"}} \cup {NoAttempt} :
       att' = [att EXCEPT ![a].pc = "leaving", ![a].found = b]
  /\ ctrl' = NoAttempt
  /\ UNCHANGED <<mounted, loading, creating, job, delete, history, counts>>

\* To the trip that was found, or else to the list; this screen stays below.
Leave(a) ==
  /\ att[a].pc = "leaving"
  /\ att' = [att EXCEPT ![a].pc = "done"]
  /\ loading' = (loading /\ ~mounted) /\ creating' = (creating /\ ~mounted)
  /\ shown' = IF mounted /\ att[a].found # NoAttempt
                THEN shown \cup {<<a, att[a].found>>} ELSE shown
  /\ UNCHANGED <<mounted, ctrl, job, delete, early, counts>>
-----------------------------------------------------------------------------
\* Cancelling.

\* Slip: the polls are sent without the signal.
AbortTicksOnly ==
  IF ctrl = NoAttempt \/ (ctrl # NoAttempt /\ att[ctrl].aborted)
    THEN UNCHANGED <<att, delete, early>>
    ELSE /\ att' = [(IF att[ctrl].pc = "posting" THEN Settled(ctrl, "error", "reporting")
                                                 ELSE att)
                    EXCEPT ![ctrl].aborted = TRUE]
         /\ delete' = [delete EXCEPT ![ctrl] = IF att[ctrl].known THEN "out" ELSE @]
         /\ early' = IF att[ctrl].how = "open" /\ ~att[ctrl].fetching
                       THEN early \cup {ctrl} ELSE early

\* The signal of the controller in the ref fires: axios gives up the POST or the
\* polls with ERR_CANCELED, which is not one of the errors that createTripWithPolling
\* knows, and the listener sends the DELETE.
Abort ==
  \/ /\ \/ ctrl = NoAttempt
        \/ ctrl # NoAttempt /\ att[ctrl].aborted
     /\ UNCHANGED <<att, delete, early>>
  \/ /\ ctrl # NoAttempt
     /\ ~att[ctrl].aborted
     /\ att' = [(IF att[ctrl].pc = "posting" THEN Settled(ctrl, "error", "reporting")
                 ELSE [att EXCEPT ![ctrl].open = 0, ![ctrl].answers = {}])
                EXCEPT ![ctrl].aborted = TRUE]
     /\ delete' = [delete EXCEPT ![ctrl] = IF att[ctrl].known THEN "out" ELSE @]
     /\ early' = IF att[ctrl].how = "open" /\ ~att[ctrl].fetching
                   THEN early \cup {ctrl} ELSE early

\* handleCancelCreation; the button is there while isLoading.
Cancel ==
  /\ mounted /\ loading
  /\ cancels < MaxCancels /\ cancels' = cancels + 1
  /\ Abort
  /\ loading' = FALSE /\ creating' = FALSE
  /\ UNCHANGED <<mounted, ctrl, job, shown, faults>>

\* The user goes back.
Unmount ==
  /\ mounted
  /\ mounted' = FALSE
  /\ Abort
  /\ UNCHANGED <<loading, creating, ctrl, job, shown, counts>>
-----------------------------------------------------------------------------
\* The server, as the client sees it.

\* createAsync: the job is created and its run started at once.
Arrive(a) ==
  /\ job[a] = "asked"
  /\ job' = [job EXCEPT ![a] = "processing"]
  /\ UNCHANGED <<screen, att, delete, history, counts>>

\* The run ends.  One that is cancelled while it commits still becomes completed.
Finish(a) ==
  /\ \/ job[a] = "processing" /\ \E s \in {"completed", "error"} :
                                    job' = [job EXCEPT ![a] = s]
     \/ job[a] = "cancelled" /\ job' = [job EXCEPT ![a] = "completed"]
  /\ UNCHANGED <<screen, att, delete, history, counts>>

\* getJob.
Serve(a) ==
  /\ att[a].open > 0
  /\ att' = [att EXCEPT ![a].open = @ - 1, ![a].answers = @ \cup {job[a]}]
  /\ UNCHANGED <<screen, job, delete, history, counts>>

\* cancelJob, or cancelTripJob fails.
DeleteArrives(a) ==
  /\ delete[a] = "out"
  /\ delete' = [delete EXCEPT ![a] = "over"]
  /\ job' = [job EXCEPT ![a] = IF @ = "processing" THEN "cancelled" ELSE @]
  /\ UNCHANGED <<screen, att, history, counts>>

DeleteFails(a) ==
  /\ delete[a] = "out"
  /\ Fault
  /\ delete' = [delete EXCEPT ![a] = "over"]
  /\ UNCHANGED <<screen, att, job, history>>

\* The jobs are in memory.
Restart ==
  /\ Restarts /\ Fault
  /\ job' = [a \in Attempts |-> IF job[a] \in {"none", "asked"} THEN job[a] ELSE "gone"]
  /\ UNCHANGED <<screen, att, delete, history>>
-----------------------------------------------------------------------------
Step(a) ==
  \/ Started(a) \/ Tick(a) \/ PollAnswer(a) \/ Fetched(a)
  \/ Show(a) \/ Report(a) \/ Recover(a) \/ Leave(a)

Trouble(a) ==
  \/ StartFails(a) \/ PollFails(a) \/ PollTimesOut(a) \/ FetchFails(a) \/ NoTrip(a)
  \/ DeleteFails(a)

Server(a) == Arrive(a) \/ Finish(a) \/ Serve(a) \/ DeleteArrives(a)

Next ==
  \/ \E a \in Attempts : Create(a) \/ Step(a) \/ Trouble(a) \/ Server(a)
  \/ Cancel \/ Unmount \/ Restart

Spec == Init /\ [][Next]_vars

\* The app runs its timers and its continuations, and requests that do not fail are
\* answered.  That a run of the server ends is not assumed: maxPolls is there for it.
Fairness ==
  \A a \in Attempts :
    /\ WF_vars(Started(a)) /\ WF_vars(Tick(a)) /\ WF_vars(PollAnswer(a))
    /\ WF_vars(Fetched(a)) /\ WF_vars(Show(a)) /\ WF_vars(Report(a))
    /\ WF_vars(Recover(a)) /\ WF_vars(Leave(a))
    /\ WF_vars(Arrive(a)) /\ WF_vars(Serve(a))

LiveSpec == Spec /\ Fairness
-----------------------------------------------------------------------------
\* The types.
Record ==
  [pc : {"new", "posting", "waiting", "updating", "reporting", "recovering",
         "leaving", "done"},
   how : {"open", "trip", "saved", "cancelled", "error"},
   known : BOOLEAN, aborted : BOOLEAN, ticking : BOOLEAN,
   polls : 0..MaxPolls, open : 0..MaxOpen,
   answers : SUBSET {"processing", "completed", "error", "cancelled", "gone"},
   fetching : BOOLEAN, found : Attempts \cup {NoAttempt}]

TypeOK ==
  /\ mounted \in BOOLEAN /\ loading \in BOOLEAN /\ creating \in BOOLEAN
  /\ ctrl \in Attempts \cup {NoAttempt}
  /\ att \in [Attempts -> Record]
  /\ job \in [Attempts -> {"none", "asked", "processing", "completed", "error",
                           "cancelled", "gone"}]
  /\ delete \in [Attempts -> {"none", "out", "over"}]
  /\ shown \subseteq Attempts \X Attempts /\ early \subseteq Attempts
  /\ cancels \in Nat /\ faults \in Nat

\* The form comes back: once no attempt is under way, neither guard is left set
\* and no controller is left behind, whichever of the many ends the attempts took
\* (the guards are reset in the branches of doCreateTrip, not in its finally).
FormReleased ==
  mounted /\ Active = {} => ~loading /\ ~creating /\ ctrl = NoAttempt

\* Rapid taps alone never start a second creation: each attempt under way beyond
\* the first is paid for by a press of Cancel, which resets the guards.
OverlapNeedsCancel == Cardinality(Active) <= 1 + cancels

\* A creation that was cancelled, or left, before the app knew of its trip never
\* takes the user to a trip later.
EarlyCancelHolds == \A p \in shown : p[1] \notin early

\* Every attempt ends, even when the server never finishes its job (maxPolls), unless
\* a restart has made the server forget the job: a 404 never counts as the last poll.
AttemptEnds ==
  \A a \in Attempts : att[a].pc = "posting" ~> att[a].pc = "done" \/ job[a] = "gone"
-----------------------------------------------------------------------------
\* What comments promise and the code does not keep.

\* An abort tells the server to stop (api.ts:585).
ServerIsTold ==
  \A a \in early : delete[a] = "none" => job[a] \in {"none", "asked"}

\* isCreatingRef guards against duplicate creation (CreateTripScreen.tsx:363).
OneCreation ==
  \A a, b \in Active : a # b => att[a].aborted \/ att[b].aborted

\* Every cancellation reaches the catch clause as one (CreateTripScreen.tsx:620).
CancelIsSeen == \A a \in early : att[a].how \in {"open", "cancelled"}

\* The recovery leads to "the recently created trip" (CreateTripScreen.tsx:655, :669).
RecoveryFindsItsTrip == \A p \in shown : p[1] = p[2]
=============================================================================
