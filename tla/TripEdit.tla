------------------------------ MODULE TripEdit ------------------------------
(***************************************************************************)
(* One trip that its owner and the people invited to it edit, share and    *)
(* look at while the clock and the daily job move its status               *)
(* (trips/trips.service.ts, trips/trip-status.scheduler.ts).               *)
(*                                                                         *)
(* No handler runs in a transaction: it reads the rows, checks, and saves  *)
(* the entities it read.  TypeORM's save writes every column that differs  *)
(* from the row of that moment, also those the handler did not mean to     *)
(* change, follows the relation itineraries if it was loaded, and inserts  *)
(* again what has been deleted meanwhile.                                  *)
(*                                                                         *)
(* The clock counts half days: a day has a morning (time 0) and an         *)
(* afternoon (time 1).  The trip has one itinerary, for its first day.     *)
(***************************************************************************)
EXTENDS Integers, Sequences, FiniteSets

CONSTANTS
  Owner, Others,   \* trip.userId, and the other users
  Editors,         \* those of them who are editors at the beginning
  None,            \* no row, or no value
  Requests,        \* requests, and runs of the daily job, at work at once
  Start, Ends,     \* the day the trip starts, and ends at first; days it may be moved to end
  Orders, Edits,   \* the orders, and the changes of an activity, that clients ask for
  MaxNow, MaxOps   \* bounds

Users == {Owner} \cup Others

ASSUME NamesAssumption == Owner \notin Others /\ Editors \subseteq Others
ASSUME DatesAssumption == Start \in Nat \ {0} /\ Ends \subseteq Nat /\ Ends # {}
ASSUME BoundsAssumption == MaxNow \in Nat /\ MaxOps \in Nat

VARIABLES
  trip,     \* the row of the trip
  day,      \* the activities column of its itinerary
  role,     \* the rows of collaborators
  now,      \* the clock
  req,      \* the requests at work
  ops       \* requests so far, which also names what they write

vars == <<trip, day, role, now, req, ops>>

Times     == {0, 1}
Activity  == [id : Nat, time : Times, completed : BOOLEAN]
Trip      == [text : Nat, end : Nat, status : {"upcoming", "ongoing", "completed"},
              link : Nat, isPublic : BOOLEAN]
Today     == now \div 2

\* calculateTripStatus.
StatusOf(t) == IF Today > t.end THEN "completed"
               ELSE IF Today >= Start THEN "ongoing" ELSE "upcoming"
\* isActivityInPast, and what isActivityCompleted shows as done.
InPast(a)  == 2 * Start + a.time < now
Shown(d)   == IF d = None THEN None
              ELSE [i \in DOMAIN d |-> [d[i] EXCEPT !.completed = @ \/ InPast(d[i])]]

\* Slip: the activities are left in the order of the requests.
Unsorted(d) == d

\* The sort of addActivity and updateActivity: by time, else as it was.
Sorted(d) == LET At(t) == SelectSeq(d, LAMBDA a : a.time = t) IN At(0) \o At(1)
Without(d, i) == SubSeq(d, 1, i - 1) \o SubSeq(d, i + 1, Len(d))

Idle == [pc |-> "idle", op |-> "view", by |-> Owner, arg |-> None, trip |-> None,
         day |-> None, old |-> {}, over |-> FALSE, may |-> FALSE]

Planned(id, t) == [id |-> id, time |-> t, completed |-> FALSE]

Init ==
  /\ trip = [text |-> 0, end |-> Start, status |-> "upcoming", link |-> 0, isPublic |-> FALSE]
  /\ day = <<Planned(MaxOps + 1, 0), Planned(MaxOps + 2, 1)>>
  /\ role = [u \in Others |-> IF u \in Editors THEN "editor" ELSE "none"]
  /\ now = 2 * Start - 1
  /\ req = [r \in Requests |-> Idle]
  /\ ops = 0
-----------------------------------------------------------------------------
\* Reading the trip.

RoleOf(u) == IF u = Owner THEN "owner" ELSE role[u]
Writer(u) == RoleOf(u) \in {"owner", "editor"}
CanSee(u) == trip # None /\ (RoleOf(u) # "none" \/ trip.isPublic)

\* The request goes on at pc with what the rows hold now, the status set to
\* the one that is due; if it was another, it is saved first.
Reads(r, op, by, arg, pc) ==
  req' = [req EXCEPT ![r] =
    [pc |-> IF trip.status = StatusOf(trip) THEN pc ELSE "fix", op |-> op, by |-> by,
     arg |-> arg, trip |-> [trip EXCEPT !.status = StatusOf(trip)], day |-> day,
     old |-> {}, over |-> Today > trip.end, may |-> FALSE]]

Refuse(r) == req' = [req EXCEPT ![r] = Idle]
\* The step of r that writes these rows: what the others have read is old now.
Writes(r, rows, next) ==
  req' = [q \in Requests |-> IF q = r THEN next
            ELSE IF req[q].pc = "idle" THEN Idle ELSE [req[q] EXCEPT !.old = @ \cup rows]]

NewRequest == ops < MaxOps /\ ops' = ops + 1

\* findOne, the start of every request below.
Open(r, op, by, arg) ==
  /\ req[r].pc = "idle" /\ CanSee(by) /\ NewRequest
  /\ Reads(r, op, by, arg, IF op = "view" THEN "idle" ELSE "check")
  /\ UNCHANGED <<trip, day, role, now>>

\* Slip: an upcoming trip only ever becomes ongoing, as in updateTripStatus.
DailyJobInTurn(r) ==
  /\ req[r].pc = "idle" /\ trip # None /\ trip.status # StatusOf(trip)
  /\ <<trip.status, StatusOf(trip)>> # <<"upcoming", "completed">>
  /\ \A q \in Requests : req[q].pc = "fix" => req[q].op # "job"
  /\ Reads(r, "job", Owner, None, "idle")
  /\ UNCHANGED <<trip, day, role, now, ops>>

\* handleTripStatusUpdate, which loads every trip before it saves the first.
DailyJob(r) ==
  /\ req[r].pc = "idle" /\ trip # None /\ trip.status # StatusOf(trip)
  /\ \A q \in Requests : req[q].pc = "fix" => req[q].op # "job"
  /\ Reads(r, "job", Owner, None, "idle")
  /\ UNCHANGED <<trip, day, role, now, ops>>

\* The new status is saved, with the rest of the trip as it was read.
SaveStatus(r) ==
  /\ req[r].pc = "fix"
  /\ trip' = req[r].trip /\ day' = req[r].day
  /\ Writes(r, {"trip", "day"},
            IF req[r].op \in {"view", "job"} THEN Idle ELSE [req[r] EXCEPT !.pc = "check", !.old = {}])
  /\ UNCHANGED <<role, now, ops>>

\* Slip: a completed trip is not refused.
CheckRoleOnly(r) ==
  LET q == req[r]
  IN  /\ q.pc = "check"
      /\ IF IF q.op = "remove" THEN q.by = Owner ELSE Writer(q.by)
         THEN req' = [req EXCEPT ![r].pc = IF q.op \in {"remove", "update"} THEN "save" ELSE "load",
                                 ![r].day = Shown(@),
                                 ![r].may = Writer(q.by) /\ (q.over => q.op = "remove")]
         ELSE Refuse(r)
      /\ UNCHANGED <<trip, day, role, now, ops>>

\* canWriteTrip and canModifyTrip; remove is for the owner only.
Check(r) ==
  LET q == req[r]
  IN  /\ q.pc = "check"
      /\ IF /\ IF q.op = "remove" THEN q.by = Owner ELSE Writer(q.by)
            /\ q.op # "remove" => q.trip.status # "completed"
         THEN req' = [req EXCEPT ![r].pc = IF q.op \in {"remove", "update"} THEN "save" ELSE "load",
                                 ![r].day = Shown(@), ![r].may = Writer(q.by) /\ (q.over => q.op = "remove")]
         ELSE Refuse(r)
      /\ UNCHANGED <<trip, day, role, now, ops>>
-----------------------------------------------------------------------------
\* The activities of the day.

\* An order names every index once.
ValidOrder(order, d) == Len(order) = Len(d) /\ {order[i] : i \in DOMAIN order} = DOMAIN d

\* What a request makes of the day d, or None when it is refused.
Edited(q, d) ==
  CASE q.op = "add" ->
         IF q.trip.status = "ongoing" /\ Start < Today THEN None
         ELSE Sorted(Append(d, q.arg))
    [] q.op = "edit" ->
         IF q.arg.index \notin DOMAIN d THEN None
         ELSE IF q.trip.status = "ongoing" /\ InPast(d[q.arg.index]) /\ q.arg.field # "completed"
              THEN None
         ELSE Sorted([d EXCEPT ![q.arg.index][q.arg.field] = q.arg.value])
    [] q.op = "delete" ->
         IF q.arg \notin DOMAIN d THEN None
         ELSE IF q.trip.status = "ongoing" /\ InPast(d[q.arg]) THEN None
         ELSE Without(d, q.arg)
    [] q.op = "reorder" ->
         IF ValidOrder(q.arg, d) THEN [i \in DOMAIN d |-> d[q.arg[i]]] ELSE None
    [] q.op = "write" -> q.arg

\* addActivity, updateActivity, deleteActivity, reorderActivities and
\* updateItinerary: the itinerary is read ...
LoadDay(r) ==
  LET new == Edited(req[r], day)
  IN  /\ req[r].pc = "load"
      /\ IF day = None \/ new = None THEN Refuse(r)
         ELSE req' = [req EXCEPT ![r].pc = "save", ![r].day = new, ![r].old = @ \ {"day"}]
      /\ UNCHANGED <<trip, day, role, now, ops>>

\* ... and saved; without a trip the foreign key refuses it.
SaveDay(r) ==
  /\ req[r].pc = "save" /\ req[r].op \notin {"update", "remove"}
  /\ day' = IF trip = None THEN day ELSE req[r].day
  /\ Writes(r, {"day"}, Idle)
  /\ UNCHANGED <<trip, role, now, ops>>
-----------------------------------------------------------------------------
\* The trip itself.

\* update saves the fields of the request with the trip it read, and the
\* itineraries as findOne showed them, then reads the trip once more.
SaveTrip(r) ==
  /\ req[r].pc = "save" /\ req[r].op = "update"
  /\ trip' = [req[r].trip EXCEPT ![req[r].arg.field] = req[r].arg.value]
  /\ day' = req[r].day
  /\ Writes(r, {"trip", "day"}, [req[r] EXCEPT !.pc = "reread", !.old = {}])
  /\ UNCHANGED <<role, now, ops>>

Reread(r) ==
  /\ req[r].pc = "reread"
  /\ IF CanSee(req[r].by) THEN Reads(r, "view", req[r].by, None, "idle") ELSE Refuse(r)
  /\ UNCHANGED <<trip, day, role, now, ops>>

\* The rows that refer to the trip go with it.
Remove(r) ==
  /\ req[r].pc = "save" /\ req[r].op = "remove"
  /\ trip' = None /\ day' = None /\ role' = [u \in Others |-> "none"]
  /\ Writes(r, {"trip", "day", "role"}, Idle)
  /\ UNCHANGED <<now, ops>>
-----------------------------------------------------------------------------
\* Sharing.

\* generateShareToken reads the trip without its itineraries ...
StartShare(r) ==
  /\ req[r].pc = "idle" /\ trip # None /\ NewRequest
  /\ req' = [req EXCEPT ![r] = [Idle EXCEPT !.pc = "share", !.trip = trip, !.arg = ops']]
  /\ UNCHANGED <<trip, day, role, now>>

\* ... and saves it with the new link.
Share(r) ==
  /\ req[r].pc = "share"
  /\ trip' = [req[r].trip EXCEPT !.link = req[r].arg, !.isPublic = TRUE]
  /\ Writes(r, {"trip"}, Idle)
  /\ UNCHANGED <<day, role, now, ops>>

\* disableSharing updates the three columns only.
DisableSharing ==
  /\ trip # None /\ NewRequest
  /\ trip' = [trip EXCEPT !.link = 0, !.isPublic = FALSE]
  /\ \E r \in Requests : req[r].pc = "idle" /\ Writes(r, {"trip"}, Idle)
  /\ UNCHANGED <<day, role, now>>
-----------------------------------------------------------------------------
\* Collaborators.

\* The trip and the row of the user are read, by a request of the owner.
StartMember(r, u, to) ==
  /\ req[r].pc = "idle" /\ trip # None /\ NewRequest
  /\ req' = [req EXCEPT ![r] = [Idle EXCEPT !.pc = "member", !.by = u,
                                            !.arg = [had |-> role[u], to |-> to]]]
  /\ UNCHANGED <<trip, day, role, now>>

\* addCollaborator changes the role of who is one already; updateCollaboratorRole
\* and removeCollaborator need a row.
Invite(r, u, to)     == to # "none" /\ StartMember(r, u, to)
ChangeRole(r, u, to) == to # "none" /\ role[u] # "none" /\ StartMember(r, u, to)
Expel(r, u)          == role[u] # "none" /\ StartMember(r, u, "none")

\* A row that another request inserted meanwhile makes an insert fail; a row
\* that was removed is inserted again.
SaveMember(r) ==
  LET u == req[r].by  to == req[r].arg.to
  IN  /\ req[r].pc = "member"
      /\ IF \/ to # "none" /\ req[r].arg.had = "none" /\ role[u] # "none"
            \/ to # "none" /\ trip = None
         THEN UNCHANGED role /\ Refuse(r)
         ELSE role' = [role EXCEPT ![u] = to] /\ Writes(r, {"role"}, Idle)
      /\ UNCHANGED <<trip, day, now, ops>>

LeaveTrip(u) ==
  /\ role[u] # "none" /\ NewRequest
  /\ role' = [role EXCEPT ![u] = "none"]
  /\ \E r \in Requests : req[r].pc = "idle" /\ Writes(r, {"role"}, Idle)
  /\ UNCHANGED <<trip, day, now>>
-----------------------------------------------------------------------------
Tick == now < MaxNow /\ now' = now + 1 /\ UNCHANGED <<trip, day, role, req, ops>>

Fields == [field : {"text"}, value : {ops + 1}] \cup [field : {"end"}, value : Ends]
          \cup [field : {"status"}, value : {"completed"}]

\* The requests of the clients.
Request(r, u) ==
  \/ Open(r, "view", u, None)
  \/ \E f \in Fields : Open(r, "update", u, f)
  \/ Open(r, "remove", u, None)
  \/ Open(r, "add", u, Planned(ops + 1, 0))
  \/ \E e \in Edits : Open(r, "edit", u, e)
  \/ \E i \in 1..2 : Open(r, "delete", u, i)
  \/ \E order \in Orders : Open(r, "reorder", u, order)
  \/ Open(r, "write", u, <<Planned(ops + 1, 0)>>)

Step(r) == \/ SaveStatus(r) \/ Check(r) \/ LoadDay(r) \/ SaveDay(r) \/ SaveTrip(r)
           \/ Reread(r) \/ Remove(r) \/ Share(r) \/ SaveMember(r)

Next ==
  \/ \E r \in Requests : Step(r) \/ DailyJob(r) \/ StartShare(r)
  \/ \E r \in Requests, u \in Users : Request(r, u)
  \/ \E r \in Requests, u \in Others :
       Expel(r, u) \/ \E to \in {"viewer", "editor"} : Invite(r, u, to) \/ ChangeRole(r, u, to)
  \/ DisableSharing
  \/ \E u \in Others : LeaveTrip(u)
  \/ Tick

Spec == Init /\ [][Next]_vars

\* Handlers end, the job runs every day, and days pass.
FairSpec == Spec /\ WF_vars(Tick) /\ \A r \in Requests : WF_vars(Step(r)) /\ WF_vars(DailyJob(r))
-----------------------------------------------------------------------------
TypeOK ==
  /\ trip \in Trip \cup {None}
  /\ day \in Seq(Activity) \cup {None}
  /\ role \in [Others -> {"none", "viewer", "editor"}]
  /\ now \in 0..MaxNow
  /\ \A r \in Requests :
       /\ req[r].pc \in {"idle", "fix", "check", "load", "save", "reread", "share", "member"}
       /\ req[r].by \in Users
       /\ req[r].trip \in Trip \cup {None} /\ req[r].day \in Seq(Activity) \cup {None}
       /\ req[r].old \subseteq {"trip", "day", "role"}
  /\ ops \in 0..MaxOps

\* r is about to save rows that have been written since it read them.
Stale(r) ==
  req[r].old \cap (CASE req[r].pc = "fix" -> {"trip", "day"}
                     [] req[r].pc = "save" /\ req[r].op = "update" -> {"trip", "day"}
                     [] req[r].pc = "save" /\ req[r].op # "remove" -> {"day"}
                     [] req[r].pc = "share" -> {"trip"}
                     [] req[r].pc = "member" -> {"role"}
                     [] OTHER -> {}) # {}

\* Every change of the text, the dates or the activities is made by a request
\* of the owner or an editor that began before the trip was over, though the
\* daily job may not have run since, or removes the trip; else it can only be
\* the return of an older value.
Content == IF trip = None THEN None
           ELSE <<trip.text, trip.end, IF day = None THEN None ELSE [i \in DOMAIN day |-> day[i].id]>>

RightfulChange ==
  [][Content' # Content => \E r \in Requests :
       /\ req'[r] # req[r]
       /\ \/ req[r].pc = "save" /\ req[r].may
          \/ Stale(r)]_vars

\* Requests that do not overlap act on one document; one that does may lose
\* what the other wrote, and nothing else can.
Document == INSTANCE TripDocument WITH clash <- \E r \in Requests : Stale(r)
ActsOnDocument == Document!Spec

\* In the end the stored status is the one that the dates call for.
StatusSettles == <>[](trip # None => trip.status = StatusOf(trip))
=============================================================================
