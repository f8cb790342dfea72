---------------------------- MODULE TripDocument ----------------------------
(***************************************************************************)
(* What editing a trip promises: the trip, the activities of its day and   *)
(* the roles of its collaborators are one document, and each request       *)
(* changes the one thing it is about, at once.  While two requests clash   *)
(* (one is about to write what it read before another one wrote) nothing   *)
(* is promised.                                                            *)
(***************************************************************************)
EXTENDS Integers, Sequences

CONSTANTS Others, None, Start
VARIABLES trip, day, role, now, clash

vars == <<trip, day, role, now>>

Ids(d) == {d[i].id : i \in DOMAIN d}
Shuffled(d, e) ==
  /\ Len(d) = Len(e)
  /\ {d[i] : i \in DOMAIN d} = {e[i] : i \in DOMAIN e}
InOrder(d) == \A i, j \in DOMAIN d : i < j => d[i].time <= d[j].time
\* d with the activities that are past at some time until now marked as done.
Aged(d, e) ==
  \/ d = e
  \/ /\ d # None /\ e # None /\ DOMAIN d = DOMAIN e
     /\ \A i \in DOMAIN d :
          \/ e[i] = d[i]
          \/ 2 * Start + d[i].time < now /\ e[i] = [d[i] EXCEPT !.completed = TRUE]

Init == trip # None /\ \A u \in Others : role[u] \in {"none", "editor"}

Change ==
  /\ \E field \in {"text", "end", "status"} :
       \E value \in {trip'[field]} : trip' = [trip EXCEPT ![field] = value]
  /\ Aged(day, day')
  /\ UNCHANGED role

Share == /\ trip' = [trip EXCEPT !.link = trip'.link, !.isPublic = trip'.link # 0]
         /\ trip'.link # 0 => trip'.link # trip.link
         /\ UNCHANGED <<day, role>>

Add == \E a \in {day'[i] : i \in DOMAIN day'} :
         /\ a.id \notin Ids(day)
         /\ Shuffled(Append(day, a), day') /\ InOrder(day')

Alter == \E i \in DOMAIN day, a \in {day'[j] : j \in DOMAIN day'} :
           /\ a.id = day[i].id
           /\ Shuffled([day EXCEPT ![i] = a], day') /\ InOrder(day')

Drop == \E i \in DOMAIN day : day' = SubSeq(day, 1, i - 1) \o SubSeq(day, i + 1, Len(day))

Replace == Ids(day') \cap Ids(day) = {}

Plan == /\ day # None /\ day' # None
        /\ (Add \/ Alter \/ Drop \/ Shuffled(day, day') \/ Replace)
        /\ UNCHANGED <<trip, role>>

Member == /\ \E u \in Others : role' = [role EXCEPT ![u] = role'[u]]
          /\ UNCHANGED <<trip, day>>

Remove == trip' = None /\ day' = None /\ role' = [u \in Others |-> "none"]

Step == \/ trip # None /\ trip' # None /\ (Change \/ Share)
        \/ trip # None /\ Plan
        \/ trip # None /\ (Member \/ Remove)
        \/ clash
        \/ UNCHANGED <<trip, day, role>>

\* Only the clock moves on its own.
Next == Step /\ now' \in {now, now + 1}

Spec == Init /\ [][Next]_vars
=============================================================================
