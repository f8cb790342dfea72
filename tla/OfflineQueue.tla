---------------------------- MODULE OfflineQueue ----------------------------
(***************************************************************************)
(* The queue of changes that the app made while the server was out of      *)
(* reach (services/offlineMutationQueue.ts) and the hook that sends them    *)
(* later (hooks/useOfflineSync.ts).                                        *)
(*                                                                         *)
(* What the code promises hangs on the identity of JavaScript objects: the *)
(* array that flush walks with for..of is the array enqueue pushes onto,   *)
(* and a mutation that stays queued is the object whose retryCount is      *)
(* counted.  So arrays and objects live on a heap here: an array is a name *)
(* in Arrays whose elements are positions in the sequence object.          *)
(* Everything between two awaits is one step.                              *)
(***************************************************************************)
EXTENDS Integers, Sequences, FiniteSets

CONSTANTS
  Flushes,       \* calls of syncNow that may be active at once
  Callers,       \* API calls that enqueue what they could not send
  Arrays,        \* names of JavaScript arrays; enough for those reachable
  NoArray,       \* cachedQueue = null
  MaxRetries,    \* the maxRetries of every enqueue in services/api.ts
  MaxMutations, MaxFaults, MaxRestarts   \* bounds

ASSUME NamesAssumption == NoArray \notin Arrays
ASSUME ArraysAssumption ==
  /\ IsFiniteSet(Flushes) /\ IsFiniteSet(Arrays)
  /\ Cardinality(Arrays) > Cardinality(Flushes) + 1
ASSUME BoundsAssumption ==
  /\ MaxRetries \in Nat \ {0}
  /\ MaxMutations \in Nat /\ MaxFaults \in Nat /\ MaxRestarts \in Nat

VARIABLES
  array,      \* the arrays of the app
  object,     \* the mutations of the app, each an id and its retryCount
  cached,     \* cachedQueue
  disk,       \* the JSON under QUEUE_KEY
  flush,      \* the calls of syncNow
  caller,     \* the calls of enqueue
  count,      \* history: the mutations accepted so far, by enqueue, are 1..count
  applied,    \* history: how often the server applied each of them
  failures,   \* history: how often the sending of each failed
  settled,    \* history: answered, or given up
  abandoned,  \* history: given up
  excused,    \* history: dropped when calls overlapped, or by a storage error
  unsure,     \* history: a repeated request cannot be blamed on the queue
  overlapped, \* history: two calls have worked on the queue at once
  faults, restarts   \* counted for the bounds only

appVars == <<array, object, cached, flush, caller>>
history == <<count, applied, failures, settled, abandoned, excused, unsure,
             overlapped>>
vars == <<appVars, disk, history, faults, restarts>>

Ids     == 1..MaxMutations
NoCall  == [pc |-> "idle", raw |-> <<>>]
NoFlush == [pc |-> "idle", raw |-> <<>>, arr |-> NoArray, pos |-> 1,
            rest |-> <<>>, server |-> "none"]

\* The mutations an array holds, given the heap of objects.
IdsIn(objs, seq) == {objs[seq[i]].id : i \in DOMAIN seq}
IdsOf(entries)   == {entries[i].id : i \in DOMAIN entries}
Queue            == IF cached = NoArray THEN <<>> ELSE array[cached]

\* An array nobody holds, and the arrays when the holders are these.
New == CHOOSE a \in Arrays : a # cached /\ \A f \in Flushes : a # flush[f].arr
Collected(arrays, cache, calls) ==
  [a \in Arrays |-> IF a = cache \/ \E f \in Flushes : calls[f].arr = a
                    THEN arrays[a] ELSE <<>>]

Faults(n) == faults + n <= MaxFaults /\ faults' = faults + n

Init ==
  /\ array = [a \in Arrays |-> <<>>] /\ object = <<>> /\ cached = NoArray
  /\ disk = <<>>
  /\ flush = [f \in Flushes |-> NoFlush] /\ caller = [c \in Callers |-> NoCall]
  /\ count = 0
  /\ applied = [m \in Ids |-> 0] /\ failures = [m \in Ids |-> 0]
  /\ settled = {} /\ abandoned = {} /\ excused = {} /\ unsure = {}
  /\ overlapped = FALSE /\ faults = 0 /\ restarts = 0
-----------------------------------------------------------------------------
\* loadQueue when nothing is cached: each call reads the storage and makes an
\* array of its own of the answer.

Parsed(raw) == [i \in DOMAIN raw |-> Len(object) + i]

\* What the cache held and the array that takes its place does not.
Dropped(kept) == IdsIn(object, Queue) \ kept

\* saveQueue: the array is the cache from now on and its JSON goes to the
\* storage; a storage that is full is ignored.  n failures came before it.
Save(objs, a, seq, n) ==
  /\ cached' = a
  /\ \/ disk' = [i \in DOMAIN seq |-> objs[seq[i]]] /\ Faults(n)
     \/ UNCHANGED disk /\ Faults(n + 1)
-----------------------------------------------------------------------------
\* enqueue, called by updateTrip, addActivity and updateActivity of api.ts
\* when they get no answer from the server.

\* The new entry goes to the end of the array a with the elements seq; n errors of
\* the storage came before it, and took the mutations lost.
Push(objs, a, seq, n, lost) ==
  LET m    == count + 1
      more == Append(seq, Len(objs) + 1)
      all  == Append(objs, [id |-> m, retryCount |-> 0])
  IN  /\ object' = all /\ array' = [array EXCEPT ![a] = more]
      /\ Save(all, a, more, n)
      /\ count' = m
      /\ excused' = excused \cup lost \cup Dropped(IdsIn(all, more))
                            \cup (IF disk' = disk THEN IdsIn(all, more) \ IdsOf(disk) ELSE {})

\* With a cached queue nothing comes between: the entry is pushed onto the
\* array that a flush may be walking.
Enqueue(c) ==
  /\ caller[c].pc = "idle" /\ cached # NoArray /\ count < MaxMutations
  /\ Push(object, cached, Queue, 0, {})
  /\ UNCHANGED <<flush, caller, applied, failures, settled, abandoned, unsure,
                 overlapped, restarts>>

EnqueueReads(c) ==
  /\ caller[c].pc = "idle" /\ cached = NoArray /\ count < MaxMutations
  /\ caller' = [caller EXCEPT ![c] = [pc |-> "read", raw |-> disk]]
  /\ UNCHANGED <<array, object, cached, flush, disk, history, faults, restarts>>

\* loadQueue made an array of the entries raw.
EnqueueGoesOn(c, raw, n, lost) ==
  /\ caller[c].pc = "read" /\ count < MaxMutations
  /\ Push(object \o raw, New, Parsed(raw), n, lost)
  /\ caller' = [caller EXCEPT ![c] = NoCall]
  /\ overlapped' = (overlapped \/ cached # NoArray)
  /\ UNCHANGED <<flush, applied, failures, settled, abandoned, unsure, restarts>>

EnqueueLoaded(c) == EnqueueGoesOn(c, caller[c].raw, 0, {})

\* The storage did not answer: the new entry is all there is, and is written over
\* what is stored.
EnqueueLoadFails(c) == EnqueueGoesOn(c, <<>>, 1, IdsOf(disk))
-----------------------------------------------------------------------------
\* syncNow and flush.  Between an answer and the next request, or the end of
\* the walk, there is no await.

\* The call walks the array a, whose elements are seq, from the start.
Walk(f, a, seq) ==
  /\ flush' = [flush EXCEPT ![f] = IF seq = <<>> THEN NoFlush
                                   ELSE [NoFlush EXCEPT !.pc = "send", !.arr = a]]
  /\ overlapped' = (\/ overlapped
                    \/ seq # <<>> /\ \E g \in Flushes : flush[g].pc = "send"
                    \/ a # cached /\ cached # NoArray)

\* Slip: flush walks a copy of the queue.
StartSyncOnCopy(f) ==
  /\ flush[f].pc = "idle" /\ cached # NoArray /\ Queue # <<>>
  /\ array' = [array EXCEPT ![New] = Queue]
  /\ flush' = [flush EXCEPT ![f] = [NoFlush EXCEPT !.pc = "send", !.arr = New]]
  /\ overlapped' = (overlapped \/ \E g \in Flushes : flush[g].pc = "send")
  /\ UNCHANGED <<object, cached, caller, disk, count, applied, failures,
                 settled, abandoned, excused, unsure, faults, restarts>>

\* The server was reached: an empty queue ends the call.
StartSync(f) ==
  /\ flush[f].pc = "idle" /\ cached # NoArray /\ Queue # <<>>
  /\ Walk(f, cached, Queue)
  /\ UNCHANGED <<array, object, cached, caller, disk, count, applied, failures,
                 settled, abandoned, excused, unsure, faults, restarts>>

SyncReads(f) ==
  /\ flush[f].pc = "idle" /\ cached = NoArray
  /\ flush' = [flush EXCEPT ![f] = [NoFlush EXCEPT !.pc = "read", !.raw = disk]]
  /\ UNCHANGED <<array, object, cached, caller, disk, history, faults, restarts>>

SyncLoaded(f) ==
  /\ flush[f].pc = "read"
  /\ object' = object \o flush[f].raw
  /\ array' = [array EXCEPT ![New] = Parsed(flush[f].raw)]
  /\ cached' = New
  /\ Walk(f, New, Parsed(flush[f].raw))
  /\ excused' = excused \cup Dropped(IdsOf(flush[f].raw))
  /\ UNCHANGED <<caller, disk, count, applied, failures, settled, abandoned, unsure,
                 faults, restarts>>

\* The storage did not answer: the queue is taken to be empty.
SyncLoadFails(f) ==
  /\ flush[f].pc = "read" /\ Faults(1)
  /\ array' = [array EXCEPT ![New] = <<>>] /\ cached' = New
  /\ Walk(f, New, <<>>)
  /\ excused' = excused \cup Dropped({}) \cup IdsOf(disk)
  /\ UNCHANGED <<object, caller, disk, count, applied, failures, settled, abandoned,
                 unsure, restarts>>

\* The object the call has sent.
Here(f) == array[flush[f].arr][flush[f].pos]

\* The server (external) applies a mutation, or it refuses it: for good, or
\* with a 401 because the access token that executeMutation read has expired.
Handle(f) ==
  LET m == object[Here(f)].id
  IN  /\ flush[f].pc = "send" /\ flush[f].server = "none"
      /\ \/ /\ flush' = [flush EXCEPT ![f].server = "applied"]
            /\ applied' = [applied EXCEPT ![m] = @ + 1]
         \/ /\ flush' = [flush EXCEPT ![f].server = "refused"]
            /\ UNCHANGED applied
      /\ UNCHANGED <<array, object, cached, caller, disk, count, failures, settled,
                     abandoned, excused, unsure, overlapped, faults, restarts>>

Onward(call, rest) ==
  [call EXCEPT !.pos = @ + 1, !.rest = rest, !.server = "none"]

\* On to the next one, which may have been pushed meanwhile; at the end, what
\* is left becomes the queue.
Proceed(f, objs, rest, n) ==
  LET last  == flush[f].pos = Len(array[flush[f].arr])
      calls == [flush EXCEPT ![f] = IF last THEN NoFlush ELSE Onward(@, rest)]
  IN  /\ flush' = calls
      /\ IF last
         THEN /\ Save(objs, New, rest, n)
              /\ array' = Collected([array EXCEPT ![New] = rest], New, calls)
              /\ excused' = excused
                   \cup (IF overlapped THEN Dropped(IdsIn(objs, rest)) ELSE {})
         ELSE Faults(n) /\ UNCHANGED <<array, cached, disk, excused>>

\* Slip: what succeeded stays queued.
AnsweredStays(f) ==
  /\ flush[f].pc = "send" /\ flush[f].server # "none"
  /\ Proceed(f, object, Append(flush[f].rest, Here(f)), 0)
  /\ settled' = settled \cup {object[Here(f)].id}
  /\ UNCHANGED <<object, caller, count, applied, failures, abandoned, unsure,
                 overlapped, restarts>>

\* A 2xx or a 4xx, a 401 among them: the mutation is done with.
Answered(f) ==
  /\ flush[f].pc = "send" /\ flush[f].server # "none"
  /\ Proceed(f, object, flush[f].rest, 0)
  /\ settled' = settled \cup {object[Here(f)].id}
  /\ UNCHANGED <<object, caller, count, applied, failures, abandoned, unsure,
                 overlapped, restarts>>

\* Slip: the failure is counted twice.
TriesLeftTwice(entry) == entry.retryCount + 1 < MaxRetries

\* The failure just counted was not the last one allowed.
TriesLeft(entry) == entry.retryCount < MaxRetries

\* A 5xx, a timeout or no network, perhaps after the server applied it.
Failed(f) ==
  LET o     == Here(f)
      m     == object[o].id
      objs  == [object EXCEPT ![o].retryCount = @ + 1]
      again == TriesLeft(objs[o])
  IN  /\ flush[f].pc = "send"
      /\ object' = objs
      /\ Proceed(f, objs, IF again THEN Append(flush[f].rest, o) ELSE flush[f].rest, 1)
      /\ failures' = [failures EXCEPT ![m] = @ + 1]
      /\ settled' = IF again THEN settled ELSE settled \cup {m}
      /\ abandoned' = IF again THEN abandoned ELSE abandoned \cup {m}
      /\ unsure' = IF flush[f].server = "applied" THEN unsure \cup {m} ELSE unsure
      /\ UNCHANGED <<caller, count, applied, overlapped, restarts>>
-----------------------------------------------------------------------------
\* The app is killed and opened again: only the storage is left.
Restart ==
  /\ restarts < MaxRestarts /\ restarts' = restarts + 1
  /\ array' = [a \in Arrays |-> <<>>] /\ object' = <<>> /\ cached' = NoArray
  /\ flush' = [f \in Flushes |-> NoFlush] /\ caller' = [c \in Callers |-> NoCall]
  /\ unsure' = unsure \cup {m \in IdsOf(disk) : applied[m] > 0}
  /\ UNCHANGED <<disk, count, applied, failures, settled, abandoned, excused,
                 overlapped, faults>>

Step(f) == StartSync(f) \/ SyncReads(f) \/ SyncLoaded(f) \/ Handle(f) \/ Answered(f)

Next ==
  \/ \E c \in Callers : Enqueue(c) \/ EnqueueReads(c) \/ EnqueueLoaded(c) \/ EnqueueLoadFails(c)
  \/ \E f \in Flushes : Step(f) \/ SyncLoadFails(f) \/ Failed(f)
  \/ Restart

Spec == Init /\ [][Next]_vars
-----------------------------------------------------------------------------
Accepted == 1..count

TypeOK ==
  /\ object \in Seq([id : Accepted, retryCount : Nat])
  /\ array \in [Arrays -> Seq(1..Len(object))]
  /\ cached \in Arrays \cup {NoArray}
  /\ \A f \in Flushes :
       /\ flush[f].pc \in {"idle", "read", "send"}
       /\ flush[f].arr \in Arrays \cup {NoArray}
       /\ flush[f].server \in {"none", "applied", "refused"}
       /\ flush[f].pc = "send" => flush[f].pos \in DOMAIN array[flush[f].arr]
  /\ \A c \in Callers : caller[c].pc \in {"idle", "read"}
  /\ settled \cup excused \cup unsure \subseteq Accepted

\* A mutation that enqueue accepted is in the queue, in memory and in the
\* storage, until the server has answered it or it has failed too often, and
\* a restart does not lose it either: also one that is enqueued while flush
\* waits for the server.  Only a storage error or a call that saves an array
\* that is no longer cached drops one.
Kept ==
  \A m \in Accepted \ (settled \cup excused) :
    m \in IdsOf(disk) /\ (cached # NoArray => m \in IdsIn(object, Queue))

\* As long as one flush works on the queue at a time, the server applies a
\* mutation twice only if its answer was lost or the app was killed in between.
SentOnce == ~overlapped => \A m \in Ids : applied[m] > 1 => m \in unsure

\* A mutation is given up after MaxRetries failures and not before, whatever
\* calls and restarts come between; and one run of the app whose flushes do not
\* overlap does not try it more often.
GivenUpInTime ==
  /\ \A m \in abandoned : failures[m] >= MaxRetries
  /\ ~overlapped /\ restarts = 0 => \A m \in Ids : failures[m] <= MaxRetries
=============================================================================
