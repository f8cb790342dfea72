--------------------------- MODULE OfflineQueueProofs ---------------------------
(***************************************************************************)
(* Proofs about OfflineQueue, for any flushes, callers, retries and bounds *)
(* as long as there are enough names of arrays: nothing that was accepted  *)
(* is dropped, a mutation is sent twice only when that cannot be known to  *)
(* be a repetition, and none is given up early.                            *)
(***************************************************************************)
EXTENDS OfflineQueue, SequenceTheorems, FiniteSetTheorems, TLAPS

\* A call of flush waits for the server.
Sending(f) == flush[f].pc = "send"

\* The types, with the elements of sequences bounded one by one.
Entry == [id : Nat, retryCount : Nat]
CallType == [pc : {"idle", "read", "send"}, raw : Seq(Entry),
             arr : Arrays \cup {NoArray}, pos : Nat, rest : Seq(Nat),
             server : {"none", "applied", "refused"}]
Types ==
  /\ object \in Seq(Entry) /\ disk \in Seq(Entry)
  /\ array \in [Arrays -> Seq(Nat)]
  /\ cached \in Arrays \cup {NoArray}
  /\ flush \in [Flushes -> CallType]
  /\ caller \in [Callers -> [pc : {"idle", "read"}, raw : Seq(Entry)]]
  /\ count \in 0..MaxMutations
  /\ applied \in [Ids -> Nat] /\ failures \in [Ids -> Nat]
  /\ settled \subseteq Accepted /\ abandoned \subseteq Accepted
  /\ excused \subseteq Accepted /\ unsure \subseteq Accepted
  /\ overlapped \in BOOLEAN /\ faults \in Nat /\ restarts \in Nat

\* Every entry is about a mutation that was accepted and has failed as often as it
\* says, at least.
Genuine(e) == e.id \in Accepted /\ e.retryCount <= failures[e.id]
AllGenuine(entries) == \A i \in DOMAIN entries : Genuine(entries[i])
EntriesInv ==
  /\ AllGenuine(object) /\ AllGenuine(disk)
  /\ \A f \in Flushes : AllGenuine(flush[f].raw)
  /\ \A c \in Callers : AllGenuine(caller[c].raw)
  /\ \A m \in abandoned : failures[m] >= MaxRetries
  /\ \A m \in Ids \ Accepted : applied[m] = 0 /\ failures[m] = 0

\* References lead to objects, walks are inside their array, and what is read before
\* anything is cached is what the storage holds.
OnHeap(seq) == \A i \in DOMAIN seq : seq[i] \in DOMAIN object
HeapInv ==
  /\ \A a \in Arrays : OnHeap(array[a])
  /\ \A f \in Flushes :
       Sending(f) => /\ flush[f].arr \in Arrays
                     /\ flush[f].pos \in DOMAIN array[flush[f].arr]
                     /\ OnHeap(flush[f].rest)
  /\ cached = NoArray =>
       /\ \A f \in Flushes : ~Sending(f) /\ (flush[f].pc = "read" => flush[f].raw = disk)
       /\ \A c \in Callers : caller[c].pc = "read" => caller[c].raw = disk

\* As long as no two calls have worked on the queue at once: one walk, over the
\* cached array, in which no mutation comes twice; what the walk has passed is
\* settled or among the rest, and the rest comes from what it has passed.
IdAt(i) == object[Queue[i]].id
Passed(f, i) == i \in DOMAIN Queue /\ i < flush[f].pos
WalkInv ==
  ~overlapped =>
    /\ \A f \in Flushes : Sending(f) =>
         /\ flush[f].arr = cached
         /\ \A g \in Flushes : Sending(g) => g = f
         /\ \A i \in DOMAIN Queue : Passed(f, i) =>
              IdAt(i) \in settled \/ \E k \in DOMAIN flush[f].rest : flush[f].rest[k] = Queue[i]
         /\ \A k \in DOMAIN flush[f].rest : \E i \in DOMAIN Queue :
              Passed(f, i) /\ flush[f].rest[k] = Queue[i]
         /\ \A k, l \in DOMAIN flush[f].rest : flush[f].rest[k] = flush[f].rest[l] => k = l
    /\ \A i, j \in DOMAIN disk : disk[i].id = disk[j].id => i = j
    /\ \A i, j \in DOMAIN Queue : IdAt(i) = IdAt(j) => i = j

\* The objects that are still to be sent, now or by the next flush.
Ahead(o) ==
  /\ \E i \in DOMAIN Queue : Queue[i] = o
  /\ \A f \in Flushes : Sending(f) =>
       \/ \E i \in DOMAIN Queue : Queue[i] = o /\ ~Passed(f, i)
       \/ \E k \in DOMAIN flush[f].rest : flush[f].rest[k] = o
\* The server has applied it and the answer is on its way.
Landed(o) == \E f \in Flushes : Sending(f) /\ flush[f].server = "applied" /\ o = Here(f)

Clean(m) == applied[m] = 0 \/ m \in unsure
SentInv ==
  ~overlapped =>
    /\ \A m \in Ids : applied[m] <= 1 \/ m \in unsure
    /\ cached = NoArray => \A i \in DOMAIN disk : Clean(disk[i].id)
    /\ \A o \in DOMAIN object : Ahead(o) /\ ~Landed(o) => Clean(object[o].id)

TriesInv ==
  ~overlapped /\ restarts = 0 =>
    /\ cached = NoArray => disk = <<>>
    /\ \A m \in Ids : failures[m] <= MaxRetries
    /\ \A o \in DOMAIN object : Ahead(o) =>
         /\ object[o].retryCount = failures[object[o].id]
         /\ object[o].retryCount < MaxRetries

IInv == Types /\ EntriesInv /\ HeapInv /\ WalkInv /\ Kept /\ SentInv /\ TriesInv
-----------------------------------------------------------------------------
\* There is always an array that nobody holds, so New is one.
LEMMA NewFree ==
  ASSUME Types
  PROVE  /\ New \in Arrays /\ New # cached
         /\ \A f \in Flushes : New # flush[f].arr
<1> DEFINE holds == [f \in Flushes |-> flush[f].arr]
           Held  == {flush[f].arr : f \in Flushes}
<1>1. IsFiniteSet(Held) /\ Cardinality(Held) <= Cardinality(Flushes)
  <2>1. holds \in Surjection(Flushes, Held)
    BY DEF Surjection
  <2> QED BY <2>1, ArraysAssumption, FS_Surjection
<1> HIDE DEF Held
<1>2. /\ IsFiniteSet(Held \cup {cached})
      /\ Cardinality(Held \cup {cached}) <= Cardinality(Flushes) + 1
  <2>1. Cardinality(Held) \in Nat /\ Cardinality(Flushes) \in Nat
    BY <1>1, ArraysAssumption, FS_CardinalityType
  <2>2. /\ IsFiniteSet(Held \cup {cached})
        /\ Cardinality(Held \cup {cached}) =
             IF cached \in Held THEN Cardinality(Held) ELSE Cardinality(Held) + 1
    BY <1>1, FS_AddElement
  <2> QED BY <2>1, <2>2, <1>1
<1>3. \E a \in Arrays : a \notin Held \cup {cached}
  <2> SUFFICES ASSUME Arrays \subseteq Held \cup {cached} PROVE FALSE
    OBVIOUS
  <2>1. Cardinality(Arrays) <= Cardinality(Held \cup {cached})
    BY <1>2, FS_Subset
  <2> QED BY <2>1, <1>2, ArraysAssumption, FS_CardinalityType
<1>4. \E a \in Arrays : a # cached /\ \A f \in Flushes : a # flush[f].arr
  BY <1>3 DEF Held
<1> QED BY <1>4 DEF New
-----------------------------------------------------------------------------
\* Functions on 1..n are sequences.
LEMMA FunctionIsSeq ==
  ASSUME NEW S, NEW n \in Nat, NEW fn \in [1..n -> S]
  PROVE  fn \in Seq(S) /\ Len(fn) = n
OBVIOUS

\* The JSON of the cached array.
Written == [i \in DOMAIN Queue |-> object[Queue[i]]]

\* An array of references, turned into entries.
LEMMA EntriesOf ==
  ASSUME NEW objs \in Seq(Entry), NEW seq \in Seq(Nat),
         \A i \in DOMAIN seq : seq[i] \in DOMAIN objs
  PROVE  [i \in DOMAIN seq |-> objs[seq[i]]] \in Seq(Entry)
<1>1. Len(seq) \in Nat /\ DOMAIN seq = 1..Len(seq)
  BY LenProperties
<1>2. [i \in DOMAIN seq |-> objs[seq[i]]] \in [1..Len(seq) -> Entry]
  <2>1. \A i \in DOMAIN seq : objs[seq[i]] \in Entry
    BY LenProperties, ElementOfSeq
  <2> QED BY <1>1, <2>1
<1> QED BY <1>1, <1>2, FunctionIsSeq

LEMMA QueueType ==
  ASSUME Types
  PROVE  Queue \in Seq(Nat) /\ Len(Queue) \in Nat /\ DOMAIN Queue = 1..Len(Queue)
<1>1. Queue \in Seq(Nat)
  BY EmptySeq DEF Types, Queue
<1> QED BY <1>1, LenProperties

\* enqueue adds one mutation at the end of the array, which is then the queue.
Pushed(objs, a, seq, lost) ==
  /\ object' \in Seq(Entry) /\ Len(object') = Len(objs) + 1
  /\ DOMAIN object' = 1..(Len(objs) + 1) /\ Len(objs) \in Nat
  /\ \A i \in 1..Len(objs) : object'[i] = objs[i]
  /\ object'[Len(objs) + 1] = [id |-> count + 1, retryCount |-> 0]
  /\ array' = [array EXCEPT ![a] = Queue'] /\ array' \in [Arrays -> Seq(Nat)]
  /\ cached' = a /\ Queue' \in Seq(Nat) /\ Len(seq) \in Nat
  /\ Len(Queue') = Len(seq) + 1 /\ DOMAIN Queue' = 1..(Len(seq) + 1)
  /\ \A i \in 1..Len(seq) : Queue'[i] = seq[i]
  /\ Queue'[Len(seq) + 1] = Len(objs) + 1
  /\ \A i \in DOMAIN Queue' : Queue'[i] \in DOMAIN object'
  /\ count' = count + 1 /\ count' \in 0..MaxMutations
  /\ disk' \in Seq(Entry) /\ (disk' = disk \/ disk' = Written') /\ faults' \in Nat
  /\ excused' = excused \cup lost \cup (IdsIn(object, Queue) \ IdsIn(object', Queue'))
                      \cup (IF disk' = disk THEN IdsIn(object', Queue') \ IdsOf(disk) ELSE {})
LEMMA PushFacts ==
  ASSUME Types, count < MaxMutations, NEW objs \in Seq(Entry), NEW a \in Arrays,
         NEW seq \in Seq(Nat), \A i \in DOMAIN seq : seq[i] \in DOMAIN objs,
         NEW n \in Nat, NEW lost, Push(objs, a, seq, n, lost)
  PROVE  Pushed(objs, a, seq, lost)
<1> DEFINE new  == [id |-> count + 1, retryCount |-> 0]
           all  == Append(objs, new)
           more == Append(seq, Len(objs) + 1)
<1>1. new \in Entry /\ count + 1 \in 0..MaxMutations
  BY BoundsAssumption DEF Types, Entry
<1>2. Len(objs) \in Nat /\ Len(seq) \in Nat /\ Len(objs) + 1 \in Nat
      /\ DOMAIN objs = 1..Len(objs) /\ DOMAIN seq = 1..Len(seq)
  BY LenProperties
<1>3. /\ all \in Seq(Entry) /\ Len(all) = Len(objs) + 1
      /\ \A i \in 1..Len(objs) : all[i] = objs[i]
      /\ all[Len(objs) + 1] = new
  BY <1>1, AppendProperties
<1>4. /\ more \in Seq(Nat) /\ Len(more) = Len(seq) + 1
      /\ \A i \in 1..Len(seq) : more[i] = seq[i]
      /\ more[Len(seq) + 1] = Len(objs) + 1
  BY <1>2, AppendProperties
<1>5. /\ object' = all /\ array' = [array EXCEPT ![a] = more]
      /\ Save(all, a, more, n) /\ count' = count + 1
  BY DEF Push
<1> HIDE DEF all, more
<1>6. array' \in [Arrays -> Seq(Nat)] /\ array'[a] = more
  BY <1>4, <1>5 DEF Types
<1>7. cached' = a /\ Queue' = more
  BY <1>5, <1>6, NamesAssumption DEF Save, Queue
<1>8. DOMAIN all = 1..(Len(objs) + 1) /\ DOMAIN more = 1..(Len(seq) + 1)
  BY <1>3, <1>4, LenProperties
<1>9. ASSUME NEW i \in DOMAIN more PROVE more[i] \in DOMAIN all
  <2>1. CASE i \in 1..Len(seq)
    <3>1. seq[i] \in 1..Len(objs) /\ more[i] = seq[i]
      BY <1>2, <1>4, <2>1
    <3> QED BY <3>1, <1>2, <1>8
  <2>2. CASE i = Len(seq) + 1
    BY <2>2, <1>2, <1>4, <1>8
  <2> QED BY <2>1, <2>2, <1>2, <1>8
<1>10. disk' = disk \/ disk' = Written'
  BY <1>5, <1>7 DEF Save, Written
<1>11. disk' \in Seq(Entry)
  <2>1. Written' \in Seq(Entry)
    BY <1>3, <1>4, <1>5, <1>7, <1>9, EntriesOf DEF Written
  <2> QED BY <1>10, <2>1 DEF Types
<1>12. faults' \in Nat
  BY <1>5 DEF Save, Faults, Types
<1>13. object' = all /\ Queue' = more /\ array' = [array EXCEPT ![a] = Queue']
  BY <1>5, <1>7
<1> HIDE DEF new
<1>14. object'[Len(objs) + 1] = [id |-> count + 1, retryCount |-> 0]
  BY <1>3, <1>13 DEF new
<1>15. excused' = excused \cup lost \cup (IdsIn(object, Queue) \ IdsIn(object', Queue'))
                        \cup (IF disk' = disk THEN IdsIn(object', Queue') \ IdsOf(disk) ELSE {})
  BY <1>13 DEF Push, Dropped, all, more, new
<1> QED BY <1>1, <1>2, <1>3, <1>4, <1>5, <1>6, <1>7, <1>8, <1>9, <1>10, <1>11, <1>12, <1>13, <1>14,
           <1>15 DEF Pushed
\* What loadQueue makes of the stored JSON: new objects behind the others.
LEMMA ParsedFacts ==
  ASSUME Types, NEW raw \in Seq(Entry)
  PROVE  /\ Len(object) \in Nat /\ Len(raw) \in Nat
         /\ DOMAIN object = 1..Len(object) /\ DOMAIN raw = 1..Len(raw)
         /\ object \o raw \in Seq(Entry)
         /\ Len(object \o raw) = Len(object) + Len(raw)
         /\ DOMAIN (object \o raw) = 1..(Len(object) + Len(raw))
         /\ \A o \in DOMAIN object : (object \o raw)[o] = object[o]
         /\ \A i \in 1..Len(raw) : (object \o raw)[Len(object) + i] = raw[i]
         /\ Parsed(raw) \in Seq(Nat) /\ Len(Parsed(raw)) = Len(raw)
         /\ DOMAIN Parsed(raw) = 1..Len(raw)
         /\ \A i \in 1..Len(raw) : Parsed(raw)[i] = Len(object) + i
         /\ \A i \in 1..Len(raw) : Parsed(raw)[i] \in DOMAIN (object \o raw)
<1>1. /\ Len(object) \in Nat /\ Len(raw) \in Nat
      /\ DOMAIN object = 1..Len(object) /\ DOMAIN raw = 1..Len(raw)
  BY LenProperties DEF Types
<1>2. /\ object \o raw \in Seq(Entry)
      /\ Len(object \o raw) = Len(object) + Len(raw)
      /\ \A i \in 1..(Len(object) + Len(raw)) : (object \o raw)[i] =
           IF i <= Len(object) THEN object[i] ELSE raw[i - Len(object)]
  BY ConcatProperties DEF Types
<1>3. DOMAIN (object \o raw) = 1..(Len(object) + Len(raw))
  BY <1>2, LenProperties
<1>4. \A o \in DOMAIN object : (object \o raw)[o] = object[o]
  BY <1>1, <1>2
<1>5. ASSUME NEW i \in 1..Len(raw)
      PROVE  (object \o raw)[Len(object) + i] = raw[i]
  <2>1. /\ Len(object) + i \in 1..(Len(object) + Len(raw))
        /\ ~(Len(object) + i <= Len(object)) /\ Len(object) + i - Len(object) = i
    BY <1>1
  <2> QED BY <2>1, <1>2
<1>6. /\ Parsed(raw) \in [1..Len(raw) -> Nat]
      /\ \A i \in 1..Len(raw) : Parsed(raw)[i] = Len(object) + i
  BY <1>1 DEF Parsed
<1>7. Parsed(raw) \in Seq(Nat) /\ Len(Parsed(raw)) = Len(raw)
  BY <1>1, <1>6, FunctionIsSeq
<1>8. \A i \in 1..Len(raw) : Parsed(raw)[i] \in DOMAIN (object \o raw)
  BY <1>1, <1>3, <1>6
<1>9. DOMAIN Parsed(raw) = 1..Len(raw)
  BY <1>6
<1> QED BY <1>1, <1>2, <1>3, <1>4, <1>5, <1>6, <1>7, <1>8, <1>9

\* The walk of f goes on to the next element, or its rest becomes the queue; objs and
\* rest are the objects and the rest after what it has just done.
GoesOn(f, rest) ==
  /\ flush[f].pos # Len(array[flush[f].arr])
  /\ flush[f].pos + 1 \in DOMAIN array[flush[f].arr]
  /\ flush'[f].pc = "send" /\ flush'[f].arr = flush[f].arr
  /\ flush'[f].pos = flush[f].pos + 1 /\ flush'[f].rest = rest
  /\ flush'[f].server = "none" /\ flush'[f].raw = flush[f].raw
  /\ UNCHANGED <<array, cached, disk, excused>>
Ends(f, objs, rest) ==
  /\ flush[f].pos = Len(array[flush[f].arr])
  /\ flush'[f] = NoFlush
  /\ cached' \in Arrays /\ array'[cached'] = rest /\ Queue' = rest
  /\ \A a \in Arrays : array'[a] \in {array[a], rest, <<>>}
  /\ \A g \in Flushes : flush'[g].arr \in Arrays /\ g # f =>
       array'[flush[g].arr] = array[flush[g].arr]
  /\ disk' = disk \/ disk' = Written'
  /\ excused' = excused
       \cup (IF overlapped THEN IdsIn(object, Queue) \ IdsIn(objs, rest) ELSE {})

LEMMA OnwardFacts ==
  ASSUME NEW call \in CallType, NEW rest \in Seq(Nat)
  PROVE  /\ Onward(call, rest) \in CallType
         /\ Onward(call, rest).pc = call.pc /\ Onward(call, rest).arr = call.arr
         /\ Onward(call, rest).pos = call.pos + 1 /\ Onward(call, rest).rest = rest
         /\ Onward(call, rest).server = "none" /\ Onward(call, rest).raw = call.raw
<1> DEFINE moved(p) == [call EXCEPT !.pos = p, !.rest = rest, !.server = "none"]
<1>1. \A p \in Nat : /\ moved(p) \in CallType
                     /\ moved(p).pc = call.pc /\ moved(p).arr = call.arr
                     /\ moved(p).pos = p /\ moved(p).rest = rest
                     /\ moved(p).server = "none" /\ moved(p).raw = call.raw
  BY DEF CallType
<1>2. call.pos + 1 \in Nat
  BY DEF CallType
<1>3. Onward(call, rest) = moved(call.pos + 1)
  BY Zenon DEF Onward
<1> HIDE DEF moved
<1> QED BY <1>1, <1>2, <1>3

LEMMA ProceedFacts ==
  ASSUME Types, HeapInv, NEW f \in Flushes, Sending(f), NEW objs \in Seq(Entry),
         NEW rest \in Seq(Nat), object' = objs, DOMAIN objs = DOMAIN object,
         \A k \in DOMAIN rest : rest[k] \in DOMAIN object,
         NEW n \in Nat, Proceed(f, objs, rest, n)
  PROVE  /\ \A g \in Flushes \ {f} : flush'[g] = flush[g]
         /\ array' \in [Arrays -> Seq(Nat)] /\ cached' \in Arrays \cup {NoArray}
         /\ flush' \in [Flushes -> CallType]
         /\ disk' \in Seq(Entry) /\ faults' \in Nat
         /\ GoesOn(f, rest) \/ Ends(f, objs, rest)
<1> DEFINE last  == flush[f].pos = Len(array[flush[f].arr])
           calls == [flush EXCEPT ![f] = IF last THEN NoFlush ELSE Onward(@, rest)]
<1>1. /\ flush' = calls
      /\ IF last
         THEN /\ Save(objs, New, rest, n)
              /\ array' = Collected([array EXCEPT ![New] = rest], New, calls)
              /\ excused' = excused
                   \cup (IF overlapped THEN Dropped(IdsIn(objs, rest)) ELSE {})
         ELSE Faults(n) /\ UNCHANGED <<array, cached, disk, excused>>
  BY DEF Proceed
<1>2. /\ flush[f].arr \in Arrays /\ array[flush[f].arr] \in Seq(Nat)
      /\ Len(array[flush[f].arr]) \in Nat
      /\ DOMAIN array[flush[f].arr] = 1..Len(array[flush[f].arr])
      /\ flush[f].pos \in 1..Len(array[flush[f].arr])
  <2>1. flush[f].arr \in Arrays /\ flush[f].pos \in DOMAIN array[flush[f].arr]
    BY DEF HeapInv
  <2> QED BY <2>1, LenProperties DEF Types
<1>3. NoFlush \in CallType
  BY EmptySeq DEF NoFlush, CallType
<1>4. /\ \A g \in Flushes \ {f} : flush'[g] = flush[g]
      /\ flush' \in [Flushes -> CallType]
  <2>1. flush \in [Flushes -> CallType]
    BY DEF Types
  <2>3. Onward(flush[f], rest) \in CallType
    BY <2>1, OnwardFacts
  <2> QED BY <1>1, <1>3, <2>1, <2>3
<1>f. faults' \in Nat
  BY <1>1 DEF Types, Save, Faults
<1>5. CASE ~last
  <2>1. flush[f].pos + 1 \in DOMAIN array[flush[f].arr]
    BY <1>2, <1>5
  <2>2. GoesOn(f, rest)
    <3>1. flush'[f] = Onward(flush[f], rest) /\ flush[f] \in CallType
      BY <1>1, <1>5 DEF Types
    <3>2. /\ flush'[f].pc = "send" /\ flush'[f].arr = flush[f].arr
          /\ flush'[f].pos = flush[f].pos + 1 /\ flush'[f].rest = rest
          /\ flush'[f].server = "none" /\ flush'[f].raw = flush[f].raw
      BY <3>1, OnwardFacts DEF Sending
    <3> QED BY <1>1, <1>5, <2>1, <3>2 DEF GoesOn
  <2>3. /\ array' \in [Arrays -> Seq(Nat)] /\ cached' \in Arrays \cup {NoArray}
        /\ disk' \in Seq(Entry)
    BY <1>1, <1>5 DEF Types
  <2> QED BY <1>4, <1>f, <2>2, <2>3
<1>6. CASE last
  <2>1. New \in Arrays /\ New # NoArray /\ \A g \in Flushes : New # flush[g].arr
    BY NewFree, NamesAssumption
  <2>2. /\ cached' = New /\ array' \in [Arrays -> Seq(Nat)] /\ array'[New] = rest
        /\ \A a \in Arrays : array'[a] \in {array[a], rest, <<>>}
        /\ \A g \in Flushes : flush'[g].arr \in Arrays /\ g # f =>
             array'[flush[g].arr] = array[flush[g].arr]
    <3>1. cached' = New
      BY <1>1, <1>6 DEF Save
    <3>2. array' = [a \in Arrays |->
             IF a = New \/ \E g \in Flushes : calls[g].arr = a
             THEN [array EXCEPT ![New] = rest][a] ELSE <<>>]
      BY <1>1, <1>6 DEF Collected
    <3>3. ASSUME NEW g \in Flushes, flush'[g].arr \in Arrays, g # f
          PROVE  array'[flush[g].arr] = array[flush[g].arr]
      <4>1. flush'[g] = flush[g] /\ calls[g] = flush[g] /\ flush[g].arr # New
        BY <1>1, <1>4, <2>1, <3>3
      <4> QED BY <4>1, <3>2, <3>3 DEF Types
    <3> QED BY EmptySeq, <2>1, <3>1, <3>2, <3>3 DEF Types
  <2>3. Queue' = rest
    BY <2>1, <2>2 DEF Queue
  <2>4. disk' = disk \/ disk' = Written'
    BY <1>1, <1>6, <2>3 DEF Save, Written
  <2>5. Written' \in Seq(Entry)
    BY <2>3, EntriesOf DEF Written
  <2>6. flush'[f] = NoFlush
    BY <1>1, <1>6 DEF Types
  <2>7. Ends(f, objs, rest)
    BY <1>1, <1>6, <2>1, <2>2, <2>3, <2>4, <2>6 DEF Ends, Dropped
  <2>8. disk' \in Seq(Entry)
    BY <2>4, <2>5 DEF Types
  <2> QED BY <1>4, <1>f, <2>1, <2>2, <2>7, <2>8
<1> QED BY <1>5, <1>6
-----------------------------------------------------------------------------
\* What was genuine stays so: more mutations are accepted, more sendings fail.
More == /\ count \in Nat /\ count' \in Nat /\ count <= count'
        /\ \A m \in Accepted : failures[m] \in Nat /\ failures'[m] \in Nat
                               /\ failures[m] <= failures'[m]
LEMMA GenuineStays ==
  ASSUME More, NEW e \in Entry, Genuine(e)
  PROVE  e.id \in Accepted' /\ e.retryCount <= failures'[e.id]
BY DEF More, Genuine, Accepted, Entry
LEMMA AllGenuineStay ==
  ASSUME More, NEW entries \in Seq(Entry), AllGenuine(entries)
  PROVE  AllGenuine(entries)'
<1> SUFFICES ASSUME NEW i \in DOMAIN entries
             PROVE  entries[i].id \in Accepted'
                    /\ entries[i].retryCount <= failures'[entries[i].id]
  BY DEF AllGenuine, Genuine
<1>1. entries[i] \in Entry
  BY LenProperties, ElementOfSeq
<1> QED BY <1>1, GenuineStays DEF AllGenuine
LEMMA MoreCounted ==
  ASSUME Types, count' = count \/ count' = count + 1, failures' = failures
  PROVE  More
BY BoundsAssumption DEF Types, More, Accepted, Ids

\* What is written is as genuine as the objects.
LEMMA WrittenGenuine ==
  ASSUME AllGenuine(object)', \A i \in DOMAIN Queue' : Queue'[i] \in DOMAIN object'
  PROVE  AllGenuine(Written)'
BY DEF AllGenuine, Written, Genuine, Accepted

\* enqueue keeps the entries genuine, whichever array it pushes onto.
LEMMA PushEntries ==
  ASSUME Types, EntriesInv, count < MaxMutations, NEW objs \in Seq(Entry),
         AllGenuine(objs), NEW a \in Arrays,
         NEW seq \in Seq(Nat), \A i \in DOMAIN seq : seq[i] \in DOMAIN objs,
         NEW n \in Nat, NEW lost, Push(objs, a, seq, n, lost),
         UNCHANGED <<flush, applied, failures, abandoned>>,
         \A c \in Callers : caller'[c].raw \in {caller[c].raw, <<>>}
  PROVE  EntriesInv' /\ count + 1 \in Ids \ Accepted
<1>p. Pushed(objs, a, seq, lost)
  BY PushFacts
<1>m. More
  BY <1>p, MoreCounted DEF Pushed
<1>n. count + 1 \in Ids \ Accepted /\ count + 1 \in Accepted' /\ count \in Nat
  BY <1>p, BoundsAssumption DEF Pushed, Types, Accepted, Ids
<1>z. failures[count + 1] = 0
  BY <1>n DEF EntriesInv
<1>1. AllGenuine(object)'
  <2>1. AllGenuine(objs)'
    BY <1>m, AllGenuineStay
  <2>2. ASSUME NEW i \in DOMAIN object'
        PROVE  object'[i].id \in Accepted' /\ object'[i].retryCount <= failures'[object'[i].id]
    <3>1. CASE i \in 1..Len(objs)
      <4>1. i \in DOMAIN objs /\ object'[i] = objs[i]
        BY <1>p, <3>1, LenProperties DEF Pushed
      <4> QED BY <2>1, <4>1 DEF AllGenuine, Genuine
    <3>2. CASE i = Len(objs) + 1
      <4>1. object'[i] = [id |-> count + 1, retryCount |-> 0]
        BY <1>p, <3>2 DEF Pushed
      <4> QED BY <1>n, <1>z, <4>1
    <3> QED BY <1>p, <3>1, <3>2, <2>2 DEF Pushed
  <2> QED BY <2>2 DEF AllGenuine, Genuine
<1>2. AllGenuine(disk)'
  <2>1. AllGenuine(disk) /\ disk \in Seq(Entry)
    BY DEF EntriesInv, Types
  <2>2. CASE disk' = disk
    BY <2>1, <2>2, <1>m, AllGenuineStay DEF AllGenuine
  <2>3. CASE disk' = Written'
    BY <2>3, <1>p, <1>1, WrittenGenuine DEF AllGenuine, Pushed
  <2> QED BY <1>p, <2>2, <2>3 DEF Pushed
<1>3. \A g \in Flushes : AllGenuine(flush[g].raw)'
  <2> TAKE g \in Flushes
  <2>1. AllGenuine(flush[g].raw) /\ flush[g].raw \in Seq(Entry)
    BY DEF EntriesInv, Types, CallType
  <2>2. flush'[g].raw = flush[g].raw
    OBVIOUS
  <2> QED BY <2>1, <2>2, <1>m, AllGenuineStay DEF AllGenuine
<1>4. \A c \in Callers : AllGenuine(caller[c].raw)'
  <2> TAKE c \in Callers
  <2>1. AllGenuine(caller[c].raw) /\ caller[c].raw \in Seq(Entry)
    BY DEF EntriesInv, Types
  <2>2. CASE caller'[c].raw = caller[c].raw
    BY <2>1, <2>2, <1>m, AllGenuineStay DEF AllGenuine
  <2>3. CASE caller'[c].raw = <<>>
    BY <2>3 DEF AllGenuine
  <2> QED BY <2>2, <2>3
<1>5. /\ \A m \in abandoned' : failures'[m] >= MaxRetries
      /\ \A m \in Ids \ Accepted' : applied'[m] = 0 /\ failures'[m] = 0
  BY <1>n, <1>p DEF EntriesInv, Accepted, Pushed
<1> QED BY <1>n, <1>1, <1>2, <1>3, <1>4, <1>5 DEF EntriesInv
-----------------------------------------------------------------------------
\* The ids of entries that are genuine have been accepted.
LEMMA IdsAccepted ==
  ASSUME NEW objs, NEW seq, AllGenuine(objs), \A i \in DOMAIN seq : seq[i] \in DOMAIN objs
  PROVE  IdsIn(objs, seq) \subseteq Accepted
BY DEF IdsIn, AllGenuine, Genuine
LEMMA IdsOfAccepted ==
  ASSUME NEW entries, AllGenuine(entries)
  PROVE  IdsOf(entries) \subseteq Accepted
BY DEF IdsOf, AllGenuine, Genuine

\* The queue leads to objects.
LEMMA QueueOnHeap ==
  ASSUME Types, HeapInv
  PROVE  \A i \in DOMAIN Queue : Queue[i] \in DOMAIN object
BY DEF Types, HeapInv, OnHeap, Queue

\* What enqueue excuses has been accepted.
LEMMA PushExcuses ==
  ASSUME Types, HeapInv, EntriesInv, EntriesInv', NEW objs \in Seq(Entry), NEW a \in Arrays,
         NEW seq \in Seq(Nat), NEW lost, lost \subseteq Accepted, Pushed(objs, a, seq, lost)
  PROVE  excused' \subseteq Accepted'
<1>1. IdsIn(object, Queue) \subseteq Accepted
  BY QueueOnHeap, IdsAccepted DEF EntriesInv
<1>2. IdsIn(object', Queue') \subseteq Accepted'
  <2>1. AllGenuine(object)' /\ \A i \in DOMAIN Queue' : Queue'[i] \in DOMAIN object'
    BY DEF EntriesInv, Pushed
  <2> QED BY <2>1 DEF IdsIn, AllGenuine, Genuine
<1>3. Accepted \subseteq Accepted' /\ excused \subseteq Accepted
  BY DEF Pushed, Accepted, Types
<1> QED BY <1>1, <1>2, <1>3 DEF Pushed

\* enqueue drops nothing that is not excused: it pushes onto the cached array, or onto
\* one that holds what is stored.
LEMMA PushKept ==
  ASSUME Types, HeapInv, Kept, NEW objs \in Seq(Entry), NEW a \in Arrays,
         NEW seq \in Seq(Nat), NEW lost, Pushed(objs, a, seq, lost), settled' = settled,
         cached = NoArray => IdsOf(disk) \subseteq IdsIn(object', Queue') \cup lost
  PROVE  Kept'
<1> SUFFICES ASSUME NEW m \in Accepted', m \notin settled, m \notin excused'
             PROVE  m \in IdsOf(disk') /\ m \in IdsIn(object', Queue')
  BY DEF Kept
<1>0. a # NoArray
  BY NamesAssumption
<1>1. m \in IdsIn(object', Queue')
  <2>1. CASE m = count + 1
    <3>1. /\ Len(seq) + 1 \in DOMAIN Queue'
          /\ object'[Queue'[Len(seq) + 1]].id = count + 1
      BY DEF Pushed
    <3> QED BY <2>1, <3>1 DEF IdsIn
  <2>2. CASE m # count + 1
    <3>1. m \in Accepted /\ m \notin excused
      BY <2>2 DEF Pushed, Accepted, Types
    <3>2. m \in IdsOf(disk) /\ (cached # NoArray => m \in IdsIn(object, Queue))
      BY <3>1 DEF Kept
    <3> QED BY <3>2 DEF Pushed
  <2> QED BY <2>1, <2>2
<1>2. m \in IdsOf(disk')
  <2>1. CASE disk' = disk
    BY <2>1, <1>1 DEF Pushed
  <2>2. CASE disk' = Written'
    BY <2>2, <1>1 DEF Written, IdsIn, IdsOf
  <2> QED BY <2>1, <2>2 DEF Pushed
<1> QED BY <1>1, <1>2

LEMMA EnqueuePushes ==
  ASSUME IInv, NEW c \in Callers, Enqueue(c)
  PROVE  /\ Pushed(object, cached, Queue, {}) /\ Push(object, cached, Queue, 0, {})
         /\ object \in Seq(Entry) /\ cached \in Arrays /\ Queue \in Seq(Nat)
         /\ \A i \in DOMAIN Queue : Queue[i] \in DOMAIN object
         /\ DOMAIN object = 1..Len(object) /\ Len(object) \in Nat
         /\ DOMAIN Queue = 1..Len(Queue) /\ Len(Queue) \in Nat
         /\ EntriesInv' /\ count + 1 \in Ids \ Accepted
         /\ UNCHANGED <<flush, caller, applied, failures, settled, abandoned, unsure,
                        overlapped, restarts>>
<1>1. /\ object \in Seq(Entry) /\ cached \in Arrays /\ Queue \in Seq(Nat)
      /\ \A i \in DOMAIN Queue : Queue[i] \in DOMAIN object
      /\ Types /\ EntriesInv /\ count < MaxMutations /\ AllGenuine(object)
      /\ DOMAIN object = 1..Len(object) /\ Len(object) \in Nat
      /\ DOMAIN Queue = 1..Len(Queue) /\ Len(Queue) \in Nat
  BY QueueType, QueueOnHeap, LenProperties DEF IInv, Types, Enqueue, EntriesInv
<1>2. Push(object, cached, Queue, 0, {})
  BY DEF Enqueue
<1>3. Pushed(object, cached, Queue, {})
  BY <1>1, <1>2, PushFacts
<1>4. UNCHANGED <<flush, caller, applied, failures, settled, abandoned, unsure,
                  overlapped, restarts>>
  BY DEF Enqueue
<1>5. EntriesInv' /\ count + 1 \in Ids \ Accepted
  BY <1>1, <1>2, <1>4, PushEntries
<1> QED BY <1>1, <1>2, <1>3, <1>4, <1>5

\* The queue after enqueue is the queue before it and the new entry.
LEMMA EnqueueQueue ==
  ASSUME IInv, NEW c \in Callers, Enqueue(c)
  PROVE  /\ \A o \in DOMAIN object : o \in DOMAIN object' /\ object'[o] = object[o]
         /\ \A i \in DOMAIN Queue :
              i \in DOMAIN Queue' /\ Queue'[i] = Queue[i] /\ object'[Queue'[i]] = object[Queue[i]]
         /\ \A i \in DOMAIN Queue' \ DOMAIN Queue :
              /\ Queue'[i] \notin DOMAIN object /\ i = Len(Queue) + 1
              /\ object'[Queue'[i]] = [id |-> count + 1, retryCount |-> 0]
         /\ \A o \in DOMAIN object' \ DOMAIN object :
              object'[o] = [id |-> count + 1, retryCount |-> 0]
         /\ \A a \in Arrays \ {cached} : array'[a] = array[a]
         /\ array'[cached] = Queue' /\ cached' = cached
         /\ array[cached] = Queue /\ cached # NoArray
<1>1. Pushed(object, cached, Queue, {}) /\ cached # NoArray /\ array[cached] = Queue
      /\ array \in [Arrays -> Seq(Nat)] /\ cached \in Arrays
  BY EnqueuePushes, NamesAssumption DEF Enqueue, Queue, IInv, Types
<1>2. ASSUME NEW o \in DOMAIN object PROVE o \in DOMAIN object' /\ object'[o] = object[o]
  <2>1. o \in 1..Len(object) /\ Len(object) \in Nat
    BY EnqueuePushes
  <2> QED BY <1>1, <2>1 DEF Pushed
<1>3. ASSUME NEW i \in DOMAIN Queue
      PROVE  i \in DOMAIN Queue' /\ Queue'[i] = Queue[i] /\ object'[Queue'[i]] = object[Queue[i]]
  <2>1. Queue[i] \in DOMAIN object /\ i \in 1..Len(Queue)
    BY EnqueuePushes
  <2>2. i \in DOMAIN Queue' /\ Queue'[i] = Queue[i]
    BY <1>1, <2>1, EnqueuePushes DEF Pushed
  <2> QED BY <1>2, <2>1, <2>2
<1>4. ASSUME NEW i \in DOMAIN Queue' \ DOMAIN Queue
      PROVE  /\ Queue'[i] \notin DOMAIN object /\ i = Len(Queue) + 1
             /\ object'[Queue'[i]] = [id |-> count + 1, retryCount |-> 0]
  <2>1. i = Len(Queue) + 1
    BY <1>1, EnqueuePushes DEF Pushed
  <2>2. Queue'[i] = Len(object) + 1
    BY <1>1, <2>1 DEF Pushed
  <2>3. Queue'[i] \notin DOMAIN object
    BY <2>2, EnqueuePushes
  <2> QED BY <1>1, <2>1, <2>2, <2>3 DEF Pushed
<1>5. ASSUME NEW o \in DOMAIN object' \ DOMAIN object
      PROVE  object'[o] = [id |-> count + 1, retryCount |-> 0]
  <2>1. o = Len(object) + 1
    BY <1>1, EnqueuePushes DEF Pushed
  <2> QED BY <1>1, <2>1 DEF Pushed
<1>6. cached' = cached /\ array'[cached] = Queue' /\ \A a \in Arrays \ {cached} : array'[a] = array[a]
  BY <1>1 DEF Pushed
<1> QED BY <1>1, <1>2, <1>3, <1>4, <1>5, <1>6

\* enqueue onto the cached queue.
LEMMA EnqueueKeeps ==
  ASSUME IInv, NEW c \in Callers, Enqueue(c)
  PROVE  IInv'
<1>p. /\ Pushed(object, cached, Queue, {}) /\ Types /\ HeapInv /\ EntriesInv /\ EntriesInv'
      /\ count + 1 \in Ids \ Accepted
      /\ UNCHANGED <<flush, caller, applied, failures, settled, abandoned, unsure,
                     overlapped, restarts>>
  BY EnqueuePushes DEF IInv
<1>1. Types'
  <2>1. excused' \subseteq Accepted'
    BY <1>p, EnqueuePushes, PushExcuses
  <2>2. /\ object' \in Seq(Entry) /\ disk' \in Seq(Entry) /\ array' \in [Arrays -> Seq(Nat)]
        /\ cached' \in Arrays \cup {NoArray} /\ count' \in 0..MaxMutations
        /\ faults' \in Nat
    BY <1>p DEF Pushed, Types
  <2>3. settled' \subseteq Accepted' /\ abandoned' \subseteq Accepted' /\ unsure' \subseteq Accepted'
    BY <1>p DEF Pushed, Types, Accepted
  <2> QED BY <1>p, <2>1, <2>2, <2>3 DEF Types
<1>2. HeapInv'
  <2>1. ASSUME NEW a \in Arrays PROVE OnHeap(array[a])'
    <3>1. CASE a = cached
      BY <3>1, <1>p, EnqueueQueue DEF OnHeap, Pushed
    <3>2. CASE a # cached
      BY <3>2, <1>p, EnqueueQueue DEF OnHeap, HeapInv
    <3> QED BY <3>1, <3>2
  <2>2. ASSUME NEW g \in Flushes, Sending(g)'
        PROVE  /\ flush'[g].arr \in Arrays
               /\ flush'[g].pos \in DOMAIN (array'[flush'[g].arr])
               /\ OnHeap(flush[g].rest)'
    <3>1. /\ flush[g].arr \in Arrays /\ flush[g].pos \in DOMAIN array[flush[g].arr]
          /\ OnHeap(flush[g].rest) /\ flush'[g] = flush[g]
      BY <1>p, <2>2 DEF HeapInv, Sending
    <3>2. flush[g].pos \in DOMAIN (array'[flush[g].arr])
      BY <3>1, EnqueueQueue
    <3> QED BY <3>1, <3>2, EnqueueQueue DEF OnHeap
  <2> QED BY <2>1, <2>2, EnqueueQueue DEF HeapInv
<1>3. WalkInv'
  <2> SUFFICES ASSUME ~overlapped PROVE WalkInv'
    BY <1>p DEF WalkInv
  <2>0. WalkInv
    BY DEF IInv
  <2>1. ASSUME NEW i \in DOMAIN Queue', NEW j \in DOMAIN Queue', IdAt(i)' = IdAt(j)' PROVE i = j
    <3>1. \A k \in DOMAIN Queue : IdAt(k)' = IdAt(k) /\ IdAt(k) # count + 1
      <4> TAKE k \in DOMAIN Queue
      <4>1. IdAt(k)' = IdAt(k) /\ Queue[k] \in DOMAIN object
        BY EnqueueQueue, EnqueuePushes DEF IdAt
      <4> QED BY <1>p, <4>1 DEF IdAt, EntriesInv, AllGenuine, Genuine
    <3>2. \A k \in DOMAIN Queue' \ DOMAIN Queue : IdAt(k)' = count + 1 /\ k = Len(Queue) + 1
      BY EnqueueQueue DEF IdAt
    <3> QED BY <2>0, <2>1, <3>1, <3>2 DEF WalkInv
  <2>2. \A i, j \in DOMAIN disk' : disk'[i].id = disk'[j].id => i = j
    <3>1. CASE disk' = disk
      BY <3>1, <2>0 DEF WalkInv
    <3>2. CASE disk' = Written'
      BY <3>2, <2>1 DEF Written, IdAt
    <3> QED BY <1>p, <3>1, <3>2 DEF Pushed
  <2>3. ASSUME NEW f \in Flushes, Sending(f)
        PROVE  /\ flush[f].arr = cached'
               /\ \A g \in Flushes : Sending(g) => g = f
               /\ \A i \in DOMAIN Queue' : i < flush[f].pos =>
                    object'[Queue'[i]].id \in settled
                    \/ \E k \in DOMAIN flush[f].rest : flush[f].rest[k] = Queue'[i]
               /\ \A k \in DOMAIN flush[f].rest : \E i \in DOMAIN Queue' :
                    i < flush[f].pos /\ flush[f].rest[k] = Queue'[i]
               /\ \A k, l \in DOMAIN flush[f].rest : flush[f].rest[k] = flush[f].rest[l] => k = l
    <3>1. /\ flush[f].arr = cached
          /\ \A g \in Flushes : Sending(g) => g = f
          /\ \A i \in DOMAIN Queue : i < flush[f].pos =>
               object[Queue[i]].id \in settled
               \/ \E k \in DOMAIN flush[f].rest : flush[f].rest[k] = Queue[i]
          /\ \A k \in DOMAIN flush[f].rest : \E i \in DOMAIN Queue :
               i < flush[f].pos /\ flush[f].rest[k] = Queue[i]
          /\ \A k, l \in DOMAIN flush[f].rest : flush[f].rest[k] = flush[f].rest[l] => k = l
      BY <2>0, <2>3 DEF WalkInv, Passed, IdAt
    <3>2. flush[f].pos \in DOMAIN Queue
      BY <1>p, <2>3, <3>1, EnqueueQueue DEF HeapInv
    <3>3. \A i \in DOMAIN Queue' : i < flush[f].pos => i \in DOMAIN Queue
      BY <3>2, EnqueueQueue, EnqueuePushes
    <3> QED BY <3>1, <3>3, EnqueueQueue
  <2> QED BY <1>p, <2>1, <2>2, <2>3 DEF WalkInv, Passed, IdAt, Sending
<1>4. Kept'
  BY <1>p, PushKept, EnqueuePushes, EnqueueQueue DEF IInv
<1>a. ASSUME NEW o \in DOMAIN object', Ahead(o)'
      PROVE  \/ o \in DOMAIN object /\ Ahead(o) /\ object'[o] = object[o]
             \/ object'[o] = [id |-> count + 1, retryCount |-> 0]
  <2>1. CASE o \notin DOMAIN object
    BY <2>1, EnqueueQueue
  <2>2. CASE o \in DOMAIN object
    <3>1. \A i \in DOMAIN Queue' : Queue'[i] = o => i \in DOMAIN Queue /\ Queue[i] = o
      BY <2>2, EnqueueQueue
    <3>2. PICK i \in DOMAIN Queue' : Queue'[i] = o
      BY <1>a DEF Ahead
    <3>3. ASSUME NEW f \in Flushes, Sending(f)
          PROVE  \/ \E i1 \in DOMAIN Queue : Queue[i1] = o /\ ~Passed(f, i1)
                 \/ \E k \in DOMAIN flush[f].rest : flush[f].rest[k] = o
      <4>1. \/ \E i1 \in DOMAIN Queue' : Queue'[i1] = o /\ ~(i1 \in DOMAIN Queue' /\ i1 < flush[f].pos)
            \/ \E k \in DOMAIN flush[f].rest : flush[f].rest[k] = o
        BY <1>p, <1>a, <3>3 DEF Ahead, Passed, Sending
      <4> QED BY <3>1, <4>1 DEF Passed
    <3>4. Ahead(o)
      BY <3>1, <3>2, <3>3 DEF Ahead
    <3> QED BY <2>2, <3>4, EnqueueQueue
  <2> QED BY <2>1, <2>2
<1>5. SentInv'
  <2> SUFFICES ASSUME ~overlapped PROVE SentInv'
    BY <1>p DEF SentInv
  <2>1. \A m \in Ids : applied[m] <= 1 \/ m \in unsure
    BY DEF IInv, SentInv
  <2>2. ASSUME NEW o \in DOMAIN object', Ahead(o)', ~Landed(o)'
        PROVE  Clean(object[o].id)'
    <3>1. CASE o \in DOMAIN object /\ Ahead(o) /\ object'[o] = object[o]
      <4>1. ~Landed(o)
        <5> SUFFICES ASSUME NEW f \in Flushes, Sending(f), flush[f].server = "applied", o = Here(f)
                     PROVE  FALSE
          BY DEF Landed
        <5>1. flush[f].arr \in Arrays /\ flush[f].pos \in DOMAIN array[flush[f].arr]
          BY <1>p DEF HeapInv
        <5>2. array'[flush[f].arr][flush[f].pos] = array[flush[f].arr][flush[f].pos]
          BY <5>1, EnqueueQueue
        <5> QED BY <1>p, <2>2, <5>2 DEF Landed, Here, Sending
      <4> QED BY <1>p, <3>1, <4>1 DEF IInv, SentInv, Clean
    <3>2. CASE object'[o] = [id |-> count + 1, retryCount |-> 0]
      BY <1>p, <3>2 DEF Clean, EntriesInv
    <3> QED BY <1>a, <2>2, <3>1, <3>2
  <2> QED BY <1>p, <2>1, <2>2, EnqueueQueue DEF SentInv, Clean
<1>6. TriesInv'
  <2> SUFFICES ASSUME ~overlapped, restarts = 0 PROVE TriesInv'
    BY <1>p DEF TriesInv
  <2>1. ASSUME NEW o \in DOMAIN object', Ahead(o)'
        PROVE  object'[o].retryCount = failures[object'[o].id] /\ object'[o].retryCount < MaxRetries
    <3>1. CASE o \in DOMAIN object /\ Ahead(o) /\ object'[o] = object[o]
      BY <3>1 DEF IInv, TriesInv
    <3>2. CASE object'[o] = [id |-> count + 1, retryCount |-> 0]
      BY <1>p, <3>2, BoundsAssumption DEF EntriesInv
    <3> QED BY <1>a, <2>1, <3>1, <3>2
  <2> QED BY <1>p, <2>1, EnqueueQueue DEF IInv, TriesInv
<1> QED BY <1>p, <1>1, <1>2, <1>3, <1>4, <1>5, <1>6 DEF IInv
-----------------------------------------------------------------------------
\* What is parsed is as genuine as what was read.
LEMMA ParsedGenuine ==
  ASSUME Types, AllGenuine(object), NEW raw \in Seq(Entry), AllGenuine(raw)
  PROVE  AllGenuine(object \o raw)
<1> SUFFICES ASSUME NEW i \in DOMAIN (object \o raw) PROVE Genuine((object \o raw)[i])
  BY DEF AllGenuine
<1>1. CASE i \in DOMAIN object
  BY <1>1, ParsedFacts DEF AllGenuine
<1>2. CASE i \notin DOMAIN object
  <2>1. PICK k \in 1..Len(raw) : i = Len(object) + k
    <3>1. /\ Len(object) \in Nat /\ Len(raw) \in Nat /\ i \in 1..(Len(object) + Len(raw))
          /\ DOMAIN object = 1..Len(object)
      BY ParsedFacts
    <3>2. i - Len(object) \in 1..Len(raw) /\ i = Len(object) + (i - Len(object))
      BY <3>1, <1>2
    <3> QED BY <3>2
  <2>2. (object \o raw)[i] = raw[k] /\ k \in DOMAIN raw
    BY <2>1, ParsedFacts
  <2> QED BY <2>2 DEF AllGenuine
<1> QED BY <1>1, <1>2

\* What loadQueue makes of the storage for enqueue: all that was read, or nothing.
Loading(c, raw, lost) ==
  \/ raw = caller[c].raw /\ lost = {}
  \/ raw = <<>> /\ lost = IdsOf(disk)

\* loadQueue is through: the queue is its entries and the new one, in an array that
\* nobody walks.
LEMMA EnqueueGoesOnQueue ==
  ASSUME IInv, NEW c \in Callers, NEW raw, NEW n \in Nat, NEW lost, Loading(c, raw, lost),
         EnqueueGoesOn(c, raw, n, lost)
  PROVE  /\ raw \in Seq(Entry) /\ object \o raw \in Seq(Entry)
         /\ Parsed(raw) \in Seq(Nat)
         /\ Pushed(object \o raw, New, Parsed(raw), lost)
         /\ EntriesInv' /\ count + 1 \in Ids \ Accepted
         /\ UNCHANGED <<flush, applied, failures, settled, abandoned, unsure, restarts>>
         /\ caller' = [caller EXCEPT ![c] = NoCall]
         /\ caller' \in [Callers -> [pc : {"idle", "read"}, raw : Seq(Entry)]]
         /\ overlapped' = (overlapped \/ cached # NoArray)
         /\ cached' \in Arrays /\ array'[cached'] = Queue'
         /\ \A a \in Arrays : a # cached' => array'[a] = array[a]
         /\ \A g \in Flushes : flush[g].arr # cached'
         /\ \A o \in DOMAIN object : o \in DOMAIN object' /\ object'[o] = object[o]
         /\ \A i \in DOMAIN Queue' :
              \/ i \in DOMAIN raw /\ object'[Queue'[i]] = raw[i]
              \/ i = Len(raw) + 1
                 /\ object'[Queue'[i]] = [id |-> count + 1, retryCount |-> 0]
         /\ \A i \in DOMAIN raw :
              i \in DOMAIN Queue' /\ object'[Queue'[i]] = raw[i]
<1>t. Types /\ EntriesInv /\ HeapInv
  BY DEF IInv
<1>1. raw \in Seq(Entry) /\ AllGenuine(raw) /\ AllGenuine(object) /\ count < MaxMutations
  <2>1. caller[c].raw \in Seq(Entry) /\ AllGenuine(caller[c].raw) /\ AllGenuine(object)
    BY <1>t DEF Types, EntriesInv
  <2>2. <<>> \in Seq(Entry) /\ AllGenuine(<<>>)
    BY EmptySeq DEF AllGenuine
  <2> QED BY <2>1, <2>2 DEF EnqueueGoesOn, Loading
<1>2. /\ New \in Arrays /\ New # cached
      /\ \A f \in Flushes : New # flush[f].arr
  BY <1>t, NewFree
<1>3. /\ object \o raw \in Seq(Entry) /\ Parsed(raw) \in Seq(Nat)
      /\ \A i \in DOMAIN Parsed(raw) : Parsed(raw)[i] \in DOMAIN (object \o raw)
  BY <1>1, <1>t, ParsedFacts
<1>4. Push(object \o raw, New, Parsed(raw), n, lost)
  BY DEF EnqueueGoesOn
<1>5. Pushed(object \o raw, New, Parsed(raw), lost)
  BY <1>t, <1>1, <1>2, <1>3, <1>4, PushFacts
<1>6. /\ UNCHANGED <<flush, applied, failures, settled, abandoned, unsure, restarts>>
      /\ caller' = [caller EXCEPT ![c] = NoCall]
      /\ overlapped' = (overlapped \/ cached # NoArray)
  BY DEF EnqueueGoesOn
<1>7. /\ caller' \in [Callers -> [pc : {"idle", "read"}, raw : Seq(Entry)]]
      /\ \A d \in Callers : caller'[d].raw \in {caller[d].raw, <<>>}
  BY <1>t, <1>6, EmptySeq DEF Types, NoCall
<1>8. EntriesInv' /\ count + 1 \in Ids \ Accepted
  <2>1. AllGenuine(object \o raw)
    BY <1>t, <1>1, ParsedGenuine
  <2> QED BY <1>t, <1>1, <1>2, <1>3, <1>4, <1>6, <1>7, <2>1, PushEntries
<1>9. /\ cached' \in Arrays /\ array'[cached'] = Queue'
      /\ \A a \in Arrays : a # cached' => array'[a] = array[a]
      /\ \A g \in Flushes : flush[g].arr # cached'
  BY <1>t, <1>2, <1>5 DEF Pushed, Types
<1>10. ASSUME NEW o \in DOMAIN object PROVE o \in DOMAIN object' /\ object'[o] = object[o]
  <2>1. /\ o \in 1..Len(object) /\ Len(object) \in Nat /\ Len(raw) \in Nat
        /\ Len(object \o raw) = Len(object) + Len(raw) /\ (object \o raw)[o] = object[o]
    BY <1>t, <1>1, ParsedFacts
  <2>2. o \in 1..Len(object \o raw) /\ o \in 1..(Len(object \o raw) + 1)
    BY <2>1
  <2> QED BY <1>5, <2>1, <2>2 DEF Pushed
<1>11. ASSUME NEW i \in DOMAIN raw
       PROVE  i \in DOMAIN Queue' /\ object'[Queue'[i]] = raw[i]
  <2>1. /\ i \in 1..Len(raw) /\ Len(raw) \in Nat /\ Len(object) \in Nat
        /\ Len(Parsed(raw)) = Len(raw) /\ Len(object \o raw) = Len(object) + Len(raw)
        /\ Parsed(raw)[i] = Len(object) + i /\ (object \o raw)[Len(object) + i] = raw[i]
    BY <1>t, <1>1, ParsedFacts
  <2>2. i \in 1..(Len(raw) + 1) /\ Len(object) + i \in 1..(Len(object) + Len(raw))
    BY <2>1
  <2>3. i \in DOMAIN Queue' /\ Queue'[i] = Len(object) + i
    BY <1>5, <2>1, <2>2 DEF Pushed
  <2>4. object'[Len(object) + i] = raw[i]
    BY <1>5, <2>1, <2>2 DEF Pushed
  <2> QED BY <2>3, <2>4
<1>12. ASSUME NEW i \in DOMAIN Queue'
       PROVE  \/ i \in DOMAIN raw /\ object'[Queue'[i]] = raw[i]
              \/ i = Len(raw) + 1 /\ object'[Queue'[i]] = [id |-> count + 1, retryCount |-> 0]
  <2>1. Len(Parsed(raw)) = Len(raw) /\ Len(raw) \in Nat /\ DOMAIN raw = 1..Len(raw)
    BY <1>t, <1>1, ParsedFacts
  <2>2. i \in 1..(Len(raw) + 1)
    BY <1>5, <2>1 DEF Pushed
  <2>3. CASE i \in 1..Len(raw)
    BY <1>11, <2>1, <2>3
  <2>4. CASE i = Len(raw) + 1
    BY <1>5, <2>1, <2>4 DEF Pushed
  <2> QED BY <2>1, <2>2, <2>3, <2>4
<1> QED BY <1>1, <1>3, <1>5, <1>6, <1>7, <1>8, <1>9, <1>10, <1>11, <1>12

\* enqueue after loadQueue.  Unless calls overlapped nothing was cached, so nobody walks
\* and what was read is what is stored, or nothing.
LEMMA EnqueueGoesOnKeeps ==
  ASSUME IInv, NEW c \in Callers, NEW raw, NEW n \in Nat, NEW lost, Loading(c, raw, lost),
         EnqueueGoesOn(c, raw, n, lost)
  PROVE  IInv'
<1>q. /\ raw \in Seq(Entry) /\ object \o raw \in Seq(Entry) /\ Parsed(raw) \in Seq(Nat)
      /\ Pushed(object \o raw, New, Parsed(raw), lost)
      /\ EntriesInv' /\ count + 1 \in Ids \ Accepted
      /\ UNCHANGED <<flush, applied, failures, settled, abandoned, unsure, restarts>>
      /\ caller' = [caller EXCEPT ![c] = NoCall]
      /\ caller' \in [Callers -> [pc : {"idle", "read"}, raw : Seq(Entry)]]
      /\ overlapped' = (overlapped \/ cached # NoArray)
      /\ cached' \in Arrays /\ array'[cached'] = Queue'
      /\ \A a \in Arrays : a # cached' => array'[a] = array[a]
      /\ \A g \in Flushes : flush[g].arr # cached'
      /\ \A o \in DOMAIN object : o \in DOMAIN object' /\ object'[o] = object[o]
      /\ \A i \in DOMAIN Queue' :
           \/ i \in DOMAIN raw /\ object'[Queue'[i]] = raw[i]
           \/ i = Len(raw) + 1 /\ object'[Queue'[i]] = [id |-> count + 1, retryCount |-> 0]
      /\ \A i \in DOMAIN raw : i \in DOMAIN Queue' /\ object'[Queue'[i]] = raw[i]
  BY EnqueueGoesOnQueue
<1>t. Types /\ EntriesInv /\ HeapInv /\ New \in Arrays
  BY NewFree DEF IInv
<1>n. cached' # NoArray
  BY <1>q, NamesAssumption
<1>r. /\ cached = NoArray => (raw = disk \/ raw = <<>>) /\ \A f \in Flushes : ~Sending(f)
      /\ cached = NoArray => raw = disk \/ lost = IdsOf(disk)
  BY <1>t DEF HeapInv, EnqueueGoesOn, Loading
<1>k. lost \subseteq Accepted
  BY <1>t, IdsOfAccepted DEF Loading, EntriesInv
<1>1. Types'
  <2>1. excused' \subseteq Accepted'
    BY <1>k, <1>q, <1>t, PushExcuses
  <2>2. /\ object' \in Seq(Entry) /\ disk' \in Seq(Entry) /\ array' \in [Arrays -> Seq(Nat)]
        /\ cached' \in Arrays \cup {NoArray} /\ count' \in 0..MaxMutations
        /\ faults' \in Nat
    BY <1>q DEF Pushed
  <2>3. settled' \subseteq Accepted' /\ abandoned' \subseteq Accepted' /\ unsure' \subseteq Accepted'
    <3>1. Accepted \subseteq Accepted'
      BY <1>q, <1>t DEF Pushed, Types, Accepted
    <3> QED BY <1>q, <1>t, <3>1 DEF Types
  <2>4. overlapped' \in BOOLEAN
    BY <1>q
  <2> QED BY <1>q, <1>t, <2>1, <2>2, <2>3, <2>4 DEF Types
<1>2. HeapInv'
  <2>1. ASSUME NEW a \in Arrays PROVE OnHeap(array[a])'
    <3>1. CASE a = cached'
      BY <3>1, <1>q DEF OnHeap, Pushed
    <3>2. CASE a # cached'
      <4>1. OnHeap(array[a]) /\ array'[a] = array[a]
        BY <3>2, <1>q, <1>t DEF HeapInv
      <4> QED BY <4>1, <1>q DEF OnHeap
    <3> QED BY <3>1, <3>2
  <2>2. ASSUME NEW g \in Flushes, Sending(g)'
        PROVE  /\ flush'[g].arr \in Arrays
               /\ flush'[g].pos \in DOMAIN (array'[flush'[g].arr])
               /\ OnHeap(flush[g].rest)'
    <3>1. /\ flush[g].arr \in Arrays /\ flush[g].pos \in DOMAIN array[flush[g].arr]
          /\ OnHeap(flush[g].rest) /\ flush'[g] = flush[g]
      BY <1>q, <1>t, <2>2 DEF HeapInv, Sending
    <3>2. array'[flush[g].arr] = array[flush[g].arr]
      BY <1>q, <3>1
    <3> QED BY <1>q, <3>1, <3>2 DEF OnHeap
  <2> QED BY <1>n, <2>1, <2>2 DEF HeapInv
<1>4. Kept'
  <2>1. cached = NoArray => IdsOf(disk) \subseteq IdsIn(object', Queue') \cup lost
    <3>1. IdsOf(raw) \subseteq IdsIn(object', Queue')
      BY <1>q DEF IdsOf, IdsIn
    <3> QED BY <3>1, <1>r
  <2>2. Kept
    BY DEF IInv
  <2>3. PICK objs \in Seq(Entry), a \in Arrays, seq \in Seq(Nat) : Pushed(objs, a, seq, lost)
    BY <1>q, <1>t
  <2>4. settled' = settled
    BY <1>q
  <2> QED BY <1>t, <2>1, <2>2, <2>3, <2>4, PushKept
<1>s. ASSUME ~overlapped'
      PROVE  /\ ~overlapped /\ cached = NoArray /\ (raw = disk \/ raw = <<>>)
             /\ \A f \in Flushes : ~Sending(f) /\ ~Sending(f)'
  BY <1>q, <1>r, <1>s DEF Sending
<1>a. ASSUME NEW o, Ahead(o)', ~overlapped'
      PROVE  \/ \E i \in DOMAIN disk : object'[o] = disk[i]
             \/ object'[o] = [id |-> count + 1, retryCount |-> 0]
  BY <1>a, <1>q, <1>s DEF Ahead
<1>3. WalkInv'
  <2> SUFFICES ASSUME ~overlapped' PROVE WalkInv'
    BY DEF WalkInv
  <2>0. \A i, j \in DOMAIN disk : disk[i].id = disk[j].id => i = j
    BY <1>s DEF IInv, WalkInv
  <2>1. \A k \in DOMAIN disk : disk[k].id # count + 1
    BY <1>q, <1>t DEF EntriesInv, AllGenuine, Genuine
  <2>2. ASSUME NEW i \in DOMAIN Queue', NEW j \in DOMAIN Queue', IdAt(i)' = IdAt(j)'
        PROVE  i = j
    BY <1>q, <1>s, <2>0, <2>1, <2>2 DEF IdAt
  <2>3. \A i, j \in DOMAIN disk' : disk'[i].id = disk'[j].id => i = j
    <3>1. CASE disk' = disk
      BY <3>1, <2>0
    <3>2. CASE disk' = Written'
      BY <3>2, <2>2 DEF Written, IdAt
    <3> QED BY <1>q, <3>1, <3>2 DEF Pushed
  <2> QED BY <1>s, <2>2, <2>3 DEF WalkInv
<1>5. SentInv'
  <2> SUFFICES ASSUME ~overlapped' PROVE SentInv'
    BY DEF SentInv
  <2>1. /\ \A m \in Ids : applied[m] <= 1 \/ m \in unsure
        /\ \A i \in DOMAIN disk : Clean(disk[i].id)
    BY <1>s DEF IInv, SentInv
  <2>2. Clean(count + 1)
    BY <1>q, <1>t DEF Clean, EntriesInv
  <2>3. ASSUME NEW o \in DOMAIN object', Ahead(o)' PROVE Clean(object[o].id)'
    <3>1. Clean(object'[o].id)
      BY <1>a, <2>1, <2>2, <2>3
    <3> QED BY <3>1, <1>q DEF Clean
  <2> QED BY <1>n, <1>q, <2>1, <2>3 DEF SentInv
<1>6. TriesInv'
  <2> SUFFICES ASSUME ~overlapped', restarts = 0 PROVE TriesInv'
    BY <1>q DEF TriesInv
  <2>1. disk = <<>> /\ \A m \in Ids : failures[m] <= MaxRetries
    BY <1>s DEF IInv, TriesInv
  <2>2. failures[count + 1] = 0 /\ 0 < MaxRetries
    BY <1>q, <1>t, BoundsAssumption DEF EntriesInv
  <2>3. ASSUME NEW o \in DOMAIN object', Ahead(o)'
        PROVE  object'[o].retryCount = failures[object'[o].id] /\ object'[o].retryCount < MaxRetries
    <3>1. object'[o] = [id |-> count + 1, retryCount |-> 0]
      BY <1>a, <2>1, <2>3
    <3> QED BY <3>1, <2>2
  <2> QED BY <1>n, <1>q, <2>1, <2>3 DEF TriesInv
<1> QED BY <1>q, <1>1, <1>2, <1>3, <1>4, <1>5, <1>6 DEF IInv

LEMMA EnqueueLoadedKeeps ==
  ASSUME IInv, NEW c \in Callers, EnqueueLoaded(c) \/ EnqueueLoadFails(c)
  PROVE  IInv'
<1>1. CASE EnqueueLoaded(c)
  <2>1. EnqueueGoesOn(c, caller[c].raw, 0, {}) /\ Loading(c, caller[c].raw, {})
    BY <1>1 DEF EnqueueLoaded, Loading
  <2> QED BY <2>1, EnqueueGoesOnKeeps
<1>2. CASE EnqueueLoadFails(c)
  <2>1. EnqueueGoesOn(c, <<>>, 1, IdsOf(disk)) /\ Loading(c, <<>>, IdsOf(disk))
    BY <1>2 DEF EnqueueLoadFails, Loading
  <2> QED BY <2>1, EnqueueGoesOnKeeps
<1> QED BY <1>1, <1>2
-----------------------------------------------------------------------------
\* Calls that read the storage: nothing is cached and nothing else moves.
LEMMA ReadsKeep ==
  ASSUME IInv,
         \/ \E c \in Callers : EnqueueReads(c)
         \/ \E f \in Flushes : SyncReads(f)
  PROVE  IInv'
<1>t. Types /\ EntriesInv /\ HeapInv /\ cached = NoArray
  BY DEF IInv, EnqueueReads, SyncReads
<1>u. UNCHANGED <<array, object, cached, disk, history, faults, restarts>>
  BY DEF EnqueueReads, SyncReads
<1>v. /\ UNCHANGED <<count, applied, failures, settled, abandoned, excused, unsure, overlapped>>
      /\ Queue' = Queue
  BY <1>u DEF history, Queue
<1>1. /\ flush' \in [Flushes -> CallType]
      /\ \A f \in Flushes : /\ ~Sending(f)'
                            /\ flush'[f].raw \in {flush[f].raw, disk}
                            /\ flush'[f].pc = "read" => flush'[f].raw = disk
      /\ caller' \in [Callers -> [pc : {"idle", "read"}, raw : Seq(Entry)]]
      /\ \A c \in Callers : /\ caller'[c].raw \in {caller[c].raw, disk}
                            /\ caller'[c].pc = "read" => caller'[c].raw = disk
  <2>1. CASE \E c \in Callers : EnqueueReads(c)
    BY <1>t, <2>1 DEF EnqueueReads, Types, HeapInv, Sending
  <2>2. CASE \E f \in Flushes : SyncReads(f)
    <3>1. PICK f \in Flushes : SyncReads(f)
      BY <2>2
    <3>2. [NoFlush EXCEPT !.pc = "read", !.raw = disk] \in CallType
      BY <1>t, EmptySeq DEF NoFlush, CallType, Types
    <3>3. /\ flush' = [flush EXCEPT ![f] = [NoFlush EXCEPT !.pc = "read", !.raw = disk]]
          /\ caller' = caller
      BY <3>1 DEF SyncReads
    <3>4. flush' \in [Flushes -> CallType]
      BY <1>t, <3>2, <3>3 DEF Types
    <3> QED BY <1>t, <3>3, <3>4 DEF Types, HeapInv, Sending, NoFlush
  <2> QED BY <2>1, <2>2
<1>2. Types'
  BY <1>1, <1>t, <1>u, <1>v DEF Types, Accepted
<1>3. EntriesInv'
  BY <1>1, <1>t, <1>u, <1>v DEF EntriesInv, AllGenuine, Genuine, Accepted
<1>4. HeapInv'
  BY <1>1, <1>t, <1>u, <1>v DEF HeapInv, OnHeap
<1>5. WalkInv'
  BY <1>1, <1>u, <1>v DEF IInv, WalkInv, IdAt
<1>6. Kept'
  BY <1>u, <1>v DEF IInv, Kept, Accepted
<1>7. \A o : ~Ahead(o)' /\ ~Ahead(o)
  BY <1>t, <1>v DEF Ahead, Queue
<1>8. SentInv' /\ TriesInv'
  BY <1>7, <1>u, <1>v DEF IInv, SentInv, TriesInv, Clean
<1> QED BY <1>2, <1>3, <1>4, <1>5, <1>6, <1>8 DEF IInv

\* flush starts to walk the cached queue: unless it overlaps another walk it is the
\* only one.
LEMMA StartSyncKeeps ==
  ASSUME IInv, NEW f \in Flushes, StartSync(f)
  PROVE  IInv'
<1>t. /\ Types /\ EntriesInv /\ HeapInv /\ cached # NoArray /\ Queue # <<>>
      /\ array[cached] = Queue /\ cached \in Arrays
      /\ Queue \in Seq(Nat) /\ Len(Queue) \in Nat /\ DOMAIN Queue = 1..Len(Queue)
  BY QueueType DEF IInv, StartSync, Queue, Types
<1>u. /\ UNCHANGED <<array, object, cached, caller, disk, count, applied, failures,
                 settled, abandoned, excused, unsure, faults, restarts>>
      /\ Queue' = Queue
  BY DEF StartSync, Queue
<1> DEFINE call == [NoFlush EXCEPT !.pc = "send", !.arr = cached]
<1>w. /\ flush' = [flush EXCEPT ![f] = call]
      /\ overlapped' = (overlapped \/ \E g \in Flushes : Sending(g))
  BY <1>t DEF StartSync, Walk, Sending
<1>c. /\ call \in CallType /\ call.pc = "send" /\ call.arr = cached /\ call.pos = 1
      /\ call.rest = <<>> /\ call.raw = <<>> /\ call.server = "none"
  BY <1>t, EmptySeq DEF NoFlush, CallType
<1> HIDE DEF call
<1>1. /\ flush' \in [Flushes -> CallType] /\ flush'[f] = call
      /\ \A g \in Flushes \ {f} : flush'[g] = flush[g]
  BY <1>t, <1>w, <1>c DEF Types
<1>2. Types'
  BY <1>1, <1>t, <1>u, <1>w DEF Types, Accepted
<1>3. EntriesInv'
  <2>1. \A g \in Flushes : AllGenuine(flush[g].raw)'
    BY <1>1, <1>c, <1>t, <1>u DEF EntriesInv, AllGenuine, Genuine, Accepted
  <2> QED BY <2>1, <1>t, <1>u DEF EntriesInv, AllGenuine, Genuine, Accepted
<1>4. HeapInv'
  <2>1. 1 \in DOMAIN Queue
    BY <1>t, EmptySeq
  <2>2. ASSUME NEW g \in Flushes, Sending(g)'
        PROVE  /\ flush'[g].arr \in Arrays
               /\ flush'[g].pos \in DOMAIN (array'[flush'[g].arr])
               /\ OnHeap(flush[g].rest)'
    <3>1. CASE g = f
      BY <3>1, <1>1, <1>c, <1>t, <1>u, <2>1 DEF OnHeap
    <3>2. CASE g # f
      BY <3>2, <2>2, <1>1, <1>t, <1>u DEF OnHeap, HeapInv, Sending
    <3> QED BY <3>1, <3>2
  <2> QED BY <2>2, <1>t, <1>u DEF HeapInv, OnHeap
<1>6. Kept'
  BY <1>u DEF IInv, Kept, Accepted
<1>s. ASSUME ~overlapped'
      PROVE  /\ ~overlapped /\ \A g \in Flushes : ~Sending(g)
             /\ \A g \in Flushes : Sending(g)' => g = f
  BY <1>s, <1>w, <1>1 DEF Sending
<1>p. \A i : ~Passed(f, i)'
  BY <1>1, <1>c, <1>t, <1>u DEF Passed
<1>5. WalkInv'
  <2> SUFFICES ASSUME ~overlapped' PROVE WalkInv'
    BY DEF WalkInv
  <2>1. flush'[f].arr = cached' /\ flush'[f].rest = <<>>
    BY <1>1, <1>c, <1>u
  <2>2. /\ \A i, j \in DOMAIN disk' : disk'[i].id = disk'[j].id => i = j
        /\ \A i, j \in DOMAIN Queue' : IdAt(i)' = IdAt(j)' => i = j
    BY <1>s, <1>u DEF IInv, WalkInv, IdAt
  <2> QED BY <1>s, <1>p, <2>1, <2>2 DEF WalkInv
<1>7. ASSUME NEW o, ~overlapped', Ahead(o)'
      PROVE  Ahead(o) /\ ~Landed(o)
  BY <1>s, <1>u, <1>7 DEF Ahead, Landed
<1>8. SentInv'
  BY <1>7, <1>s, <1>t, <1>u DEF IInv, SentInv, Clean
<1>9. TriesInv'
  BY <1>7, <1>s, <1>t, <1>u DEF IInv, TriesInv
<1> QED BY <1>2, <1>3, <1>4, <1>5, <1>6, <1>8, <1>9 DEF IInv
-----------------------------------------------------------------------------
\* The storage answered, or did not answer, syncNow: what it makes of that is the queue,
\* in an array that nobody else walks.
Loads(f, raw) ==
  /\ flush[f].pc = "read" /\ object' = object \o raw
  /\ array' = [array EXCEPT ![New] = Parsed(raw)] /\ cached' = New
  /\ Walk(f, New, Parsed(raw)) /\ excused' \subseteq Accepted /\ faults' \in Nat
  /\ UNCHANGED <<caller, disk, count, applied, failures, settled, abandoned, unsure, restarts>>

LEMMA LoadKeeps ==
  ASSUME IInv, NEW f \in Flushes, NEW raw \in Seq(Entry), AllGenuine(raw), Loads(f, raw),
         cached = NoArray => raw = disk \/ raw = <<>>
  PROVE  Types' /\ EntriesInv' /\ HeapInv' /\ WalkInv' /\ SentInv' /\ TriesInv'
<1>t. Types /\ EntriesInv /\ HeapInv
  BY DEF IInv
<1>l. /\ flush[f].pc = "read" /\ object' = object \o raw
      /\ array' = [array EXCEPT ![New] = Parsed(raw)] /\ cached' = New
      /\ Walk(f, New, Parsed(raw)) /\ excused' \subseteq Accepted /\ faults' \in Nat
      /\ UNCHANGED <<caller, disk, count, applied, failures, settled, abandoned, unsure, restarts>>
  BY DEF Loads
<1>n. New \in Arrays /\ New # cached /\ New # NoArray /\ \A g \in Flushes : New # flush[g].arr
  BY <1>t, NewFree, NamesAssumption
<1>o. /\ object' \in Seq(Entry) /\ Parsed(raw) \in Seq(Nat)
      /\ DOMAIN Parsed(raw) = DOMAIN raw /\ DOMAIN raw = 1..Len(raw)
      /\ Len(raw) \in Nat /\ Len(Parsed(raw)) = Len(raw)
      /\ \A o \in DOMAIN object : object'[o] = object[o]
      /\ \A i \in DOMAIN raw : object'[Parsed(raw)[i]] = raw[i]
      /\ \A i \in DOMAIN raw : Parsed(raw)[i] \in DOMAIN object'
  BY <1>t, <1>l, ParsedFacts
<1>d. \A o \in DOMAIN object : o \in DOMAIN object'
  <2>1. /\ Len(object) \in Nat /\ DOMAIN object = 1..Len(object) /\ Len(raw) \in Nat
        /\ DOMAIN object' = 1..(Len(object) + Len(raw))
    BY <1>t, <1>l, ParsedFacts
  <2> QED BY <2>1
<1>a. /\ array' \in [Arrays -> Seq(Nat)] /\ array'[New] = Parsed(raw)
      /\ \A a \in Arrays \ {New} : array'[a] = array[a] /\ Queue' = Parsed(raw)
  BY <1>l, <1>n, <1>o, <1>t DEF Types, Queue
<1>q. Queue' = Parsed(raw) /\ cached' # NoArray
  BY <1>a, <1>l, <1>n DEF Queue
<1> DEFINE call == [NoFlush EXCEPT !.pc = "send", !.arr = New]
<1>w. /\ flush' = [flush EXCEPT ![f] = IF Parsed(raw) = <<>> THEN NoFlush ELSE call]
      /\ overlapped' = (\/ overlapped
                        \/ Parsed(raw) # <<>> /\ \E g \in Flushes : Sending(g)
                        \/ cached # NoArray)
  BY <1>l, <1>n DEF Walk, Sending
<1>c. /\ call \in CallType /\ call.pc = "send" /\ call.arr = New /\ call.pos = 1
      /\ call.rest = <<>> /\ call.raw = <<>> /\ call.server = "none"
      /\ NoFlush \in CallType /\ NoFlush.pc = "idle" /\ NoFlush.raw = <<>>
  BY <1>n, EmptySeq DEF NoFlush, CallType
<1> HIDE DEF call
<1>1. /\ flush' \in [Flushes -> CallType]
      /\ flush'[f] = NoFlush \/ (Parsed(raw) # <<>> /\ flush'[f] = call)
      /\ \A g \in Flushes \ {f} : flush'[g] = flush[g]
  BY <1>t, <1>w, <1>c DEF Types
<1>2. Types'
  <2>1. overlapped' \in BOOLEAN
    BY <1>w, <1>t DEF Types
  <2> QED BY <1>1, <1>t, <1>l, <1>n, <1>o, <1>a, <2>1 DEF Types, Accepted
<1>3. EntriesInv'
  <2>1. ASSUME NEW g \in Flushes PROVE AllGenuine(flush[g].raw)'
    <3>1. flush'[g].raw = flush[g].raw \/ flush'[g].raw = <<>>
      BY <1>1, <1>c
    <3> QED BY <3>1, <1>t, <1>l DEF EntriesInv, AllGenuine, Genuine, Accepted
  <2>2. AllGenuine(object)'
    <3>1. AllGenuine(object')
      BY <1>l, <1>t, ParsedGenuine DEF EntriesInv
    <3> QED BY <3>1, <1>l DEF AllGenuine, Genuine, Accepted
  <2> QED BY <2>1, <2>2, <1>t, <1>l DEF EntriesInv, AllGenuine, Genuine, Accepted
<1>4. HeapInv'
  <2>1. ASSUME NEW a \in Arrays PROVE OnHeap(array[a])'
    <3>1. CASE a = New
      BY <3>1, <1>a, <1>o DEF OnHeap
    <3>2. CASE a # New
      <4>1. OnHeap(array[a]) /\ array'[a] = array[a]
        BY <3>2, <1>a, <1>t DEF HeapInv
      <4> QED BY <4>1, <1>d DEF OnHeap
    <3> QED BY <3>1, <3>2
  <2>2. ASSUME NEW g \in Flushes, Sending(g)'
        PROVE  /\ flush'[g].arr \in Arrays
               /\ flush'[g].pos \in DOMAIN (array'[flush'[g].arr])
               /\ OnHeap(flush[g].rest)'
    <3>1. CASE g = f
      <4>1. flush'[f] = call /\ Parsed(raw) # <<>>
        BY <1>1, <1>c, <2>2, <3>1 DEF Sending
      <4>2. 1 \in DOMAIN Parsed(raw)
        BY <1>o, <4>1, EmptySeq
      <4> QED BY <3>1, <4>1, <4>2, <1>a, <1>c, <1>n DEF OnHeap
    <3>2. CASE g # f
      <4>1. /\ flush[g].arr \in Arrays /\ flush[g].pos \in DOMAIN array[flush[g].arr]
            /\ OnHeap(flush[g].rest) /\ flush'[g] = flush[g]
        BY <1>1, <1>t, <2>2, <3>2 DEF HeapInv, Sending
      <4>2. array'[flush[g].arr] = array[flush[g].arr]
        BY <4>1, <1>a, <1>n
      <4> QED BY <4>1, <4>2, <1>d DEF OnHeap
    <3> QED BY <3>1, <3>2
  <2> QED BY <2>1, <2>2, <1>q DEF HeapInv
<1>s. ASSUME ~overlapped'
      PROVE  /\ ~overlapped /\ cached = NoArray /\ (raw = disk \/ raw = <<>>)
             /\ \A g \in Flushes : ~Sending(g)
             /\ \A g \in Flushes : Sending(g)' => g = f /\ flush'[g] = call
  BY <1>s, <1>w, <1>1, <1>t, <1>c DEF Sending, HeapInv
<1>e. ASSUME ~overlapped', NEW i \in DOMAIN Queue'
      PROVE  i \in DOMAIN disk /\ object'[Queue'[i]] = disk[i]
  BY <1>e, <1>s, <1>q, <1>o
<1>5. WalkInv'
  <2> SUFFICES ASSUME ~overlapped' PROVE WalkInv'
    BY DEF WalkInv
  <2>0. ~overlapped
    BY <1>w
  <2>2. \A i, j \in DOMAIN disk : disk[i].id = disk[j].id => i = j
    BY <2>0 DEF IInv, WalkInv
  <2>3. \A i, j \in DOMAIN Queue' : IdAt(i)' = IdAt(j)' => i = j
    BY <1>e, <2>2 DEF IdAt
  <2>4. ASSUME NEW g \in Flushes, Sending(g)'
        PROVE  flush'[g].arr = cached' /\ flush'[g].rest = <<>> /\ flush'[g].pos = 1 /\ g = f
    BY <1>s, <2>4, <1>c, <1>l
  <2>5. \A g \in Flushes, i \in DOMAIN Queue' : Sending(g)' => ~Passed(g, i)'
    BY <2>4, <1>q, <1>o DEF Passed
  <2> QED BY <2>2, <2>3, <2>4, <2>5, <1>l DEF WalkInv, Passed
<1>p. ~overlapped' => ~overlapped /\ cached = NoArray
  BY <1>w
<1>8. SentInv'
  <2> SUFFICES ASSUME ~overlapped' PROVE SentInv'
    BY DEF SentInv
  <2>1. /\ \A m \in Ids : applied[m] <= 1 \/ m \in unsure
        /\ \A i \in DOMAIN disk : Clean(disk[i].id)
    BY <1>p DEF IInv, SentInv
  <2>2. ASSUME NEW o, Ahead(o)' PROVE Clean(object'[o].id)
    BY <1>e, <2>1, <2>2 DEF Ahead
  <2> QED BY <2>1, <2>2, <1>l, <1>q DEF SentInv, Clean
<1>9. TriesInv'
  <2> SUFFICES ASSUME ~overlapped', restarts = 0 PROVE TriesInv'
    BY <1>l DEF TriesInv
  <2>1. disk = <<>> /\ \A m \in Ids : failures[m] <= MaxRetries
    BY <1>p DEF IInv, TriesInv
  <2>2. \A o : ~Ahead(o)'
    BY <1>e, <2>1 DEF Ahead
  <2> QED BY <2>1, <2>2, <1>l, <1>q DEF TriesInv
<1> QED BY <1>2, <1>3, <1>4, <1>5, <1>8, <1>9

LEMMA SyncLoadedKeeps ==
  ASSUME IInv, NEW f \in Flushes, SyncLoaded(f)
  PROVE  IInv'
<1> DEFINE raw == flush[f].raw
<1>t. /\ Types /\ EntriesInv /\ HeapInv /\ Kept /\ raw \in Seq(Entry) /\ AllGenuine(raw)
      /\ flush[f].pc = "read" /\ (cached = NoArray => raw = disk)
  BY DEF IInv, Types, CallType, EntriesInv, HeapInv, SyncLoaded
<1>x. excused' = excused \cup (IdsIn(object, Queue) \ IdsOf(raw))
  BY DEF SyncLoaded, Dropped
<1>1. Loads(f, raw)
  <2>1. IdsIn(object, Queue) \subseteq Accepted
    BY <1>t, QueueOnHeap, IdsAccepted DEF EntriesInv
  <2>2. excused' \subseteq Accepted /\ faults' \in Nat
    BY <1>t, <1>x, <2>1 DEF Types, SyncLoaded
  <2> QED BY <1>t, <2>2 DEF SyncLoaded, Loads
<1> HIDE DEF raw
<1>2. Types' /\ EntriesInv' /\ HeapInv' /\ WalkInv' /\ SentInv' /\ TriesInv'
  BY <1>1, <1>t, LoadKeeps
<1>3. IdsIn(object', Queue') = IdsOf(raw)
  <2>1. New \in Arrays /\ New # NoArray
    BY <1>t, NewFree, NamesAssumption
  <2>2. Queue' = Parsed(raw)
    BY <1>1, <1>t, <2>1 DEF Loads, Types, Queue
  <2>3. /\ DOMAIN Queue' = DOMAIN raw
        /\ \A i \in DOMAIN raw : object'[Queue'[i]] = raw[i]
    BY <1>1, <1>t, <2>2, ParsedFacts DEF Loads
  <2> QED BY <2>3 DEF IdsIn, IdsOf
<1>4. Kept'
  <2> SUFFICES ASSUME NEW m \in Accepted, m \notin settled, m \notin excused'
               PROVE  m \in IdsOf(disk) /\ m \in IdsIn(object', Queue')
    BY <1>1 DEF Kept, Loads, Accepted
  <2>1. m \in IdsOf(disk) /\ (cached # NoArray => m \in IdsIn(object, Queue))
    BY <1>t, <1>x DEF Kept
  <2> QED BY <2>1, <1>x, <1>3, <1>t
<1> QED BY <1>2, <1>4 DEF IInv

LEMMA SyncLoadFailsKeeps ==
  ASSUME IInv, NEW f \in Flushes, SyncLoadFails(f)
  PROVE  IInv'
<1>t. Types /\ EntriesInv /\ HeapInv /\ Kept
  BY DEF IInv
<1>e. <<>> \in Seq(Entry) /\ AllGenuine(<<>>)
  BY EmptySeq DEF AllGenuine
<1>x. excused' = excused \cup (IdsIn(object, Queue) \ {}) \cup IdsOf(disk)
  BY DEF SyncLoadFails, Dropped
<1>1. Loads(f, <<>>)
  <2>1. IdsIn(object, Queue) \subseteq Accepted /\ IdsOf(disk) \subseteq Accepted
    BY <1>t, QueueOnHeap, IdsAccepted, IdsOfAccepted DEF EntriesInv
  <2>2. excused' \subseteq Accepted /\ faults' \in Nat
    BY <1>t, <1>x, <2>1 DEF Types, SyncLoadFails, Faults
  <2>3. object \o <<>> = object
    BY <1>t, ConcatEmptySeq DEF Types
  <2>4. Parsed(<<>>) = <<>>
    <3>1. Parsed(<<>>) \in Seq(Nat) /\ Len(Parsed(<<>>)) = Len(<<>>)
      BY <1>t, <1>e, ParsedFacts
    <3> QED BY <3>1, EmptySeq
  <2> QED BY <2>2, <2>3, <2>4 DEF SyncLoadFails, Loads
<1>2. Types' /\ EntriesInv' /\ HeapInv' /\ WalkInv' /\ SentInv' /\ TriesInv'
  BY <1>1, <1>e, LoadKeeps
<1>4. Kept'
  BY <1>1, <1>x, <1>t DEF Kept, Loads, Accepted
<1> QED BY <1>2, <1>4 DEF IInv
-----------------------------------------------------------------------------
\* What a call of flush has sent: an object of the heap, and the mutation it is about.
LEMMA HereIsObject ==
  ASSUME Types, EntriesInv, HeapInv, NEW f \in Flushes, Sending(f)
  PROVE  /\ Here(f) \in DOMAIN object /\ object[Here(f)] \in Entry
         /\ object[Here(f)].id \in Accepted /\ object[Here(f)].id \in Ids
         /\ object[Here(f)].retryCount <= failures[object[Here(f)].id]
         /\ flush[f].arr \in Arrays /\ flush[f].pos \in DOMAIN array[flush[f].arr]
         /\ cached # NoArray /\ cached \in Arrays /\ Queue = array[cached]
<1>1. /\ flush[f].arr \in Arrays /\ flush[f].pos \in DOMAIN array[flush[f].arr]
      /\ cached # NoArray
  BY DEF HeapInv
<1>2. Here(f) \in DOMAIN object
  BY <1>1 DEF HeapInv, OnHeap, Here
<1>3. object[Here(f)] \in Entry
  BY <1>2, LenProperties, ElementOfSeq DEF Types
<1>4. Accepted \subseteq Ids
  BY BoundsAssumption DEF Types, Accepted, Ids
<1> QED BY <1>1, <1>2, <1>3, <1>4 DEF EntriesInv, AllGenuine, Genuine, Types, Queue

\* As long as no calls have overlapped, what is sent is still ahead, and only it is at
\* that place of the queue.
LEMMA HereIsAhead ==
  ASSUME IInv, NEW f \in Flushes, Sending(f), ~overlapped
  PROVE  /\ flush[f].arr = cached /\ Here(f) = Queue[flush[f].pos]
         /\ flush[f].pos \in DOMAIN Queue
         /\ \A g \in Flushes : Sending(g) => g = f
         /\ Ahead(Here(f))
         /\ \A i \in DOMAIN Queue : Queue[i] = Here(f) => i = flush[f].pos
         /\ \A k \in DOMAIN flush[f].rest : flush[f].rest[k] # Here(f)
         /\ \A o : Ahead(o) /\ object[o].id = object[Here(f)].id => o = Here(f)
<1>0. Types /\ EntriesInv /\ HeapInv /\ WalkInv
  BY DEF IInv
<1>1. /\ flush[f].arr = cached /\ \A g \in Flushes : Sending(g) => g = f
      /\ \A k \in DOMAIN flush[f].rest : \E i \in DOMAIN Queue :
           Passed(f, i) /\ flush[f].rest[k] = Queue[i]
      /\ \A i, j \in DOMAIN Queue : object[Queue[i]].id = object[Queue[j]].id => i = j
  BY <1>0 DEF WalkInv, IdAt
<1>2. /\ Here(f) = Queue[flush[f].pos] /\ flush[f].pos \in DOMAIN Queue
      /\ flush[f].pos \in Nat
  BY <1>0, <1>1, HereIsObject DEF Here, Types, CallType
<1>3. Ahead(Here(f))
  <2>1. ~Passed(f, flush[f].pos)
    BY <1>2 DEF Passed
  <2> QED BY <1>1, <1>2, <2>1 DEF Ahead
<1>4. \A i \in DOMAIN Queue : Queue[i] = Here(f) => i = flush[f].pos
  BY <1>1, <1>2
<1>5. ASSUME NEW k \in DOMAIN flush[f].rest PROVE flush[f].rest[k] # Here(f)
  <2>1. PICK i \in DOMAIN Queue : i < flush[f].pos /\ flush[f].rest[k] = Queue[i]
    BY <1>1 DEF Passed
  <2>2. i # flush[f].pos
    BY <1>2, <2>1, QueueType, <1>0
  <2> QED BY <1>4, <2>1, <2>2
<1>6. \A o : Ahead(o) /\ object[o].id = object[Here(f)].id => o = Here(f)
  BY <1>1, <1>2 DEF Ahead
<1> QED BY <1>1, <1>2, <1>3, <1>4, <1>5, <1>6

\* The server handles what was sent.
LEMMA HandleKeeps ==
  ASSUME IInv, NEW f \in Flushes, Handle(f)
  PROVE  IInv'
<1> DEFINE m == object[Here(f)].id
<1>t. /\ Types /\ EntriesInv /\ HeapInv /\ Sending(f) /\ flush[f].server = "none"
      /\ flush[f] \in CallType
  BY DEF IInv, Handle, Sending, Types
<1>h. m \in Accepted /\ m \in Ids
  BY <1>t, HereIsObject
<1>u. /\ UNCHANGED <<array, object, cached, caller, disk, count, failures, settled,
                     abandoned, excused, unsure, overlapped, faults, restarts>>
      /\ Queue' = Queue
  BY DEF Handle, Queue
<1>v. PICK ans \in {"applied", "refused"} :
        /\ flush' = [flush EXCEPT ![f].server = ans]
        /\ IF ans = "applied" THEN applied' = [applied EXCEPT ![m] = @ + 1]
                              ELSE applied' = applied
  BY DEF Handle
<1> HIDE DEF m
<1>1. /\ flush' \in [Flushes -> CallType]
      /\ \A g \in Flushes : /\ flush'[g].pc = flush[g].pc /\ flush'[g].arr = flush[g].arr
                            /\ flush'[g].pos = flush[g].pos /\ flush'[g].rest = flush[g].rest
                            /\ flush'[g].raw = flush[g].raw
      /\ flush'[f].server = ans
      /\ \A g \in Flushes \ {f} : flush'[g] = flush[g]
  <2>1. [flush[f] EXCEPT !.server = ans] \in CallType
    BY <1>t DEF CallType
  <2>2. flush' \in [Flushes -> CallType]
    BY <1>t, <1>v, <2>1 DEF Types
  <2> QED BY <1>t, <1>v, <2>2 DEF Types, CallType
<1>2. applied' \in [Ids -> Nat] /\ applied'[m] <= applied[m] + 1
      /\ \A k \in Ids \ {m} : applied'[k] = applied[k]
  <2>0. applied \in [Ids -> Nat] /\ applied[m] \in Nat /\ applied[m] + 1 \in Nat
    BY <1>h, <1>t DEF Types
  <2>1. CASE ans = "applied"
    <3>1. applied' = [applied EXCEPT ![m] = applied[m] + 1]
      BY <1>v, <2>1
    <3> QED BY <2>0, <3>1, <1>h
  <2>2. CASE ans # "applied"
    <3>1. applied' = applied
      BY <1>v, <2>2
    <3> QED BY <2>0, <3>1
  <2> QED BY <2>1, <2>2
<1>3. Types'
  BY <1>1, <1>2, <1>t, <1>u DEF Types, Accepted
<1>4. EntriesInv'
  BY <1>1, <1>2, <1>h, <1>t, <1>u DEF EntriesInv, AllGenuine, Genuine, Accepted
<1>5. HeapInv'
  BY <1>1, <1>t, <1>u DEF HeapInv, OnHeap, Sending
<1>6. WalkInv'
  BY <1>1, <1>u DEF IInv, WalkInv, Passed, IdAt, Sending
<1>7. Kept'
  BY <1>u DEF IInv, Kept, Accepted
<1>8. \A o : Ahead(o)' <=> Ahead(o)
  BY <1>1, <1>u DEF Ahead, Passed, Sending
<1>9. TriesInv'
  BY <1>8, <1>u DEF IInv, TriesInv
<1>10. SentInv'
  <2> SUFFICES ASSUME ~overlapped PROVE SentInv'
    BY <1>u DEF SentInv
  <2>1. /\ Ahead(Here(f)) /\ \A g \in Flushes : Sending(g) => g = f
        /\ \A o : Ahead(o) /\ object[o].id = m => o = Here(f)
    BY <1>t, HereIsAhead DEF m
  <2>2. \A o : ~Landed(o)
    BY <2>1, <1>t DEF Landed
  <2>3. \A o \in DOMAIN object : Ahead(o) => Clean(object[o].id)
    BY <2>2 DEF IInv, SentInv
  <2>4. Clean(m)
    BY <2>1, <2>3, <1>t, HereIsObject DEF m
  <2>5. ASSUME NEW k \in Ids PROVE applied'[k] <= 1 \/ k \in unsure
    <3>1. applied[k] \in Nat /\ applied'[k] \in Nat /\ (applied[k] <= 1 \/ k \in unsure)
      BY <1>2, <1>t DEF IInv, SentInv, Types
    <3>2. CASE k = m
      BY <1>2, <2>4, <3>1, <3>2 DEF Clean
    <3>3. CASE k # m
      BY <1>2, <3>1, <3>3
    <3> QED BY <3>2, <3>3
  <2>6. ASSUME NEW o \in DOMAIN object, Ahead(o), ~Landed(o)' PROVE Clean(object[o].id)'
    <3>1. CASE ans = "applied"
      <4>1. o # Here(f)
        BY <2>6, <3>1, <1>1, <1>t, <1>u DEF Landed, Sending, Here
      <4>2. object[o].id # m /\ object[o].id \in Ids
        <5>1. object[o].id \in Accepted /\ Accepted \subseteq Ids
          BY <1>t, BoundsAssumption DEF EntriesInv, AllGenuine, Genuine, Types, Accepted, Ids
        <5> QED BY <2>1, <2>6, <4>1, <5>1
      <4> QED BY <2>3, <2>6, <4>2, <1>2, <1>u DEF Clean
    <3>2. CASE ans = "refused"
      BY <2>3, <2>6, <3>2, <1>v, <1>u DEF Clean
    <3> QED BY <3>1, <3>2
  <2> QED BY <2>5, <2>6, <1>8, <1>t, <1>u, HereIsObject DEF SentInv
<1> QED BY <1>3, <1>4, <1>5, <1>6, <1>7, <1>9, <1>10 DEF IInv
-----------------------------------------------------------------------------
\* The call has its answer or gave up waiting: the objects keep their ids and only the
\* one that was sent may change; it joins the rest, or it is settled.
Tried(f, rest) ==
  /\ Sending(f) /\ rest \in Seq(Nat)
  /\ object' \in Seq(Entry) /\ DOMAIN object' = DOMAIN object
  /\ \A o \in DOMAIN object :
       object'[o].id = object[o].id /\ (o # Here(f) => object'[o] = object[o])
  /\ \/ rest = flush[f].rest /\ object[Here(f)].id \in settled'
     \/ rest = Append(flush[f].rest, Here(f))
  /\ settled \subseteq settled' /\ settled' \subseteq settled \cup {object[Here(f)].id}
  /\ unsure' \subseteq unsure \cup {object[Here(f)].id}
  /\ abandoned' \subseteq Accepted
  /\ failures' \in [Ids -> Nat]
  /\ \A m \in Ids : failures[m] <= failures'[m]
                    /\ (m # object[Here(f)].id => failures'[m] = failures[m])
  /\ UNCHANGED <<caller, count, applied, overlapped, restarts>>
  /\ \A g \in Flushes \ {f} : flush'[g] = flush[g]
  /\ array' \in [Arrays -> Seq(Nat)] /\ cached' \in Arrays
  /\ flush' \in [Flushes -> CallType] /\ disk' \in Seq(Entry) /\ faults' \in Nat
  /\ GoesOn(f, rest) \/ Ends(f, object', rest)

\* The rest is part of the heap, and each element of it is of the rest before or what
\* was sent.
LEMMA RestIs ==
  ASSUME Types, EntriesInv, HeapInv, NEW f \in Flushes, Sending(f), NEW rest,
         rest = flush[f].rest \/ rest = Append(flush[f].rest, Here(f))
  PROVE  /\ rest \in Seq(Nat) /\ flush[f].rest \in Seq(Nat)
         /\ \A k \in DOMAIN rest :
              /\ rest[k] \in DOMAIN object
              /\ \/ k \in DOMAIN flush[f].rest /\ rest[k] = flush[f].rest[k]
                 \/ rest # flush[f].rest /\ k = Len(flush[f].rest) + 1 /\ rest[k] = Here(f)
         /\ \A k \in DOMAIN flush[f].rest : k \in DOMAIN rest /\ rest[k] = flush[f].rest[k]
         /\ rest # flush[f].rest => \E k \in DOMAIN rest : rest[k] = Here(f)
<1> DEFINE old == flush[f].rest
<1>1. /\ old \in Seq(Nat) /\ Len(old) \in Nat /\ DOMAIN old = 1..Len(old)
      /\ \A k \in DOMAIN old : old[k] \in DOMAIN object
  BY LenProperties DEF Types, CallType, HeapInv, OnHeap
<1>2. Here(f) \in DOMAIN object /\ Here(f) \in Nat
  <2>1. Here(f) \in DOMAIN object /\ DOMAIN object = 1..Len(object) /\ Len(object) \in Nat
    BY HereIsObject, LenProperties DEF Types
  <2> QED BY <2>1
<1> HIDE DEF old
<1>3. CASE rest = old
  BY <1>1, <1>3 DEF old
<1>4. CASE rest = Append(old, Here(f))
  <2>1. /\ rest \in Seq(Nat) /\ Len(rest) = Len(old) + 1
        /\ \A k \in 1..Len(old) : rest[k] = old[k]
        /\ rest[Len(old) + 1] = Here(f)
    BY <1>1, <1>2, <1>4, AppendProperties
  <2>2. DOMAIN rest = 1..(Len(old) + 1)
    BY <2>1, LenProperties
  <2>3. \A k \in DOMAIN rest : k \in 1..Len(old) \/ k = Len(old) + 1
    BY <1>1, <2>2
  <2>4. rest # old
    BY <1>1, <2>1
  <2>5. Len(old) + 1 \in DOMAIN rest /\ \A k \in DOMAIN old : k \in DOMAIN rest
    BY <1>1, <2>2
  <2> QED BY <1>1, <1>2, <2>1, <2>3, <2>4, <2>5 DEF old
<1> QED BY <1>3, <1>4 DEF old

\* The elements of the next walk, as long as no calls overlapped.
LEMMA TriedAhead ==
  ASSUME IInv, NEW f \in Flushes, NEW rest, Tried(f, rest), ~overlapped, NEW o, Ahead(o)'
  PROVE  \/ o = Here(f) /\ rest # flush[f].rest /\ Ahead(o)
         \/ o # Here(f) /\ Ahead(o) /\ ~Landed(o) /\ object[o].id # object[Here(f)].id
<1>t. Types /\ EntriesInv /\ HeapInv /\ WalkInv /\ Sending(f)
  BY DEF IInv, Tried
<1>h. /\ flush[f].arr = cached /\ Here(f) = Queue[flush[f].pos]
      /\ flush[f].pos \in DOMAIN Queue
      /\ \A g \in Flushes : Sending(g) => g = f
      /\ Ahead(Here(f))
      /\ \A i \in DOMAIN Queue : Queue[i] = Here(f) => i = flush[f].pos
      /\ \A p : Ahead(p) /\ object[p].id = object[Here(f)].id => p = Here(f)
      /\ \A k \in DOMAIN flush[f].rest : \E i \in DOMAIN Queue :
           Passed(f, i) /\ flush[f].rest[k] = Queue[i]
  BY <1>t, HereIsAhead DEF WalkInv
<1>q. /\ DOMAIN Queue = 1..Len(Queue) /\ Len(Queue) \in Nat /\ cached # NoArray
      /\ Queue = array[cached]
  BY <1>t, QueueType, HereIsObject
<1>r. /\ \A k \in DOMAIN rest :
              \/ k \in DOMAIN flush[f].rest /\ rest[k] = flush[f].rest[k]
              \/ rest # flush[f].rest /\ rest[k] = Here(f)
      /\ \A k \in DOMAIN flush[f].rest : flush[f].rest[k] # Here(f)
  BY <1>t, RestIs, HereIsAhead DEF Tried
<1>1. \/ \E k \in DOMAIN rest : rest[k] = o
      \/ \E i \in DOMAIN Queue : Queue[i] = o /\ flush[f].pos < i
  <2>1. CASE GoesOn(f, rest)
    <3>1. Queue' = Queue /\ Sending(f)' /\ flush'[f].pos = flush[f].pos + 1 /\ flush'[f].rest = rest
      BY <2>1 DEF GoesOn, Queue, Sending
    <3>2. \/ \E i \in DOMAIN Queue : Queue[i] = o /\ ~(i < flush[f].pos + 1)
          \/ \E k \in DOMAIN rest : rest[k] = o
      BY <1>h, <3>1 DEF Ahead, Passed
    <3> QED BY <3>2, <1>q, <1>h
  <2>2. CASE Ends(f, object', rest)
    BY <2>2 DEF Ends, Ahead
  <2> QED BY <2>1, <2>2 DEF Tried
<1>2. CASE o = Here(f)
  <2>1. \A i \in DOMAIN Queue : Queue[i] = o => ~(flush[f].pos < i)
    BY <1>2, <1>h, <1>q
  <2> QED BY <1>1, <1>2, <1>h, <1>r, <2>1
<1>3. CASE o # Here(f)
  <2>1. ~Landed(o)
    BY <1>3, <1>h DEF Landed
  <2>2. Ahead(o)
    <3>1. CASE \E k \in DOMAIN rest : rest[k] = o
      <4>1. PICK k \in DOMAIN flush[f].rest : flush[f].rest[k] = o
        BY <3>1, <1>3, <1>r
      <4> QED BY <4>1, <1>h DEF Ahead
    <3>2. CASE \E i \in DOMAIN Queue : Queue[i] = o /\ flush[f].pos < i
      BY <3>2, <1>h, <1>q DEF Ahead, Passed
    <3> QED BY <1>1, <3>1, <3>2
  <2> QED BY <1>3, <1>h, <2>1, <2>2
<1> QED BY <1>2, <1>3

\* The heap, the storage and the types after an answer or a failure.
LEMMA TriedHeap ==
  ASSUME IInv, NEW f \in Flushes, NEW rest, Tried(f, rest),
         AllGenuine(object)', \A m \in abandoned' : failures'[m] >= MaxRetries
  PROVE  Types' /\ EntriesInv' /\ HeapInv'
<1>t. Types /\ EntriesInv /\ HeapInv /\ Sending(f)
  BY DEF IInv, Tried
<1>h. object[Here(f)].id \in Accepted /\ object[Here(f)].id \in Ids /\ flush[f].arr \in Arrays
  BY <1>t, HereIsObject
<1>r. \A k \in DOMAIN rest : rest[k] \in DOMAIN object
  BY <1>t, RestIs DEF Tried
<1>x. excused' \subseteq Accepted
  <2>1. IdsIn(object, Queue) \subseteq Accepted
    BY <1>t, QueueOnHeap, IdsAccepted DEF EntriesInv
  <2> QED BY <2>1, <1>t DEF Tried, GoesOn, Ends, Types
<1>1. Types'
  <2>1. settled' \subseteq Accepted /\ unsure' \subseteq Accepted
    BY <1>t, <1>h DEF Tried, Types
  <2>2. array' \in [Arrays -> Seq(Nat)] /\ cached' \in Arrays \cup {NoArray}
    BY DEF Tried
  <2> QED BY <1>t, <1>x, <2>1, <2>2 DEF Types, Tried, Accepted
<1>q. \A i \in DOMAIN Queue : Queue[i] \in DOMAIN object
  BY <1>t, QueueOnHeap
<1>2. EntriesInv'
  <2>m. More
    BY <1>t, BoundsAssumption DEF Tried, Types, More, Accepted, Ids
  <2>1. AllGenuine(disk)'
    <3>1. AllGenuine(disk) /\ disk \in Seq(Entry)
      BY <1>t DEF EntriesInv, Types
    <3>2. CASE disk' = disk
      BY <3>1, <3>2, <2>m, AllGenuineStay DEF AllGenuine
    <3>3. CASE Ends(f, object', rest) /\ disk' = Written'
      <4>1. \A i \in DOMAIN Queue' : Queue'[i] \in DOMAIN object'
        BY <3>3, <1>r DEF Ends, Tried
      <4> QED BY <3>3, <4>1, WrittenGenuine DEF AllGenuine
    <3> QED BY <3>2, <3>3 DEF Tried, GoesOn, Ends
  <2>2. ASSUME NEW g \in Flushes PROVE AllGenuine(flush[g].raw)'
    <3>1. AllGenuine(flush[g].raw) /\ flush[g].raw \in Seq(Entry)
      BY <1>t DEF EntriesInv, Types, CallType
    <3>2. flush'[g].raw = flush[g].raw \/ flush'[g].raw = <<>>
      <4>1. CASE g = f
        BY <4>1 DEF Tried, GoesOn, Ends, NoFlush
      <4>2. CASE g # f
        BY <4>2 DEF Tried
      <4> QED BY <4>1, <4>2
    <3>3. CASE flush'[g].raw = flush[g].raw
      BY <3>1, <3>3, <2>m, AllGenuineStay DEF AllGenuine
    <3>4. CASE flush'[g].raw = <<>>
      BY <3>4 DEF AllGenuine
    <3> QED BY <3>2, <3>3, <3>4
  <2>3. ASSUME NEW c \in Callers PROVE AllGenuine(caller[c].raw)'
    <3>1. AllGenuine(caller[c].raw) /\ caller[c].raw \in Seq(Entry) /\ caller' = caller
      BY <1>t DEF EntriesInv, Types, Tried
    <3> QED BY <3>1, <2>m, AllGenuineStay DEF AllGenuine
  <2>4. \A m \in Ids \ Accepted' : applied'[m] = 0 /\ failures'[m] = 0
    BY <1>t, <1>h DEF EntriesInv, Tried, Accepted
  <2> QED BY <2>1, <2>2, <2>3, <2>4 DEF EntriesInv
<1>3. HeapInv'
  <2>1. ASSUME NEW a \in Arrays PROVE OnHeap(array[a])'
    <3>1. array'[a] \in {array[a], rest, <<>>}
      BY DEF Tried, GoesOn, Ends
    <3> QED BY <3>1, <1>r, <1>t DEF OnHeap, HeapInv, Tried
  <2>2. ASSUME NEW g \in Flushes, Sending(g)'
        PROVE  /\ flush'[g].arr \in Arrays
               /\ flush'[g].pos \in DOMAIN (array'[flush'[g].arr])
               /\ OnHeap(flush[g].rest)'
    <3>1. CASE g = f
      <4>1. GoesOn(f, rest)
        BY <2>2, <3>1 DEF Tried, Ends, NoFlush, Sending
      <4> QED BY <3>1, <4>1, <1>h, <1>r DEF GoesOn, OnHeap, Tried
    <3>2. CASE g # f
      <4>1. /\ flush'[g] = flush[g] /\ flush[g].arr \in Arrays
            /\ flush[g].pos \in DOMAIN array[flush[g].arr] /\ OnHeap(flush[g].rest)
        BY <1>t, <2>2, <3>2 DEF Tried, HeapInv, Sending
      <4>2. array'[flush[g].arr] = array[flush[g].arr]
        BY <3>2, <4>1 DEF Tried, GoesOn, Ends
      <4> QED BY <4>1, <4>2 DEF OnHeap, Tried
    <3> QED BY <3>1, <3>2
  <2>3. cached' # NoArray
    BY NamesAssumption DEF Tried
  <2> QED BY <2>1, <2>2, <2>3 DEF HeapInv
<1> QED BY <1>1, <1>2, <1>3

\* After an answer or a failure the walk is still the only one, or it has ended and what
\* it left is the queue.
LEMMA TriedWalk ==
  ASSUME IInv, NEW f \in Flushes, NEW rest, Tried(f, rest)
  PROVE  WalkInv'
<1> SUFFICES ASSUME ~overlapped PROVE WalkInv'
  BY DEF Tried, WalkInv
<1>t. Types /\ EntriesInv /\ HeapInv /\ WalkInv /\ Sending(f)
  BY DEF IInv, Tried
<1>h. /\ flush[f].arr = cached /\ Here(f) = Queue[flush[f].pos]
      /\ flush[f].pos \in DOMAIN Queue
      /\ \A g \in Flushes : Sending(g) => g = f
      /\ \A k \in DOMAIN flush[f].rest : flush[f].rest[k] # Here(f)
  BY <1>t, HereIsAhead
<1>w. /\ \A i \in DOMAIN Queue : i < flush[f].pos =>
           \/ object[Queue[i]].id \in settled
           \/ \E k \in DOMAIN flush[f].rest : flush[f].rest[k] = Queue[i]
      /\ \A k \in DOMAIN flush[f].rest : \E i \in DOMAIN Queue :
           i < flush[f].pos /\ flush[f].rest[k] = Queue[i]
      /\ \A k, l \in DOMAIN flush[f].rest : flush[f].rest[k] = flush[f].rest[l] => k = l
      /\ \A i, j \in DOMAIN disk : disk[i].id = disk[j].id => i = j
      /\ \A i, j \in DOMAIN Queue : object[Queue[i]].id = object[Queue[j]].id => i = j
  BY <1>h, <1>t DEF WalkInv, Passed, IdAt
<1>q. /\ DOMAIN Queue = 1..Len(Queue) /\ Len(Queue) \in Nat /\ cached # NoArray
      /\ Queue = array[cached] /\ \A i \in DOMAIN Queue : Queue[i] \in DOMAIN object
  BY <1>t, QueueType, HereIsObject, QueueOnHeap
<1>r. /\ \A k \in DOMAIN rest :
           /\ rest[k] \in DOMAIN object
           /\ \/ k \in DOMAIN flush[f].rest /\ rest[k] = flush[f].rest[k]
              \/ rest # flush[f].rest /\ k = Len(flush[f].rest) + 1 /\ rest[k] = Here(f)
      /\ \A k \in DOMAIN flush[f].rest : k \in DOMAIN rest /\ rest[k] = flush[f].rest[k]
      /\ rest # flush[f].rest => \E k \in DOMAIN rest : rest[k] = Here(f)
  BY <1>t, RestIs DEF Tried
<1>i. \A o \in DOMAIN object : object'[o].id = object[o].id
  BY DEF Tried
<1>1. ASSUME NEW i \in DOMAIN Queue, i < flush[f].pos + 1
      PROVE  \/ object[Queue[i]].id \in settled'
             \/ \E k \in DOMAIN rest : rest[k] = Queue[i]
  <2>1. CASE i < flush[f].pos
    BY <2>1, <1>w, <1>r DEF Tried
  <2>2. CASE i = flush[f].pos
    BY <2>2, <1>h, <1>r DEF Tried
  <2> QED BY <1>1, <2>1, <2>2, <1>h, <1>q
<1>2. ASSUME NEW k \in DOMAIN rest
      PROVE  \E i \in DOMAIN Queue : i < flush[f].pos + 1 /\ rest[k] = Queue[i]
  <2>1. CASE k \in DOMAIN flush[f].rest /\ rest[k] = flush[f].rest[k]
    <3>1. PICK i \in DOMAIN Queue : i < flush[f].pos /\ rest[k] = Queue[i]
      BY <2>1, <1>w
    <3> QED BY <3>1, <1>q, <1>h
  <2>2. CASE rest[k] = Here(f)
    BY <2>2, <1>h, <1>q
  <2> QED BY <2>1, <2>2, <1>r
<1>3. \A k, l \in DOMAIN rest : rest[k] = rest[l] => k = l
  BY <1>r, <1>w, <1>h
<1>4. ASSUME NEW k \in DOMAIN rest, NEW l \in DOMAIN rest,
             object[rest[k]].id = object[rest[l]].id
      PROVE  k = l
  <2>1. PICK i \in DOMAIN Queue : rest[k] = Queue[i]
    BY <1>2
  <2>2. PICK j \in DOMAIN Queue : rest[l] = Queue[j]
    BY <1>2
  <2> QED BY <1>4, <2>1, <2>2, <1>w, <1>3
<1>5. CASE GoesOn(f, rest)
  <2>1. /\ Queue' = Queue /\ disk' = disk /\ cached' = cached
        /\ flush'[f].arr = cached' /\ flush'[f].pos = flush[f].pos + 1 /\ flush'[f].rest = rest
    BY <1>5, <1>h DEF GoesOn, Queue
  <2>2. \A g \in Flushes : Sending(g)' => g = f
    BY <1>h DEF Tried, Sending
  <2>i. \A i \in DOMAIN Queue : object'[Queue[i]].id = object[Queue[i]].id
    BY <1>q, <1>i
  <2>3. \A i, j \in DOMAIN Queue' : IdAt(i)' = IdAt(j)' => i = j
    BY <1>w, <2>i, <2>1 DEF IdAt
  <2>4. \A i \in DOMAIN Queue' : Passed(f, i)' =>
           IdAt(i)' \in settled' \/ \E k \in DOMAIN rest : rest[k] = Queue'[i]
    <3> SUFFICES ASSUME NEW i \in DOMAIN Queue, i < flush[f].pos + 1
                 PROVE  object[Queue[i]].id \in settled' \/ \E k \in DOMAIN rest : rest[k] = Queue[i]
      BY <2>i, <2>1 DEF IdAt, Passed
    <3> QED BY <1>1
  <2>5. \A k \in DOMAIN rest : \E i \in DOMAIN Queue' : Passed(f, i)' /\ rest[k] = Queue'[i]
    BY <1>2, <2>1 DEF Passed
  <2> QED BY <1>w, <1>3, <2>1, <2>2, <2>3, <2>4, <2>5 DEF WalkInv
<1>6. CASE Ends(f, object', rest)
  <2>1. Queue' = rest /\ \A g \in Flushes : ~Sending(g)'
    <3>1. Queue' = rest /\ flush'[f].pc = "idle"
      BY <1>6 DEF Ends, NoFlush
    <3>2. \A g \in Flushes \ {f} : flush'[g].pc = flush[g].pc
      BY DEF Tried
    <3> QED BY <1>h, <3>1, <3>2 DEF Sending
  <2>2. \A i, j \in DOMAIN Queue' : IdAt(i)' = IdAt(j)' => i = j
    BY <1>4, <1>r, <1>i, <2>1 DEF IdAt
  <2>3. \A i, j \in DOMAIN disk' : disk'[i].id = disk'[j].id => i = j
    <3>1. CASE disk' = disk
      BY <3>1, <1>w
    <3>2. CASE disk' = Written'
      BY <3>2, <2>2 DEF Written, IdAt
    <3> QED BY <1>6, <3>1, <3>2 DEF Ends
  <2> QED BY <2>1, <2>2, <2>3 DEF WalkInv
<1> QED BY <1>5, <1>6 DEF Tried

\* No mutation is dropped: the walk that ends has dealt with every one it was to send.
LEMMA TriedKept ==
  ASSUME IInv, NEW f \in Flushes, NEW rest, Tried(f, rest)
  PROVE  Kept'
<1>t. Types /\ EntriesInv /\ HeapInv /\ WalkInv /\ Sending(f) /\ cached # NoArray
  BY HereIsObject DEF IInv, Tried
<1> SUFFICES ASSUME NEW m \in Accepted, m \notin settled', m \notin excused'
             PROVE  m \in IdsOf(disk') /\ m \in IdsIn(object', Queue')
  BY DEF Kept, Tried, Accepted
<1>i. /\ \A o \in DOMAIN object : object'[o].id = object[o].id
      /\ \A i \in DOMAIN Queue : Queue[i] \in DOMAIN object
  BY <1>t, QueueOnHeap DEF Tried
<1>1. m \in IdsOf(disk) /\ m \in IdsIn(object, Queue)
  <2>1. m \notin settled /\ m \notin excused
    BY DEF Tried, GoesOn, Ends
  <2> QED BY <2>1, <1>t DEF IInv, Kept
<1>2. CASE GoesOn(f, rest)
  BY <1>1, <1>2, <1>i DEF GoesOn, Queue, IdsIn
<1>3. CASE Ends(f, object', rest)
  <2>0. Queue' = rest
    BY <1>3 DEF Ends
  <2>1. m \in IdsIn(object', rest)
    <3>1. CASE overlapped
      BY <1>1, <1>3, <3>1 DEF Ends
    <3>2. CASE ~overlapped
      <4>1. /\ flush[f].arr = cached /\ Here(f) = Queue[flush[f].pos]
            /\ Queue = array[cached] /\ DOMAIN Queue = 1..Len(Queue) /\ Len(Queue) \in Nat
        BY <1>t, <3>2, HereIsAhead, HereIsObject, QueueType
      <4>2. flush[f].pos = Len(Queue)
        BY <1>3, <4>1 DEF Ends
      <4>3. PICK i \in DOMAIN Queue : object[Queue[i]].id = m
        BY <1>1 DEF IdsIn
      <4>r. /\ \A k \in DOMAIN flush[f].rest : k \in DOMAIN rest /\ rest[k] = flush[f].rest[k]
            /\ rest # flush[f].rest => \E k \in DOMAIN rest : rest[k] = Here(f)
        BY <1>t, RestIs DEF Tried
      <4>s. object[Here(f)].id = m => \E k \in DOMAIN rest : rest[k] = Here(f)
        <5>1. rest = flush[f].rest => object[Here(f)].id \in settled'
          <6>1. \/ object[Here(f)].id \in settled'
                \/ rest = Append(flush[f].rest, Here(f))
            BY DEF Tried
          <6>2. flush[f].rest \in Seq(Nat)
            BY <1>t, RestIs
          <6>3. object \in Seq(Entry) /\ Here(f) \in DOMAIN object
            BY <1>t, HereIsObject DEF Types
          <6>4. Here(f) \in Nat
            BY <6>3, LenProperties
          <6> QED BY <6>1, <6>2, <6>4, AppendProperties, LenProperties
        <5> QED BY <4>r, <5>1
      <4>4. \E k \in DOMAIN rest : rest[k] = Queue[i]
        <5>1. CASE i = flush[f].pos
          BY <4>1, <4>3, <4>s, <5>1
        <5>2. CASE i < flush[f].pos
          <6>1. \/ object[Queue[i]].id \in settled
                \/ \E k \in DOMAIN flush[f].rest : flush[f].rest[k] = Queue[i]
            BY <1>t, <3>2, <5>2 DEF WalkInv, Passed, IdAt
          <6> QED BY <4>3, <4>r, <6>1 DEF Tried
        <5> QED BY <4>1, <4>2, <5>1, <5>2
      <4> QED BY <1>i, <4>3, <4>4 DEF IdsIn
    <3> QED BY <3>1, <3>2
  <2>2. m \in IdsOf(disk')
    <3>1. CASE disk' = disk
      BY <1>1, <3>1
    <3>2. CASE disk' = Written'
      BY <2>0, <2>1, <3>2 DEF Written, IdsIn, IdsOf
    <3> QED BY <1>3, <3>1, <3>2 DEF Ends
  <2> QED BY <2>0, <2>1, <2>2
<1> QED BY <1>2, <1>3 DEF Tried

\* The server has answered: the mutation is settled and the object is as it was.
LEMMA AnsweredKeeps ==
  ASSUME IInv, NEW f \in Flushes, Answered(f)
  PROVE  IInv'
<1> DEFINE rest == flush[f].rest
<1>t. /\ Types /\ EntriesInv /\ HeapInv /\ Sending(f)
      /\ object \in Seq(Entry) /\ failures \in [Ids -> Nat]
  BY DEF IInv, Answered, Sending, Types
<1>u. /\ Proceed(f, object, rest, 0) /\ settled' = settled \cup {object[Here(f)].id}
      /\ UNCHANGED <<object, caller, count, applied, failures, abandoned, unsure,
                     overlapped, restarts>>
  BY DEF Answered
<1>r. rest \in Seq(Nat) /\ \A k \in DOMAIN rest : rest[k] \in DOMAIN object
  BY <1>t, RestIs
<1> HIDE DEF rest
<1>1. /\ \A g \in Flushes \ {f} : flush'[g] = flush[g]
      /\ array' \in [Arrays -> Seq(Nat)] /\ cached' \in Arrays \cup {NoArray}
      /\ flush' \in [Flushes -> CallType]
      /\ disk' \in Seq(Entry) /\ faults' \in Nat
      /\ GoesOn(f, rest) \/ Ends(f, object, rest)
  BY <1>t, <1>u, <1>r, ProceedFacts
<1>2. cached' \in Arrays
  BY <1>1, <1>t, HereIsObject DEF GoesOn, Ends
<1>3. Tried(f, rest)
  <2>1. \A m \in Ids : failures[m] <= failures'[m]
    BY <1>t, <1>u
  <2>2. abandoned' \subseteq Accepted /\ unsure' \subseteq unsure
    BY <1>t, <1>u DEF Types
  <2>3. rest = flush[f].rest
    BY DEF rest
  <2> QED BY <1>t, <1>u, <1>r, <1>1, <1>2, <2>1, <2>2, <2>3 DEF Tried
<1>4. Types' /\ EntriesInv' /\ HeapInv'
  <2>1. AllGenuine(object)' /\ \A m \in abandoned' : failures'[m] >= MaxRetries
    BY <1>t, <1>u DEF EntriesInv, AllGenuine, Genuine, Accepted
  <2> QED BY <1>3, <2>1, TriedHeap
<1>5. WalkInv' /\ Kept'
  BY <1>3, TriedWalk, TriedKept
<1>6. ASSUME NEW o, ~overlapped, Ahead(o)'
      PROVE  Ahead(o) /\ ~Landed(o)
  BY <1>3, <1>6, TriedAhead DEF rest
<1>n. cached' # NoArray
  BY <1>2, NamesAssumption
<1>7. SentInv'
  BY <1>6, <1>u, <1>n DEF IInv, SentInv, Clean
<1>8. TriesInv'
  BY <1>6, <1>u, <1>n DEF IInv, TriesInv
<1> QED BY <1>4, <1>5, <1>7, <1>8 DEF IInv

\* The failure is counted: the object goes on in the rest as long as tries are left, and
\* what the server may have applied is unsure.
LEMMA FailedKeeps ==
  ASSUME IInv, NEW f \in Flushes, Failed(f)
  PROVE  IInv'
<1> DEFINE o     == Here(f)
           m     == object[o].id
           again == TriesLeft(object'[o])
           rest  == IF again THEN Append(flush[f].rest, o) ELSE flush[f].rest
<1>t. /\ Types /\ EntriesInv /\ HeapInv /\ Sending(f)
      /\ object \in Seq(Entry) /\ failures \in [Ids -> Nat]
  BY DEF IInv, Failed, Sending, Types
<1>h. /\ o \in DOMAIN object /\ object[o] \in Entry /\ m \in Accepted /\ m \in Ids
      /\ object[o].retryCount <= failures[m] /\ object[o].retryCount \in Nat
      /\ failures[m] \in Nat
  BY <1>t, HereIsObject DEF Entry
<1>u. /\ object' = [object EXCEPT ![o].retryCount = @ + 1]
      /\ Proceed(f, object', rest, 1)
      /\ failures' = [failures EXCEPT ![m] = @ + 1]
      /\ settled' = (IF again THEN settled ELSE settled \cup {m})
      /\ abandoned' = (IF again THEN abandoned ELSE abandoned \cup {m})
      /\ unsure' = (IF flush[f].server = "applied" THEN unsure \cup {m} ELSE unsure)
      /\ UNCHANGED <<caller, count, applied, overlapped, restarts>>
  BY DEF Failed
<1>r. /\ rest = flush[f].rest \/ rest = Append(flush[f].rest, Here(f))
      /\ rest \in Seq(Nat) /\ \A k \in DOMAIN rest : rest[k] \in DOMAIN object
      /\ ~again => rest = flush[f].rest
      /\ again => rest = Append(flush[f].rest, Here(f))
  <2>1. rest = flush[f].rest \/ rest = Append(flush[f].rest, Here(f))
    OBVIOUS
  <2>2. rest \in Seq(Nat) /\ \A k \in DOMAIN rest : rest[k] \in DOMAIN object
    BY <1>t, <2>1, RestIs
  <2> QED BY <2>1, <2>2
<1>k. o = Here(f) /\ m = object[Here(f)].id
  OBVIOUS
<1>a. again <=> object'[o].retryCount < MaxRetries
  BY DEF TriesLeft
<1> HIDE DEF rest, again, m, o
<1>o. /\ object' \in Seq(Entry) /\ DOMAIN object' = DOMAIN object
      /\ \A p \in DOMAIN object : object'[p].id = object[p].id /\ (p # o => object'[p] = object[p])
      /\ object'[o].retryCount = object[o].retryCount + 1
  <2>1. DOMAIN object = 1..Len(object) /\ \A p \in DOMAIN object : object[p] \in Entry
    BY <1>t, LenProperties, ElementOfSeq
  <2> DEFINE tried(n) == [object[o] EXCEPT !.retryCount = n]
  <2>2. \A n \in Nat : tried(n) \in Entry /\ tried(n).id = m /\ tried(n).retryCount = n
    BY <1>h, <1>k DEF Entry
  <2>3. PICK e \in Entry : /\ object' = [object EXCEPT ![o] = e]
                           /\ e.id = m /\ e.retryCount = object[o].retryCount + 1
    <3>1. object' = [object EXCEPT ![o] = tried(object[o].retryCount + 1)]
      BY <1>u, Zenon
    <3>2. object[o].retryCount + 1 \in Nat
      BY <1>h
    <3> HIDE DEF tried
    <3> QED BY <2>2, <3>1, <3>2
  <2>4. object' \in Seq(Entry) /\ DOMAIN object' = DOMAIN object
    BY <1>t, <1>h, <2>1, <2>3, ExceptSeq
  <2> QED BY <1>h, <1>k, <2>1, <2>3, <2>4
<1>f. /\ failures' \in [Ids -> Nat] /\ failures'[m] = failures[m] + 1
      /\ \A k \in Ids : failures[k] <= failures'[k] /\ (k # m => failures'[k] = failures[k])
  BY <1>t, <1>h, <1>u
<1>1. /\ \A g \in Flushes \ {f} : flush'[g] = flush[g]
      /\ array' \in [Arrays -> Seq(Nat)] /\ cached' \in Arrays \cup {NoArray}
      /\ flush' \in [Flushes -> CallType]
      /\ disk' \in Seq(Entry) /\ faults' \in Nat
      /\ GoesOn(f, rest) \/ Ends(f, object', rest)
  <2>1. ASSUME NEW objs \in Seq(Entry), object' = objs
        PROVE  /\ \A g \in Flushes \ {f} : flush'[g] = flush[g]
               /\ array' \in [Arrays -> Seq(Nat)] /\ cached' \in Arrays \cup {NoArray}
               /\ flush' \in [Flushes -> CallType]
               /\ disk' \in Seq(Entry) /\ faults' \in Nat
               /\ GoesOn(f, rest) \/ Ends(f, objs, rest)
    <3>1. Proceed(f, objs, rest, 1) /\ DOMAIN objs = DOMAIN object
      BY <1>u, <1>o, <2>1
    <3> QED BY <1>t, <1>r, <2>1, <3>1, ProceedFacts
  <2> QED BY <1>o, <2>1
<1>2. cached' \in Arrays
  BY <1>1, <1>t, HereIsObject DEF GoesOn, Ends
<1>3. Tried(f, rest)
  <2>1. abandoned' \subseteq Accepted
    BY <1>t, <1>u, <1>h DEF Types
  <2>2. /\ settled \subseteq settled' /\ settled' \subseteq settled \cup {m}
        /\ unsure' \subseteq unsure \cup {m} /\ (rest = flush[f].rest => m \in settled' \/ again)
    BY <1>u
  <2>3. \/ rest = flush[f].rest /\ m \in settled'
        \/ rest = Append(flush[f].rest, Here(f))
    BY <1>r, <2>2
  <2> QED BY <1>t, <1>u, <1>k, <1>r, <1>o, <1>f, <1>1, <1>2, <2>1, <2>2, <2>3 DEF Tried
<1>4. Types' /\ EntriesInv' /\ HeapInv'
  <2>1. AllGenuine(object)'
    <3> SUFFICES ASSUME NEW p \in DOMAIN object
                 PROVE  object'[p].id \in Accepted /\ object'[p].retryCount <= failures'[object'[p].id]
      BY <1>o, <1>u DEF AllGenuine, Genuine, Accepted
    <3>1. /\ object[p].id \in Accepted /\ object[p].id \in Ids
          /\ object[p].retryCount <= failures[object[p].id]
          /\ object[p].retryCount \in Nat
      <4>1. object[p] \in Entry
        BY <1>t, LenProperties, ElementOfSeq
      <4>2. Accepted \subseteq Ids
        BY <1>t, BoundsAssumption DEF Types, Accepted, Ids
      <4> QED BY <1>t, <4>1, <4>2 DEF EntriesInv, AllGenuine, Genuine, Entry
    <3>2. CASE p = o
      BY <3>2, <1>h, <1>k, <1>o, <1>f
    <3>3. CASE p # o
      <4>1. object'[p] = object[p] /\ failures[object[p].id] <= failures'[object[p].id]
            /\ failures[object[p].id] \in Nat /\ failures'[object[p].id] \in Nat
        BY <3>3, <3>1, <1>o, <1>f, <1>t
      <4> QED BY <4>1, <3>1
    <3> QED BY <3>2, <3>3
  <2>2. \A k \in abandoned' : failures'[k] >= MaxRetries
    <3> SUFFICES ASSUME NEW k \in abandoned' PROVE failures'[k] >= MaxRetries
      OBVIOUS
    <3>1. CASE k = m /\ ~again
      BY <3>1, <1>a, <1>h, <1>o, <1>f, BoundsAssumption
    <3>2. CASE k \in abandoned
      <4>1. k \in Ids /\ failures[k] >= MaxRetries
        BY <3>2, <1>t, BoundsAssumption DEF EntriesInv, Types, Accepted, Ids
      <4>2. failures[k] \in Nat /\ failures'[k] \in Nat /\ failures[k] <= failures'[k]
        BY <4>1, <1>f, <1>t
      <4> QED BY <4>1, <4>2, BoundsAssumption
    <3> QED BY <3>1, <3>2, <1>u
  <2> QED BY <1>3, <2>1, <2>2, TriedHeap
<1>5. WalkInv' /\ Kept'
  BY <1>3, TriedWalk, TriedKept
<1>6. ASSUME NEW p, ~overlapped, Ahead(p)'
      PROVE  \/ p = o /\ again /\ Ahead(o)
             \/ p # o /\ Ahead(p) /\ ~Landed(p) /\ object[p].id # m
  BY <1>3, <1>6, <1>k, <1>r, TriedAhead
<1>n. cached' # NoArray
  BY <1>2, NamesAssumption
<1>7. SentInv'
  <2> SUFFICES ASSUME ~overlapped PROVE SentInv'
    BY <1>u DEF SentInv
  <2>0. unsure \subseteq unsure'
    BY <1>u
  <2>1. \A k \in Ids : applied'[k] <= 1 \/ k \in unsure'
    BY <2>0, <1>u DEF IInv, SentInv
  <2>2. \A p \in DOMAIN object : Ahead(p) /\ ~Landed(p) => Clean(object[p].id)
    BY DEF IInv, SentInv
  <2>3. ASSUME NEW p \in DOMAIN object, Ahead(p)'
        PROVE  applied[object[p].id] = 0 \/ object[p].id \in unsure'
    <3>1. CASE p = o
      <4>1. CASE flush[f].server = "applied"
        BY <4>1, <3>1, <1>u, <1>k
      <4>2. CASE flush[f].server # "applied"
        <5>1. ~Landed(o)
          BY <4>2, <1>t, HereIsAhead DEF Landed
        <5> QED BY <5>1, <3>1, <2>3, <1>6, <2>2, <2>0 DEF Clean
      <4> QED BY <4>1, <4>2
    <3>2. CASE p # o
      BY <3>2, <2>3, <1>6, <2>2, <2>0 DEF Clean
    <3> QED BY <3>1, <3>2
  <2> QED BY <2>1, <2>3, <1>o, <1>u, <1>n DEF SentInv, Clean
<1>8. TriesInv'
  <2> SUFFICES ASSUME ~overlapped, restarts = 0 PROVE TriesInv'
    BY <1>u DEF TriesInv
  <2>1. /\ \A k \in Ids : failures[k] <= MaxRetries
        /\ \A p \in DOMAIN object : Ahead(p) =>
             /\ object[p].retryCount = failures[object[p].id]
             /\ object[p].retryCount < MaxRetries
    BY DEF IInv, TriesInv
  <2>2. Ahead(o)
    BY <1>t, HereIsAhead, <1>k
  <2>3. \A k \in Ids : failures'[k] <= MaxRetries
    BY <2>1, <2>2, <1>f, <1>h, <1>k, <1>t, BoundsAssumption
  <2>4. ASSUME NEW p \in DOMAIN object, Ahead(p)'
        PROVE  object'[p].retryCount = failures'[object'[p].id] /\ object'[p].retryCount < MaxRetries
    <3>1. CASE p = o
      BY <3>1, <2>1, <2>2, <2>4, <1>6, <1>a, <1>f, <1>h, <1>k, <1>o
    <3>2. CASE p # o
      <4>1. object[p].id \in Ids
        <5>1. object[p].id \in Accepted /\ Accepted \subseteq Ids
          BY <1>t, BoundsAssumption DEF EntriesInv, AllGenuine, Genuine, Types, Accepted, Ids
        <5> QED BY <5>1
      <4> QED BY <3>2, <4>1, <2>1, <2>4, <1>6, <1>f, <1>o
    <3> QED BY <3>1, <3>2
  <2> QED BY <2>3, <2>4, <1>o, <1>u, <1>n DEF TriesInv
<1> QED BY <1>4, <1>5, <1>7, <1>8 DEF IInv
-----------------------------------------------------------------------------
\* The app is killed: the storage is left, and what it held may have been applied.
LEMMA RestartKeeps ==
  ASSUME IInv, Restart
  PROVE  IInv'
<1>t. Types /\ EntriesInv /\ HeapInv
  BY DEF IInv
<1>u. /\ array' = [a \in Arrays |-> <<>>] /\ object' = <<>> /\ cached' = NoArray
      /\ flush' = [f \in Flushes |-> NoFlush] /\ caller' = [c \in Callers |-> NoCall]
      /\ unsure' = unsure \cup {m \in IdsOf(disk) : applied[m] > 0}
      /\ restarts' = restarts + 1
      /\ UNCHANGED <<disk, count, applied, failures, settled, abandoned, excused,
                     overlapped, faults>>
  BY DEF Restart
<1>e. /\ <<>> \in Seq(Entry) /\ <<>> \in Seq(Nat) /\ Queue' = <<>> /\ DOMAIN <<>> = {}
      /\ NoFlush \in CallType /\ NoFlush.pc = "idle" /\ NoFlush.raw = <<>>
      /\ NoCall \in [pc : {"idle", "read"}, raw : Seq(Entry)] /\ NoCall.raw = <<>>
      /\ NoCall.pc = "idle"
  BY <1>u, EmptySeq DEF NoFlush, NoCall, CallType, Queue
<1>f. /\ \A f \in Flushes : flush'[f].pc = "idle" /\ flush'[f].raw = <<>>
      /\ \A c \in Callers : caller'[c].pc = "idle" /\ caller'[c].raw = <<>>
      /\ \A f \in Flushes : ~Sending(f)'
  BY <1>u, <1>e DEF Sending
<1>1. Types'
  <2>1. unsure' \subseteq Accepted
    BY <1>t, <1>u, IdsOfAccepted DEF EntriesInv, Types
  <2>2. restarts' \in Nat
    BY <1>t, <1>u DEF Types
  <2> QED BY <1>t, <1>u, <1>e, <2>1, <2>2 DEF Types, Accepted
<1>2. EntriesInv'
  BY <1>t, <1>u, <1>e, <1>f DEF EntriesInv, AllGenuine, Genuine, Accepted
<1>3. HeapInv'
  BY <1>u, <1>e, <1>f DEF HeapInv, OnHeap
<1>4. WalkInv'
  BY <1>u, <1>e, <1>f DEF IInv, WalkInv
<1>5. Kept'
  BY <1>u DEF IInv, Kept, Accepted
<1>6. SentInv'
  <2>1. ~overlapped => \A m \in Ids : applied'[m] <= 1 \/ m \in unsure'
    BY <1>u DEF IInv, SentInv
  <2>2. ASSUME NEW i \in DOMAIN disk PROVE Clean(disk[i].id)'
    <3>1. disk[i].id \in IdsOf(disk) /\ applied[disk[i].id] \in Nat
      BY <1>t, BoundsAssumption DEF IdsOf, EntriesInv, AllGenuine, Genuine, Types, Accepted, Ids
    <3> QED BY <3>1, <1>u DEF Clean
  <2> QED BY <2>1, <2>2, <1>u, <1>e DEF SentInv
<1>7. TriesInv'
  BY <1>t, <1>u DEF TriesInv, Types
<1> QED BY <1>1, <1>2, <1>3, <1>4, <1>5, <1>6, <1>7 DEF IInv

\* Nothing is queued when the app is new.
LEMMA InitHolds == Init => IInv
<1> SUFFICES ASSUME Init PROVE IInv
  OBVIOUS
<1>e. /\ <<>> \in Seq(Entry) /\ <<>> \in Seq(Nat) /\ Queue = <<>> /\ DOMAIN <<>> = {}
      /\ NoFlush \in CallType /\ NoFlush.pc = "idle" /\ NoFlush.raw = <<>>
      /\ NoCall \in [pc : {"idle", "read"}, raw : Seq(Entry)] /\ NoCall.raw = <<>>
      /\ NoCall.pc = "idle" /\ Accepted = {}
  BY EmptySeq DEF NoFlush, NoCall, CallType, Queue, Init, Accepted
<1>f. /\ \A f \in Flushes : flush[f].pc = "idle" /\ flush[f].raw = <<>>
      /\ \A c \in Callers : caller[c].pc = "idle" /\ caller[c].raw = <<>>
      /\ \A f \in Flushes : ~Sending(f)
  BY <1>e DEF Sending, Init
<1>1. Types
  <2>1. /\ count \in 0..MaxMutations /\ faults \in Nat /\ restarts \in Nat
        /\ overlapped \in BOOLEAN
        /\ settled = {} /\ abandoned = {} /\ excused = {} /\ unsure = {}
    <3>1. 0 \in 0..MaxMutations /\ 0 \in Nat
      BY BoundsAssumption
    <3>2. /\ count = 0 /\ faults = 0 /\ restarts = 0 /\ overlapped = FALSE
          /\ settled = {} /\ abandoned = {} /\ excused = {} /\ unsure = {}
      BY DEF Init
    <3> QED BY <3>1, <3>2
  <2>2. /\ object \in Seq(Entry) /\ disk \in Seq(Entry)
        /\ array \in [Arrays -> Seq(Nat)] /\ cached = NoArray
    BY <1>e DEF Init
  <2>3. /\ flush \in [Flushes -> CallType]
        /\ caller \in [Callers -> [pc : {"idle", "read"}, raw : Seq(Entry)]]
        /\ applied \in [Ids -> Nat] /\ failures \in [Ids -> Nat]
    BY <1>e DEF Init
  <2> QED BY <2>1, <2>2, <2>3 DEF Types
<1>2. EntriesInv
  BY <1>e, <1>f DEF Init, EntriesInv, AllGenuine
<1>3. HeapInv
  BY <1>e, <1>f DEF Init, HeapInv, OnHeap
<1>4. WalkInv
  BY <1>e, <1>f DEF Init, WalkInv
<1>5. Kept
  BY <1>e DEF Kept
<1>6. SentInv
  BY <1>e DEF Init, SentInv, Clean
<1>7. TriesInv
  BY <1>e, BoundsAssumption DEF Init, TriesInv
<1> QED BY <1>1, <1>2, <1>3, <1>4, <1>5, <1>6, <1>7 DEF IInv

\* Every step of the app and of the server keeps the invariant.
THEOREM Inductive == IInv /\ [Next]_vars => IInv'
<1> SUFFICES ASSUME IInv, [Next]_vars PROVE IInv'
  OBVIOUS
<1>1. CASE \E c \in Callers : Enqueue(c) \/ EnqueueReads(c) \/ EnqueueLoaded(c) \/ EnqueueLoadFails(c)
  BY <1>1, EnqueueKeeps, ReadsKeep, EnqueueLoadedKeeps
<1>2. CASE \E f \in Flushes : Step(f)
  BY <1>2, StartSyncKeeps, ReadsKeep, SyncLoadedKeeps, HandleKeeps, AnsweredKeeps DEF Step
<1>3. CASE \E f \in Flushes : SyncLoadFails(f) \/ Failed(f)
  BY <1>3, SyncLoadFailsKeeps, FailedKeeps
<1>4. CASE Restart
  BY <1>4, RestartKeeps
<1>5. CASE UNCHANGED vars
  <2>1. /\ UNCHANGED <<array, object, cached, disk, flush, caller, count, applied, failures,
                       settled, abandoned, excused, unsure, overlapped, faults, restarts>>
        /\ Queue' = Queue
    BY <1>5 DEF vars, appVars, history, Queue
  <2>2. Types' /\ EntriesInv' /\ HeapInv' /\ Kept'
    BY <2>1 DEF IInv, Types, EntriesInv, HeapInv, Kept, AllGenuine, Genuine, OnHeap, Accepted,
                Sending
  <2>3. WalkInv'
    BY <2>1 DEF IInv, WalkInv, Sending, Passed, IdAt
  <2>4. \A o : (Ahead(o)' <=> Ahead(o)) /\ (Landed(o)' <=> Landed(o))
    BY <2>1 DEF Ahead, Landed, Sending, Passed, Here
  <2>5. SentInv' /\ TriesInv'
    BY <2>1, <2>4 DEF IInv, SentInv, TriesInv, Clean
  <2> QED BY <2>2, <2>3, <2>5 DEF IInv
<1> QED BY <1>1, <1>2, <1>3, <1>4, <1>5 DEF Next

LEMMA InvariantHolds == Spec => []IInv
BY InitHolds, Inductive, PTL DEF Spec
-----------------------------------------------------------------------------
\* A sequence of numbers that are all indices of the heap.
LEMMA SeqInto ==
  ASSUME NEW S, NEW T, NEW seq \in Seq(S), \A i \in DOMAIN seq : seq[i] \in T
  PROVE  seq \in Seq(T)
<1>1. Len(seq) \in Nat /\ DOMAIN seq = 1..Len(seq) /\ seq \in [1..Len(seq) -> S]
  BY LenProperties
<1>2. seq \in [1..Len(seq) -> T]
  BY <1>1
<1> QED BY <1>1, <1>2, FunctionIsSeq

\* References, positions and states of calls have their types: no array of the app leads
\* to an object that is not there, and a walk is never past the end of its array.
THEOREM TypeCorrect == Spec => []TypeOK
<1>1. IInv => TypeOK
  <2> SUFFICES ASSUME IInv PROVE TypeOK
    OBVIOUS
  <2>t. Types /\ EntriesInv /\ HeapInv
    BY DEF IInv
  <2>1. object \in Seq([id : Accepted, retryCount : Nat])
    <3>1. \A i \in DOMAIN object : object[i] \in [id : Accepted, retryCount : Nat]
      <4> TAKE i \in DOMAIN object
      <4>1. object[i] \in Entry
        BY <2>t, LenProperties, ElementOfSeq DEF Types
      <4> QED BY <2>t, <4>1 DEF EntriesInv, AllGenuine, Genuine, Entry
    <3> QED BY <2>t, <3>1, SeqInto DEF Types
  <2>2. array \in [Arrays -> Seq(1..Len(object))]
    <3>1. ASSUME NEW a \in Arrays PROVE array[a] \in Seq(1..Len(object))
      <4>1. DOMAIN object = 1..Len(object) /\ array[a] \in Seq(Nat)
        BY <2>t, LenProperties DEF Types
      <4> QED BY <2>t, <4>1, SeqInto DEF HeapInv, OnHeap
    <3> QED BY <2>t, <3>1 DEF Types
  <2>3. \A f \in Flushes :
       /\ flush[f].pc \in {"idle", "read", "send"}
       /\ flush[f].arr \in Arrays \cup {NoArray}
       /\ flush[f].server \in {"none", "applied", "refused"}
       /\ flush[f].pc = "send" => flush[f].pos \in DOMAIN array[flush[f].arr]
    BY <2>t DEF Types, CallType, HeapInv, Sending
  <2> QED BY <2>t, <2>1, <2>2, <2>3 DEF TypeOK, Types
<1> QED BY <1>1, InvariantHolds, PTL

\* A mutation that enqueue accepted is never lost: it is in the queue and in the storage
\* until it is answered or given up, unless the storage failed or calls overlapped.
THEOREM NothingIsLost == Spec => []Kept
<1>1. IInv => Kept
  BY DEF IInv
<1> QED BY <1>1, InvariantHolds, PTL

\* While one flush works at a time, the server applies a mutation twice only if its
\* answer was lost or the app was killed in between.
THEOREM SentOnceHolds == Spec => []SentOnce
<1>1. IInv => SentOnce
  <2> SUFFICES ASSUME IInv, ~overlapped, NEW m \in Ids, applied[m] > 1 PROVE m \in unsure
    BY DEF SentOnce
  <2>1. applied[m] \in Nat /\ (applied[m] <= 1 \/ m \in unsure)
    BY DEF IInv, SentInv, Types
  <2> QED BY <2>1
<1> QED BY <1>1, InvariantHolds, PTL

\* No mutation is given up before it has failed MaxRetries times, and in one run of the
\* app without overlapping calls none is tried more often.
THEOREM GivenUpInTimeHolds == Spec => []GivenUpInTime
<1>1. IInv => GivenUpInTime
  BY DEF IInv, EntriesInv, TriesInv, GivenUpInTime
<1> QED BY <1>1, InvariantHolds, PTL
=============================================================================
