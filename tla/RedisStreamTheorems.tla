------------------------- MODULE RedisStreamTheorems -------------------------
(***************************************************************************)
(* What every script and command of RedisStream keeps: the result is a     *)
(* queue again, and no entry the queue had changes.  Proofs about the      *)
(* gateways use these lemmas and never open the operators for typing.      *)
(***************************************************************************)
EXTENDS RedisStream, FiniteSetTheorems, TLAPS

\* r has the entries of q, unchanged, and perhaps more.
Grows(q, r) ==
  /\ Len(q.stream) <= Len(r.stream)
  /\ \A e \in Entries(q) : e \in Entries(r) /\ r.stream[e] = q.stream[e]

\* Every entry of r that q lacks is for d.
AddsOnly(q, r, d) ==
  \A e \in Entries(r) : r.stream[e] = d \/ (e \in Entries(q) /\ r.stream[e] = q.stream[e])

\* A queue is a record; its entries are numbers whose deliveries are known.
LEMMA QueueFields ==
  ASSUME NEW Ids, NEW q \in Queue(Ids)
  PROVE  /\ q = [stream |-> q.stream, lastRead |-> q.lastRead, pel |-> q.pel,
                index |-> q.index, dlqIndex |-> q.dlqIndex,
                replayIndex |-> q.replayIndex]
         /\ q.index \in [Ids -> Nat]
         /\ q.dlqIndex \in SUBSET Ids
         /\ q.replayIndex \in SUBSET (Ids \X Nat)
         /\ q.pel \subseteq 1 .. q.lastRead
         /\ q.stream \in Seq(Ids)
         /\ Len(q.stream) \in Nat
         /\ q.lastRead \in Nat
         /\ q.lastRead <= Len(q.stream)
         /\ q.pel \subseteq Entries(q)
         /\ Entries(q) \subseteq Nat
         /\ \A e \in Entries(q) : q.stream[e] \in Ids
BY DEF Queue, Entries

\* A record with these fields is a queue.
LEMMA QueueRecord ==
  ASSUME NEW Ids, NEW s \in Seq(Ids), NEW l \in Nat, NEW p, NEW i \in [Ids -> Nat],
         NEW x \in SUBSET Ids, NEW y \in SUBSET (Ids \X Nat),
         l <= Len(s), p \subseteq 1 .. l
  PROVE  [stream |-> s, lastRead |-> l, pel |-> p, index |-> i,
          dlqIndex |-> x, replayIndex |-> y] \in Queue(Ids)
<1> p \in SUBSET Nat
  OBVIOUS
<1> QED BY DEF Queue

\* A new queue is empty and well formed.
LEMMA EmptyQueueType ==
  ASSUME NEW Ids
  PROVE  EmptyQueue(Ids) \in Queue(Ids)
BY DEF EmptyQueue, Queue

\* XADD appends: the new entry is the last one.
LEMMA AddType ==
  ASSUME NEW Ids, NEW q \in Queue(Ids), NEW d \in Ids
  PROVE  /\ Add(q, d) \in Queue(Ids)
         /\ Grows(q, Add(q, d))
         /\ AddsOnly(q, Add(q, d), d)
         /\ Len(Add(q, d).stream) = Len(q.stream) + 1
         /\ Add(q, d).stream[Len(q.stream) + 1] = d
<1> DEFINE r == Add(q, d)
           s == Append(q.stream, d)
           i == [q.index EXCEPT ![d] = Len(q.stream) + 1]
<1>1. r = [f \in DOMAIN q |-> IF f = "index" THEN i ELSE IF f = "stream" THEN s ELSE q[f]]
  BY DEF Add
<1>2. r = [stream |-> s, lastRead |-> q.lastRead, pel |-> q.pel, index |-> i,
           dlqIndex |-> q.dlqIndex, replayIndex |-> q.replayIndex]
  <2>1. q = [stream |-> q.stream, lastRead |-> q.lastRead, pel |-> q.pel,
             index |-> q.index, dlqIndex |-> q.dlqIndex,
             replayIndex |-> q.replayIndex]
    BY QueueFields
  <2> HIDE DEF r, s, i
  <2> QED BY ONLY <1>1, <2>1
<1>3. /\ s \in Seq(Ids)
      /\ Len(s) = Len(q.stream) + 1
      /\ s[Len(q.stream) + 1] = d
      /\ \A e \in 1 .. Len(q.stream) : s[e] = q.stream[e]
  BY QueueFields
<1>4. /\ i \in [Ids -> Nat] /\ q.lastRead \in Nat /\ q.lastRead <= Len(s)
      /\ q.pel \subseteq 1 .. q.lastRead
      /\ q.dlqIndex \in SUBSET Ids /\ q.replayIndex \in SUBSET (Ids \X Nat)
  BY <1>3, QueueFields
<1>5. r \in Queue(Ids)
  <2> HIDE DEF r, s, i
  <2> QED BY ONLY <1>2, <1>3, <1>4, QueueRecord
<1>6. Grows(q, r)
  BY <1>2, <1>3, QueueFields DEF Grows, Entries
<1>7. AddsOnly(q, r, d)
  BY <1>2, <1>3, QueueFields DEF AddsOnly, Entries
<1> QED BY <1>2, <1>3, <1>5, <1>6, <1>7

\* The append script adds at most one entry.
LEMMA AppendOnceType ==
  ASSUME NEW Ids, NEW q \in Queue(Ids), NEW d \in Ids
  PROVE  /\ AppendOnce(q, d) \in Queue(Ids)
         /\ Grows(q, AppendOnce(q, d))
         /\ AddsOnly(q, AppendOnce(q, d), d)
<1>1. Grows(q, q) /\ AddsOnly(q, q, d)
  BY QueueFields DEF Grows, AddsOnly
<1> QED BY <1>1, AddType DEF AppendOnce

\* Reading moves entries to the pending list and adds none.
LEMMA ReadGroupType ==
  ASSUME NEW Ids, NEW q \in Queue(Ids), NEW n \in Nat
  PROVE  /\ ReadGroup(q, n) \in Queue(Ids)
         /\ Grows(q, ReadGroup(q, n))
         /\ Unread(q, n) \subseteq Entries(q)
         /\ ReadGroup(q, n).stream = q.stream
<1> DEFINE r == ReadGroup(q, n)
           l == IF q.lastRead + n <= Len(q.stream) THEN q.lastRead + n ELSE Len(q.stream)
           p == q.pel \cup Unread(q, n)
<1>1. r = [f \in DOMAIN q |-> IF f = "lastRead" THEN l ELSE IF f = "pel" THEN p ELSE q[f]]
  BY DEF ReadGroup
<1>2. r = [stream |-> q.stream, lastRead |-> l, pel |-> p, index |-> q.index,
           dlqIndex |-> q.dlqIndex, replayIndex |-> q.replayIndex]
  <2>1. q = [stream |-> q.stream, lastRead |-> q.lastRead, pel |-> q.pel,
             index |-> q.index, dlqIndex |-> q.dlqIndex,
             replayIndex |-> q.replayIndex]
    BY QueueFields
  <2> HIDE DEF r, l, p
  <2> QED BY ONLY <1>1, <2>1
<1>3. Unread(q, n) \subseteq Entries(q)
  BY DEF Unread
<1>4. l \in Nat /\ l <= Len(q.stream) /\ p \subseteq 1 .. l
  BY QueueFields DEF Unread, Entries
<1>5. r \in Queue(Ids)
  <2>1. /\ q.stream \in Seq(Ids) /\ q.index \in [Ids -> Nat]
        /\ q.dlqIndex \in SUBSET Ids /\ q.replayIndex \in SUBSET (Ids \X Nat)
    BY QueueFields
  <2> HIDE DEF r, l, p
  <2> QED BY ONLY <1>2, <1>4, <2>1, QueueRecord
<1>6. Grows(q, r)
  BY <1>2, QueueFields DEF Grows, Entries
<1> QED BY <1>2, <1>3, <1>5, <1>6

\* Acknowledging an entry only shrinks the pending list.
LEMMA AcknowledgeType ==
  ASSUME NEW Ids, NEW q \in Queue(Ids), NEW e
  PROVE  /\ Acknowledge(q, e) \in Queue(Ids)
         /\ Grows(q, Acknowledge(q, e))
         /\ Acknowledge(q, e).stream = q.stream
<1> DEFINE r == Acknowledge(q, e)
<1>1. r = [f \in DOMAIN q |-> IF f = "pel" THEN q.pel \ {e} ELSE q[f]]
  BY DEF Acknowledge
<1>2. r = [stream |-> q.stream, lastRead |-> q.lastRead, pel |-> q.pel \ {e},
           index |-> q.index, dlqIndex |-> q.dlqIndex, replayIndex |-> q.replayIndex]
  <2>1. q = [stream |-> q.stream, lastRead |-> q.lastRead, pel |-> q.pel,
             index |-> q.index, dlqIndex |-> q.dlqIndex,
             replayIndex |-> q.replayIndex]
    BY QueueFields
  <2> HIDE DEF r
  <2> QED BY ONLY <1>1, <2>1
<1>3. r \in Queue(Ids)
  <2>1. /\ q.stream \in Seq(Ids) /\ q.index \in [Ids -> Nat]
        /\ q.lastRead \in Nat /\ q.lastRead <= Len(q.stream)
        /\ q.pel \ {e} \subseteq 1 .. q.lastRead
        /\ q.dlqIndex \in SUBSET Ids /\ q.replayIndex \in SUBSET (Ids \X Nat)
    BY QueueFields
  <2> HIDE DEF r
  <2> QED BY ONLY <1>2, <2>1, QueueRecord
<1> QED BY <1>2, <1>3, QueueFields DEF Grows, Entries

\* So does moving it to the DLQ.
LEMMA MoveToDLQType ==
  ASSUME NEW Ids, NEW q \in Queue(Ids), NEW e, NEW d \in Ids
  PROVE  /\ MoveToDLQ(q, e, d) \in Queue(Ids)
         /\ Grows(q, MoveToDLQ(q, e, d))
         /\ MoveToDLQ(q, e, d).stream = q.stream
<1> DEFINE r == MoveToDLQ(q, e, d)
           x == q.dlqIndex \cup {d}
<1>1. r = [f \in DOMAIN q |-> IF f = "pel" THEN q.pel \ {e}
                              ELSE IF f = "dlqIndex" THEN x ELSE q[f]]
  BY DEF MoveToDLQ
<1>2. r = [stream |-> q.stream, lastRead |-> q.lastRead, pel |-> q.pel \ {e},
           index |-> q.index, dlqIndex |-> x, replayIndex |-> q.replayIndex]
  <2>1. q = [stream |-> q.stream, lastRead |-> q.lastRead, pel |-> q.pel,
             index |-> q.index, dlqIndex |-> q.dlqIndex,
             replayIndex |-> q.replayIndex]
    BY QueueFields
  <2> HIDE DEF r, x
  <2> QED BY ONLY <1>1, <2>1
<1>3. r \in Queue(Ids)
  <2>1. /\ q.stream \in Seq(Ids) /\ q.index \in [Ids -> Nat]
        /\ q.lastRead \in Nat /\ q.lastRead <= Len(q.stream)
        /\ q.pel \ {e} \subseteq 1 .. q.lastRead
        /\ x \in SUBSET Ids /\ q.replayIndex \in SUBSET (Ids \X Nat)
    BY QueueFields
  <2> HIDE DEF r, x
  <2> QED BY ONLY <1>2, <2>1, QueueRecord
<1> QED BY <1>2, <1>3, QueueFields DEF Grows, Entries

\* The replay script adds at most one entry.
LEMMA ReplayFromDLQType ==
  ASSUME NEW Ids, NEW q \in Queue(Ids), NEW d \in Ids, NEW gen \in Nat
  PROVE  /\ ReplayFromDLQ(q, d, gen) \in Queue(Ids)
         /\ Grows(q, ReplayFromDLQ(q, d, gen))
         /\ AddsOnly(q, ReplayFromDLQ(q, d, gen), d)
<1>1. PICK a \in Queue(Ids) : a = Add(q, d) /\ Grows(q, a) /\ AddsOnly(q, a, d)
  BY AddType
<1> DEFINE x == a.dlqIndex \ {d}
           y == a.replayIndex \cup {<<d, gen>>}
           r == [a EXCEPT !.dlqIndex = @ \ {d}, !.replayIndex = @ \cup {<<d, gen>>}]
<1>2. r = [f \in DOMAIN a |-> IF f = "replayIndex" THEN y
                              ELSE IF f = "dlqIndex" THEN x ELSE a[f]]
  OBVIOUS
<1>3. r = [stream |-> a.stream, lastRead |-> a.lastRead, pel |-> a.pel,
           index |-> a.index, dlqIndex |-> x, replayIndex |-> y]
  <2>1. a = [stream |-> a.stream, lastRead |-> a.lastRead, pel |-> a.pel,
             index |-> a.index, dlqIndex |-> a.dlqIndex,
             replayIndex |-> a.replayIndex]
    BY QueueFields
  <2> HIDE DEF r, x, y
  <2> QED BY ONLY <1>2, <2>1
<1>4. r \in Queue(Ids)
  <2>1. /\ a.stream \in Seq(Ids) /\ a.index \in [Ids -> Nat]
        /\ a.lastRead \in Nat /\ a.lastRead <= Len(a.stream)
        /\ a.pel \subseteq 1 .. a.lastRead
        /\ x \in SUBSET Ids /\ y \in SUBSET (Ids \X Nat)
    BY QueueFields
  <2> HIDE DEF r, x, y
  <2> QED BY ONLY <1>3, <2>1, QueueRecord
<1>5. Grows(q, r) /\ AddsOnly(q, r, d)
  BY <1>1, <1>3 DEF Grows, AddsOnly, Entries
<1>6. Grows(q, q) /\ AddsOnly(q, q, d)
  BY QueueFields DEF Grows, AddsOnly
<1>7. ReplayFromDLQ(q, d, gen) = q \/ ReplayFromDLQ(q, d, gen) = r
  BY <1>1 DEF ReplayFromDLQ
<1> QED BY <1>4, <1>5, <1>6, <1>7

------------------------------------------------------------------------------
(* Which entries a delivery has *)

\* The entries of d, whether one of them can still be got, and the generations replayed.
EntriesOf(q, d) == { e \in Entries(q) : q.stream[e] = d }
InStream(q, d) == \E e \in Live(q) : q.stream[e] = d
Generations(q, d) == { g \in Nat : <<d, g>> \in q.replayIndex }

\* A new entry is one more of its delivery, and it is live.
LEMMA AddEffect ==
  ASSUME NEW Ids, NEW q \in Queue(Ids), NEW d \in Ids, NEW r, r = Add(q, d)
  PROVE  /\ EntriesOf(r, d) = EntriesOf(q, d) \cup {Len(q.stream) + 1}
         /\ \A x \in Ids : x # d => EntriesOf(r, x) = EntriesOf(q, x)
         /\ InStream(r, d)
         /\ \A x \in Ids : InStream(q, x) => InStream(r, x)
<1>1. /\ r.pel = q.pel /\ r.lastRead = q.lastRead
      /\ r.stream = Append(q.stream, d)
  BY DEF Add, Queue
<1>2. /\ Len(r.stream) = Len(q.stream) + 1 /\ r.stream[Len(q.stream) + 1] = d
      /\ \A e \in 1 .. Len(q.stream) : r.stream[e] = q.stream[e]
      /\ Len(q.stream) \in Nat /\ q.lastRead \in Nat /\ q.lastRead <= Len(q.stream)
  BY <1>1, QueueFields
<1>3. Entries(r) = Entries(q) \cup {Len(q.stream) + 1}
  BY <1>2 DEF Entries
<1>4. Live(r) = Live(q) \cup {Len(q.stream) + 1}
  BY <1>1, <1>2, <1>3 DEF Live, Entries
<1>5. \A x : InStream(q, x) => InStream(r, x)
  BY <1>2, <1>4 DEF InStream, Live, Entries
<1>6. InStream(r, d)
  BY <1>2, <1>4 DEF InStream
<1>7. EntriesOf(r, d) = EntriesOf(q, d) \cup {Len(q.stream) + 1}
  BY <1>2, <1>3 DEF EntriesOf, Entries
<1>8. \A x \in Ids : x # d => EntriesOf(r, x) = EntriesOf(q, x)
  BY <1>2, <1>3 DEF EntriesOf, Entries
<1> QED BY <1>1, <1>5, <1>6, <1>7, <1>8

\* What is read stays live.
LEMMA ReadGroupEffect ==
  ASSUME NEW Ids, NEW q \in Queue(Ids), NEW n \in Nat, NEW r, r = ReadGroup(q, n)
  PROVE  /\ r.stream = q.stream /\ r.index = q.index
         /\ r.dlqIndex = q.dlqIndex /\ r.replayIndex = q.replayIndex
         /\ q.pel \subseteq r.pel /\ Unread(q, n) \subseteq r.pel
         /\ Live(r) = Live(q)
<1>1. /\ r.stream = q.stream /\ r.index = q.index
      /\ r.dlqIndex = q.dlqIndex /\ r.replayIndex = q.replayIndex
      /\ r.pel = q.pel \cup Unread(q, n)
      /\ r.lastRead = IF q.lastRead + n <= Len(q.stream) THEN q.lastRead + n ELSE Len(q.stream)
  BY DEF ReadGroup, Queue
<1>2. q.lastRead \in Nat /\ Len(q.stream) \in Nat /\ q.lastRead <= Len(q.stream)
  BY QueueFields
<1>3. Live(r) = Live(q)
  BY <1>1, <1>2 DEF Live, Entries, Unread
<1> QED BY <1>1, <1>3

\* An acknowledged entry is not live any more, the others are.
LEMMA AcknowledgeEffect ==
  ASSUME NEW Ids, NEW q \in Queue(Ids), NEW e, NEW r, r = Acknowledge(q, e)
  PROVE  /\ r.stream = q.stream /\ r.index = q.index
         /\ r.dlqIndex = q.dlqIndex /\ r.replayIndex = q.replayIndex
         /\ r.pel = q.pel \ {e}
         /\ \A x \in Ids : InStream(q, x) /\ x # q.stream[e] => InStream(r, x)
<1>1. /\ r.stream = q.stream /\ r.index = q.index /\ r.lastRead = q.lastRead
      /\ r.dlqIndex = q.dlqIndex /\ r.replayIndex = q.replayIndex
      /\ r.pel = q.pel \ {e}
  BY DEF Acknowledge, Queue
<1>2. \A x \in Ids : InStream(q, x) /\ x # q.stream[e] => InStream(r, x)
  BY <1>1 DEF InStream, Live, Entries
<1> QED BY <1>1, <1>2

\* The same with an entry on the DLQ.
LEMMA MoveToDLQEffect ==
  ASSUME NEW Ids, NEW q \in Queue(Ids), NEW e, NEW d \in Ids, NEW r, r = MoveToDLQ(q, e, d)
  PROVE  /\ r.stream = q.stream /\ r.index = q.index
         /\ r.dlqIndex = q.dlqIndex \cup {d} /\ r.replayIndex = q.replayIndex
         /\ r.pel = q.pel \ {e}
         /\ Live(r) = Live(Acknowledge(q, e))
         /\ \A x \in Ids : InStream(q, x) /\ x # q.stream[e] => InStream(r, x)
<1>1. /\ r.stream = q.stream /\ r.index = q.index /\ r.lastRead = q.lastRead
      /\ r.dlqIndex = q.dlqIndex \cup {d} /\ r.replayIndex = q.replayIndex
      /\ r.pel = q.pel \ {e}
  BY DEF MoveToDLQ, Queue
<1>2. \A x \in Ids : InStream(q, x) /\ x # q.stream[e] => InStream(r, x)
  BY <1>1 DEF InStream, Live, Entries
<1>3. /\ Acknowledge(q, e).stream = q.stream /\ Acknowledge(q, e).lastRead = q.lastRead
      /\ Acknowledge(q, e).pel = q.pel \ {e}
  BY DEF Acknowledge, Queue
<1>4. Live(r) = Live(Acknowledge(q, e))
  BY <1>1, <1>3 DEF Live, Entries
<1> QED BY <1>1, <1>2, <1>4

\* A generation that was not replayed yet gets its entry; one that was changes nothing.
LEMMA ReplayEffect ==
  ASSUME NEW Ids, NEW q \in Queue(Ids), NEW d \in Ids, NEW g \in Nat,
         NEW r, r = ReplayFromDLQ(q, d, g), <<d, g>> \notin q.replayIndex
  PROVE  /\ EntriesOf(r, d) = EntriesOf(q, d) \cup {Len(q.stream) + 1}
         /\ \A x \in Ids : x # d => EntriesOf(r, x) = EntriesOf(q, x)
         /\ InStream(r, d)
         /\ \A x \in Ids : InStream(q, x) => InStream(r, x)
<1>1. PICK a \in Queue(Ids) : a = Add(q, d)
  BY AddType
<1>2. r = [a EXCEPT !.dlqIndex = @ \ {d}, !.replayIndex = @ \cup {<<d, g>>}]
  BY <1>1 DEF ReplayFromDLQ
<1>3. r.stream = a.stream /\ r.lastRead = a.lastRead /\ r.pel = a.pel
  BY <1>2 DEF Queue
<1>4. /\ \A x : EntriesOf(r, x) = EntriesOf(a, x)
      /\ \A x : InStream(r, x) = InStream(a, x)
  BY <1>3 DEF EntriesOf, InStream, Live, Entries
<1> QED BY <1>1, <1>3, <1>4, AddEffect

\* The index says which deliveries had an entry.
LEMMA AddIndex ==
  ASSUME NEW Ids, NEW q \in Queue(Ids), NEW d \in Ids
  PROVE  \A x \in Ids : Add(q, d).index[x] # 0 <=> q.index[x] # 0 \/ x = d
<1>1. Add(q, d).index = [q.index EXCEPT ![d] = Len(q.stream) + 1]
  BY DEF Add, Queue
<1>2. q.index \in [Ids -> Nat] /\ Len(q.stream) + 1 # 0
  BY QueueFields
<1> QED BY <1>1, <1>2

\* The fields after each of the two scripts that add an entry.
LEMMA AppendFields ==
  ASSUME NEW Ids, NEW q \in Queue(Ids), NEW d \in Ids
  PROVE  /\ AppendOnce(q, d).pel = q.pel
         /\ AppendOnce(q, d).dlqIndex = q.dlqIndex
         /\ AppendOnce(q, d).replayIndex = q.replayIndex
         /\ \A x \in Ids : AppendOnce(q, d).index[x] # 0 <=> q.index[x] # 0 \/ x = d
<1>1. CASE q.index[d] # 0
  BY <1>1 DEF AppendOnce
<1>2. CASE q.index[d] = 0
  <2>1. AppendOnce(q, d) = Add(q, d)
    BY <1>2 DEF AppendOnce
  <2>2. /\ Add(q, d).pel = q.pel /\ Add(q, d).dlqIndex = q.dlqIndex
        /\ Add(q, d).replayIndex = q.replayIndex
    BY DEF Add, Queue
  <2>3. \A x \in Ids : Add(q, d).index[x] # 0 <=> q.index[x] # 0 \/ x = d
    BY AddIndex
  <2> QED BY <2>1, <2>2, <2>3
<1> QED BY <1>1, <1>2

LEMMA ReplayFields ==
  ASSUME NEW Ids, NEW q \in Queue(Ids), NEW d \in Ids, NEW g, <<d, g>> \notin q.replayIndex
  PROVE  /\ ReplayFromDLQ(q, d, g).pel = q.pel
         /\ ReplayFromDLQ(q, d, g).dlqIndex = q.dlqIndex \ {d}
         /\ ReplayFromDLQ(q, d, g).replayIndex = q.replayIndex \cup {<<d, g>>}
         /\ \A x \in Ids : ReplayFromDLQ(q, d, g).index[x] # 0 <=> q.index[x] # 0 \/ x = d
<1>1. PICK a \in Queue(Ids) : a = Add(q, d)
  BY AddType
<1>2. a.pel = q.pel /\ a.dlqIndex = q.dlqIndex /\ a.replayIndex = q.replayIndex
  BY <1>1 DEF Add, Queue
<1>3. ReplayFromDLQ(q, d, g) = [a EXCEPT !.dlqIndex = @ \ {d}, !.replayIndex = @ \cup {<<d, g>>}]
  BY <1>1 DEF ReplayFromDLQ
<1>4. /\ ReplayFromDLQ(q, d, g).pel = a.pel
      /\ ReplayFromDLQ(q, d, g).index = a.index
      /\ ReplayFromDLQ(q, d, g).dlqIndex = a.dlqIndex \ {d}
      /\ ReplayFromDLQ(q, d, g).replayIndex = a.replayIndex \cup {<<d, g>>}
  BY <1>3 DEF Queue
<1>5. \A x \in Ids : a.index[x] # 0 <=> q.index[x] # 0 \/ x = d
  BY <1>1, AddIndex
<1> QED BY <1>2, <1>4, <1>5

\* The entry a script adds is the last one, and nobody has it yet.
LEMMA NewEntry ==
  ASSUME NEW Ids, NEW q \in Queue(Ids), NEW d \in Ids, NEW r,
         r = Add(q, d) \/ \E g \in Nat : r = ReplayFromDLQ(q, d, g) /\ <<d, g>> \notin q.replayIndex
  PROVE  \E e \in Live(r) : r.stream[e] = d /\ e \notin Entries(q)
<1>1. PICK a \in Queue(Ids) : a = Add(q, d)
  BY AddType
<1>2. /\ Len(a.stream) = Len(q.stream) + 1 /\ a.stream[Len(q.stream) + 1] = d
      /\ Len(q.stream) \in Nat /\ q.lastRead \in Nat /\ q.lastRead <= Len(q.stream)
  <2>1. Len(Add(q, d).stream) = Len(q.stream) + 1 /\ Add(q, d).stream[Len(q.stream) + 1] = d
    BY AddType
  <2>2. Len(q.stream) \in Nat /\ q.lastRead \in Nat /\ q.lastRead <= Len(q.stream)
    BY QueueFields
  <2> QED BY <1>1, <2>1, <2>2
<1>3. a.lastRead = q.lastRead
  BY <1>1 DEF Add, Queue
<1>4. r.stream = a.stream /\ r.lastRead = a.lastRead
  <2>1. ASSUME NEW g \in Nat, r = ReplayFromDLQ(q, d, g), <<d, g>> \notin q.replayIndex
        PROVE  r.stream = a.stream /\ r.lastRead = a.lastRead
    <3>1. r = [a EXCEPT !.dlqIndex = @ \ {d}, !.replayIndex = @ \cup {<<d, g>>}]
      BY <1>1, <2>1 DEF ReplayFromDLQ
    <3> QED BY <3>1 DEF Queue
  <2> QED BY <1>1, <2>1
<1>5. Len(q.stream) + 1 \in Live(r) /\ Len(q.stream) + 1 \notin Entries(q)
  BY <1>2, <1>3, <1>4 DEF Live, Entries
<1> QED BY <1>2, <1>4, <1>5

\* Entries and generations are finitely many; one more makes at most one more.
LEMMA FiniteEntries ==
  ASSUME NEW Ids, NEW q \in Queue(Ids), NEW d \in Ids
  PROVE  /\ IsFiniteSet(EntriesOf(q, d)) /\ Cardinality(EntriesOf(q, d)) \in Nat
         /\ \A n : Cardinality(EntriesOf(q, d) \cup {n}) <= Cardinality(EntriesOf(q, d)) + 1
<1>1. Len(q.stream) \in Int /\ 1 \in Int
  BY QueueFields
<1>2. IsFiniteSet(1 .. Len(q.stream))
  BY <1>1, FS_Interval
<1>3. EntriesOf(q, d) \subseteq 1 .. Len(q.stream)
  BY DEF EntriesOf, Entries
<1>4. IsFiniteSet(EntriesOf(q, d))
  BY <1>2, <1>3, FS_Subset
<1>5. Cardinality(EntriesOf(q, d)) \in Nat
  BY <1>4, FS_CardinalityType
<1>6. ASSUME NEW n
      PROVE  Cardinality(EntriesOf(q, d) \cup {n}) <= Cardinality(EntriesOf(q, d)) + 1
  <2>1. Cardinality(EntriesOf(q, d) \cup {n}) =
          IF n \in EntriesOf(q, d) THEN Cardinality(EntriesOf(q, d))
          ELSE Cardinality(EntriesOf(q, d)) + 1
    BY <1>4, FS_AddElement
  <2> QED BY <1>5, <2>1
<1> QED BY <1>4, <1>5, <1>6

LEMMA FiniteGenerations ==
  ASSUME NEW G, NEW n \in Nat, G \subseteq 1 .. n
  PROVE  /\ Cardinality(G) \in Nat
         /\ \A g : g \notin G => Cardinality(G \cup {g}) = Cardinality(G) + 1
<1>1. IsFiniteSet(1 .. n)
  BY FS_Interval
<1>2. IsFiniteSet(G)
  BY <1>1, FS_Subset
<1> QED BY <1>2, FS_CardinalityType, FS_AddElement

\* An entry stays with its consumers until it is itself acknowledged or moved.
LEMMA StaysLive ==
  ASSUME NEW Ids, NEW q \in Queue(Ids), NEW r, NEW e \in Entries(q),
         \/ \E d \in Ids : r = AppendOnce(q, d)
         \/ \E d \in Ids, g \in Nat : r = ReplayFromDLQ(q, d, g)
         \/ \E n \in Nat : r = ReadGroup(q, n)
         \/ \E f : f # e /\ r = Acknowledge(q, f)
         \/ \E f, d : f # e /\ r = MoveToDLQ(q, f, d)
  PROVE  /\ e \in q.pel => e \in r.pel
         /\ e \in Live(q) /\ e \in Entries(r) => e \in Live(r)
<1>1. ASSUME r.lastRead = q.lastRead, e \in q.pel => e \in r.pel
      PROVE  /\ e \in q.pel => e \in r.pel
             /\ e \in Live(q) /\ e \in Entries(r) => e \in Live(r)
  BY <1>1 DEF Live
<1>2. CASE r = q
  BY <1>1, <1>2
<1>3. ASSUME NEW d \in Ids, NEW a \in Queue(Ids), a = Add(q, d)
      PROVE  a.lastRead = q.lastRead /\ a.pel = q.pel
  BY <1>3 DEF Add, Queue
<1>4. ASSUME NEW d \in Ids, r = AppendOnce(q, d)
      PROVE  r = q \/ (r.lastRead = q.lastRead /\ r.pel = q.pel)
  BY <1>3, <1>4, AddType DEF AppendOnce
<1>5. ASSUME NEW d \in Ids, NEW g \in Nat, r = ReplayFromDLQ(q, d, g)
      PROVE  r = q \/ (r.lastRead = q.lastRead /\ r.pel = q.pel)
  <2>1. PICK a \in Queue(Ids) : a = Add(q, d)
    BY AddType
  <2>2. r = q \/ r = [a EXCEPT !.dlqIndex = @ \ {d}, !.replayIndex = @ \cup {<<d, g>>}]
    BY <1>5, <2>1 DEF ReplayFromDLQ
  <2>3. r = q \/ (r.lastRead = a.lastRead /\ r.pel = a.pel)
    BY <2>2 DEF Queue
  <2> QED BY <1>3, <2>1, <2>3
<1>6. ASSUME NEW n \in Nat, r = ReadGroup(q, n)
      PROVE  q.pel \subseteq r.pel /\ Live(r) = Live(q)
  BY <1>6, ReadGroupEffect
<1>7. ASSUME NEW f, f # e, r = Acknowledge(q, f)
      PROVE  r.lastRead = q.lastRead /\ r.pel = q.pel \ {f}
  BY <1>7 DEF Acknowledge, Queue
<1>8. ASSUME NEW f, NEW d, f # e, r = MoveToDLQ(q, f, d)
      PROVE  r.lastRead = q.lastRead /\ r.pel = q.pel \ {f}
  BY <1>8 DEF MoveToDLQ, Queue
<1> QED BY <1>1, <1>2, <1>4, <1>5, <1>6, <1>7, <1>8

------------------------------------------------------------------------------
(* How many entries a delivery has *)

\* The hashes of the scripts count the entries of d: none before the first
\* append, then one, and one more per generation, of which there are n.
CountedBy(q, d, n) ==
  /\ q.index[d] = 0 => EntriesOf(q, d) = {}
  /\ Cardinality(EntriesOf(q, d)) <= 1 + Cardinality(Generations(q, d))
  /\ Generations(q, d) \subseteq 1 .. n

\* Reading, acknowledging and moving an entry do not change the count.
LEMMA SameCounted ==
  ASSUME NEW q, NEW r, NEW d, NEW n, CountedBy(q, d, n),
         EntriesOf(r, d) = EntriesOf(q, d), Generations(r, d) = Generations(q, d),
         r.index[d] = 0 => q.index[d] = 0
  PROVE  CountedBy(r, d, n)
BY DEF CountedBy

\* The append script adds a first entry or none.
LEMMA AppendCounted ==
  ASSUME NEW Ids, NEW q \in Queue(Ids), NEW v \in Ids, NEW d \in Ids, NEW n \in Nat,
         CountedBy(q, d, n)
  PROVE  CountedBy(AppendOnce(q, v), d, n)
<1>1. CASE q.index[v] # 0
  BY <1>1 DEF AppendOnce
<1>2. CASE q.index[v] = 0
  <2>1. PICK r \in Queue(Ids) : r = Add(q, v)
    BY AddType
  <2>a. AppendOnce(q, v) = r
    BY <1>2, <2>1 DEF AppendOnce
  <2>2. /\ r.index[d] # 0 <=> q.index[d] # 0 \/ d = v
        /\ r.replayIndex = q.replayIndex
    BY <2>a, AppendFields
  <2>3. Generations(r, d) = Generations(q, d)
    BY <2>2 DEF Generations
  <2>4. CASE v # d
    <3>1. EntriesOf(r, d) = EntriesOf(q, d)
      BY <2>1, <2>4, AddEffect
    <3> QED BY <2>a, <2>2, <2>3, <3>1, SameCounted
  <2>5. CASE v = d
    <3>1. EntriesOf(r, d) = EntriesOf(q, d) \cup {Len(q.stream) + 1}
      BY <2>1, <2>5, AddEffect
    <3>2. Cardinality(EntriesOf(q, d)) = 0
      BY <1>2, <2>5, FS_EmptySet DEF CountedBy
    <3>3. Cardinality(EntriesOf(r, d)) <= 1 /\ Cardinality(EntriesOf(r, d)) \in Nat
      <4>1. Cardinality(EntriesOf(q, d) \cup {Len(q.stream) + 1}) <= Cardinality(EntriesOf(q, d)) + 1
        BY FiniteEntries
      <4>2. Cardinality(EntriesOf(r, d)) \in Nat
        BY FiniteEntries
      <4> QED BY <3>1, <3>2, <4>1, <4>2
    <3>4. Generations(q, d) \subseteq 1 .. n
      BY DEF CountedBy
    <3>5. Cardinality(Generations(q, d)) \in Nat
      BY <3>4, FiniteGenerations
    <3> QED BY <2>a, <2>2, <2>3, <2>5, <3>3, <3>4, <3>5 DEF CountedBy
  <2> QED BY <2>4, <2>5
<1> QED BY <1>1, <1>2

\* The replay script adds one entry per generation.
LEMMA ReplayCounted ==
  ASSUME NEW Ids, NEW q \in Queue(Ids), NEW v \in Ids, NEW d \in Ids, NEW n \in Nat,
         NEW g \in Nat, CountedBy(q, d, n), v = d => g \in 1 .. n
  PROVE  CountedBy(ReplayFromDLQ(q, v, g), d, n)
<1>1. CASE <<v, g>> \in q.replayIndex
  BY <1>1 DEF ReplayFromDLQ
<1>2. CASE <<v, g>> \notin q.replayIndex
  <2>1. PICK r \in Queue(Ids) : r = ReplayFromDLQ(q, v, g)
    BY ReplayFromDLQType
  <2>2. /\ r.index[d] # 0 <=> q.index[d] # 0 \/ d = v
        /\ r.replayIndex = q.replayIndex \cup {<<v, g>>}
    BY <1>2, <2>1, ReplayFields
  <2>3. CASE v # d
    <3>1. EntriesOf(r, d) = EntriesOf(q, d)
      BY <1>2, <2>1, <2>3, ReplayEffect
    <3>2. Generations(r, d) = Generations(q, d)
      BY <2>2, <2>3 DEF Generations
    <3> QED BY <2>1, <2>2, <3>1, <3>2, SameCounted
  <2>4. CASE v = d
    <3>1. EntriesOf(r, d) = EntriesOf(q, d) \cup {Len(q.stream) + 1}
      BY <1>2, <2>1, <2>4, ReplayEffect
    <3>2. Generations(r, d) = Generations(q, d) \cup {g} /\ g \notin Generations(q, d)
      BY <1>2, <2>2, <2>4 DEF Generations
    <3>3. Generations(q, d) \subseteq 1 .. n
      BY DEF CountedBy
    <3>4. /\ Cardinality(Generations(q, d)) \in Nat
          /\ Cardinality(Generations(r, d)) = Cardinality(Generations(q, d)) + 1
      BY <3>2, <3>3, FiniteGenerations
    <3>5. /\ Cardinality(EntriesOf(q, d)) \in Nat
          /\ Cardinality(EntriesOf(r, d)) \in Nat
          /\ Cardinality(EntriesOf(r, d)) <= Cardinality(EntriesOf(q, d)) + 1
      BY <3>1, FiniteEntries
    <3>6. Cardinality(EntriesOf(r, d)) <= 1 + Cardinality(Generations(r, d))
      BY <3>4, <3>5 DEF CountedBy
    <3>7. Generations(r, d) \subseteq 1 .. n
      BY <2>4, <3>2, <3>3
    <3> QED BY <2>1, <2>2, <2>4, <3>6, <3>7 DEF CountedBy
  <2> QED BY <2>3, <2>4
<1> QED BY <1>1, <1>2

\* Later generations do not change what was counted.
LEMMA CountedLater ==
  ASSUME NEW q, NEW d, NEW n \in Nat, NEW m \in Nat, n <= m, CountedBy(q, d, n)
  PROVE  CountedBy(q, d, m)
BY DEF CountedBy

\* One entry, and one more per generation at most.
LEMMA CountedBound ==
  ASSUME NEW Ids, NEW q \in Queue(Ids), NEW d \in Ids, NEW n \in Nat, CountedBy(q, d, n)
  PROVE  Cardinality({ e \in Entries(q) : q.stream[e] = d }) <= 1 + n
<1>1. Generations(q, d) \subseteq 1 .. n
  BY DEF CountedBy
<1>2. IsFiniteSet(1 .. n) /\ Cardinality(1 .. n) = n
  BY FS_Interval
<1>3. Cardinality(Generations(q, d)) <= n /\ Cardinality(Generations(q, d)) \in Nat
  BY <1>1, <1>2, FS_Subset, FS_CardinalityType
<1>4. Cardinality(EntriesOf(q, d)) \in Nat
  BY FiniteEntries
<1> QED BY <1>3, <1>4 DEF CountedBy, EntriesOf
==============================================================================
