----------------------------- MODULE UpdateQueue -----------------------------
(***************************************************************************)
(* UpdateQueue: the updates of one bot that wait in memory for a backend   *)
(* that fetches them itself, bounded, with the highest offset a consumer   *)
(* confirmed.  Every operation holds the queue's lock, so each is one      *)
(* operator.  Those who wait for a wakeup are kept with the consumers.     *)
(***************************************************************************)
EXTENDS Integers, FiniteSets, SequencesExt

CONSTANT QueueSize  \* maxSize

ASSUME QueueSizeAssumption == QueueSize \in Nat \ {0}

Queue(ids) == [updates : Seq(ids), confirmed : Nat]

NewUpdateQueue == [updates |-> <<>>, confirmed |-> 0]

\* Mutant: the newest update is dropped when the queue is full.
EnqueueDropsNewest(q, id) ==
  IF id < q.confirmed \/ id \in Range(q.updates) \/ Len(q.updates) = QueueSize THEN q
  ELSE [q EXCEPT !.updates = Append(@, id)]

\* Mutant: the oldest update goes when the queue already holds one too many.
EnqueueOneTooMany(q, id) ==
  IF id < q.confirmed \/ id \in Range(q.updates) THEN q
  ELSE [q EXCEPT !.updates = LET all == Append(@, id) IN
          SubSeq(all, Len(all) - Min({Len(all), QueueSize + 1}) + 1, Len(all))]

\* Confirmed updates and duplicates are dropped; a full queue loses its oldest.
Enqueue(q, id) ==
  IF id < q.confirmed \/ id \in Range(q.updates) THEN q
  ELSE [q EXCEPT !.updates = LET all == Append(@, id) IN
          SubSeq(all, Len(all) - Min({Len(all), QueueSize}) + 1, Len(all))]

\* Whether Enqueue takes the update, and so wakes who waits.
Takes(q, id) == ~(id < q.confirmed \/ id \in Range(q.updates))

\* The length of the longest prefix below the offset.
Prefix(q, offset) ==
  Max({n \in 0 .. Len(q.updates) : \A i \in 1 .. n : q.updates[i] < offset})

\* Get remembers the offset and purges the prefix below it ...
Purged(q, offset) ==
  [updates |-> SubSeq(q.updates, Prefix(q, offset) + 1, Len(q.updates)),
   confirmed |-> Max({offset, q.confirmed})]

\* ... and returns the first updates from the offset on, up to the limit.
Fetched(q, offset, limit) ==
  LET from == {i \in DOMAIN q.updates : q.updates[i] >= offset}
  IN {q.updates[i] : i \in {j \in from : Cardinality({k \in from : k <= j}) <= limit}}
=============================================================================
