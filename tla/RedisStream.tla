----------------------------- MODULE RedisStream -----------------------------
(***************************************************************************)
(* The Redis side of the gateway queues: one stream with one consumer      *)
(* group, and the hashes its Lua scripts keep (delivery id -> entry,       *)
(* delivery id -> DLQ entry, delivery id and generation -> replayed        *)
(* entry).  Each operator is one script or one command, which Redis runs   *)
(* atomically, as a function from a queue to the queue after it.           *)
(*                                                                         *)
(* An entry id is its position in the stream (XADD ids only grow and the   *)
(* code never trims).  The consumer that owns a pending entry, and the     *)
(* time it has been idle, are left out: every claim in the code takes any  *)
(* entry that is idle for long enough.  The entries of the DLQ stream are  *)
(* left out too, nothing reads them back.                                  *)
(***************************************************************************)
EXTENDS Naturals, Sequences

\* The queues over a set of delivery ids.  Only what was read is pending.
Queue(Ids) ==
  { q \in [stream : Seq(Ids),                 \* delivery id of each entry
            lastRead : Nat,                   \* the group's last-delivered id
            pel : SUBSET Nat,                 \* delivered and not acknowledged
            index : [Ids -> Nat],             \* 0: the id has no entry
            dlqIndex : SUBSET Ids,
            replayIndex : SUBSET (Ids \X Nat)] :
      q.lastRead <= Len(q.stream) /\ q.pel \subseteq 1 .. q.lastRead }

EmptyQueue(Ids) == [stream |-> <<>>, lastRead |-> 0, pel |-> {},
                    index |-> [d \in Ids |-> 0], dlqIndex |-> {},
                    replayIndex |-> {}]

Entries(q) == 1 .. Len(q.stream)

\* Entries a worker can still get: never read, or read and not acknowledged.
Live(q) == { e \in Entries(q) : e > q.lastRead \/ e \in q.pel }

Add(q, d) == [q EXCEPT !.stream = Append(@, d),
                       !.index = [@ EXCEPT ![d] = Len(q.stream) + 1]]

\* Mutant: the script without its index check.
AppendAlways(q, d) == Add(q, d)

\* appendOnceScript: a delivery id that has an entry gets no second one.
AppendOnce(q, d) == IF q.index[d] # 0 THEN q ELSE Add(q, d)

\* XREADGROUP ... STREAMS s > with COUNT n.
Unread(q, n) == { e \in Entries(q) : q.lastRead < e /\ e <= q.lastRead + n }

\* Mutant: the group's position runs past the end of the stream.
ReadGroupOvershoots(q, n) == [q EXCEPT !.pel = @ \cup Unread(q, n), !.lastRead = @ + n]

\* Mutant: NOACK, what was read is not pending.
ReadGroupNoAck(q, n) ==
  [q EXCEPT !.lastRead = IF @ + n <= Len(q.stream) THEN @ + n ELSE Len(q.stream)]

ReadGroup(q, n) == [q EXCEPT !.pel = @ \cup Unread(q, n),
                             !.lastRead = IF @ + n <= Len(q.stream)
                                          THEN @ + n ELSE Len(q.stream)]

\* XACK.
Acknowledge(q, e) == [q EXCEPT !.pel = @ \ {e}]

\* moveOutboundToDLQ / the inbound script: the DLQ entry is added at most
\* once per delivery, the source entry is acknowledged either way.
MoveToDLQ(q, e, d) == [q EXCEPT !.dlqIndex = @ \cup {d}, !.pel = @ \ {e}]

\* replayOutboundDLQ / the inbound script: one new entry per generation.
ReplayFromDLQ(q, d, gen) ==
  IF <<d, gen>> \in q.replayIndex
  THEN q
  ELSE [Add(q, d) EXCEPT !.dlqIndex = @ \ {d},
                         !.replayIndex = @ \cup {<<d, gen>>}]
==============================================================================
