------------------------ MODULE InboundPromiseTheorems ------------------------
(***************************************************************************)
(* What Telegram may forget is kept (AcknowledgedIsKept), for a bot that   *)
(* is polled and one operator, and any number of updates, replays and      *)
(* faults.  Webhook requests are excluded because WebhookHandler answers   *)
(* 200 whatever became of the update; two operators because the completion *)
(* of a replay does not look at its generation.                            *)
(***************************************************************************)
EXTENDS InboundDeliveryTheorems

OneOperator == \A o, p \in Operators : o = p

(* The invariant *)

\* Nothing more has to happen for Telegram to forget d, and so u.
Handled(d) == status[d] \in Rejected \/ redis.index[d] # 0
Taken(u) == \E v \in Rows(u) : Handled(v)

\* d is to be processed (again): it was put on the stream and is not settled.
Due(d) ==
  \/ status[d] \in {"PENDING", "RETRYING"} /\ redis.index[d] # 0
  \/ status[d] = "REPLAY_PENDING" /\ <<d, replays[d]>> \in redis.replayIndex

\* d has an entry that stays live: one that is being moved to the DLQ does not.
Waits(d) ==
  \E e \in Live(redis) : redis.stream[e] = d /\ ~(pc = "move" /\ e = entry)

Kept == \A d \in Updates : Due(d) => Waits(d)

\* Only what was rejected or not yet put on the stream has no entry.
Indexed ==
  \A d \in Updates :
    /\ status[d] \notin Rejected \cup {"none", "PENDING"} => redis.index[d] # 0
    /\ streamed[d] => redis.index[d] # 0
    /\ redis.index[d] # 0 => status[d] # "none"

\* The operator replays the newest generation, and completes what was replayed.
Newest ==
  \A o \in Operators : action[o] # Idle =>
    /\ action[o].gen = replays[action[o].d]
    /\ action[o].pc = "complete" => <<action[o].d, action[o].gen>> \in redis.replayIndex

\* What is under way is past only what is taken, and knows the row of its update.
Past(i) ==
  i # NotIngesting =>
    /\ \A u \in Updates : u < i.u => Taken(u)
    /\ i.pc # "prepare" => i.row \in Rows(i.u)
    /\ i.pc = "record" => redis.index[i.row] # 0
    /\ i.pc = "confirm" => Handled(i.row)

Taking ==
  /\ \A u \in acknowledged : Taken(u)
  /\ \A u \in Updates : u < offset => Taken(u)
  /\ \A a \in Ingesters : Past(ingest[a])

PromiseInv == Kept /\ Indexed /\ Newest /\ Taking

------------------------------------------------------------------------------
(* The queue *)

\* An entry stays live until the worker is done with it.
LEMMA LiveKept ==
  ASSUME Typed, [Next]_vars, NEW e \in Live(redis), (Ack \/ Move) => e # entry
  PROVE  e \in Live(redis') /\ redis'.stream[e] = redis.stream[e]
<1>0. redis \in Queue(Updates) /\ redis' \in Queue(Updates) /\ Grows(redis, redis')
  BY QueueKeeps DEF Typed, WorkerTyped
<1>1. e \in Entries(redis) /\ e \in Entries(redis') /\ redis'.stream[e] = redis.stream[e]
  BY <1>0 DEF Live, Grows
<1>2. e \in redis.pel => e \in redis'.pel
  BY QueueKeeps
<1>3. CASE ReadNew
  <2>1. BatchSize \in Nat /\ redis' = ReadGroup(redis, BatchSize)
    BY <1>3, ConstantsAssumption DEF ReadNew
  <2> QED BY <1>0, <1>1, <2>1, ReadGroupEffect
<1>4. CASE ~ ReadNew
  <2>1. redis'.lastRead = redis.lastRead
    <3>1. ASSUME NEW v, redis' = Add(redis, v) PROVE redis'.lastRead = redis.lastRead
      BY <1>0, <3>1 DEF Add, Queue
    <3>2. ASSUME NEW a \in Ingesters, AppendUpdate(a) PROVE redis'.lastRead = redis.lastRead
      BY <3>1, <3>2 DEF AppendUpdate, AppendOnce
    <3>3. CASE Ack
      BY <1>0, <3>3 DEF Ack, Acknowledge, Queue
    <3>4. CASE Move
      BY <1>0, <3>4 DEF Move, MoveToDLQ, Queue
    <3>5. ASSUME NEW o \in Operators, Replay(o) PROVE redis'.lastRead = redis.lastRead
      <4>1. PICK v \in Updates, g \in Nat : redis' = ReplayFromDLQ(redis, v, g)
        BY <3>5 DEF Replay, Typed, OperatorsTyped, OperatorState, Idle, Job
      <4>2. PICK q \in Queue(Updates) : q = Add(redis, v)
        BY <1>0, AddType
      <4>3. q.lastRead = redis.lastRead
        BY <1>0, <4>2 DEF Add, Queue
      <4>4. [q EXCEPT !.dlqIndex = @ \ {v}, !.replayIndex = @ \cup {<<v, g>>}].lastRead = q.lastRead
        BY DEF Queue
      <4> QED BY <4>1, <4>2, <4>3, <4>4 DEF ReplayFromDLQ
    <3> QED BY <1>4, <3>2, <3>3, <3>4, <3>5, QueueSteps
  <2> QED BY <1>1, <1>2, <2>1 DEF Live
<1> QED BY <1>3, <1>4

\* What had an entry is known to have had one for ever; what gets one waits for the worker.
LEMMA IndexSteps ==
  ASSUME Typed, Stored, [Next]_vars, NEW d \in Updates
  PROVE  /\ redis.index[d] # 0 => redis'.index[d] # 0
         /\ redis'.index[d] # 0 => redis.index[d] # 0 \/ (status[d] # "none" /\ Waits(d)')
         /\ \A g \in Nat :
              /\ <<d, g>> \in redis.replayIndex => <<d, g>> \in redis'.replayIndex
              /\ <<d, g>> \in redis'.replayIndex
                   => <<d, g>> \in redis.replayIndex \/ Waits(d)'
<1>0. redis \in Queue(Updates) /\ (pc # "idle" => entry \in Entries(redis))
  BY CurrentType DEF Typed, WorkerTyped
<1>1. ASSUME redis'.index = redis.index, redis'.replayIndex = redis.replayIndex
      PROVE  /\ redis.index[d] # 0 => redis'.index[d] # 0
             /\ redis'.index[d] # 0 => redis.index[d] # 0 \/ (status[d] # "none" /\ Waits(d)')
             /\ \A g \in Nat : <<d, g>> \in redis.replayIndex <=> <<d, g>> \in redis'.replayIndex
  BY <1>1
<1>2. ASSUME entry' = entry, pc' = pc, \E e \in Live(redis') : redis'.stream[e] = d /\ e \notin Entries(redis)
      PROVE  Waits(d)'
  BY <1>0, <1>2 DEF Waits
<1>3. CASE UNCHANGED redis
  BY <1>1, <1>3
<1>4. ASSUME NEW a \in Ingesters, AppendUpdate(a)
      PROVE  /\ redis.index[d] # 0 => redis'.index[d] # 0
             /\ redis'.index[d] # 0 => redis.index[d] # 0 \/ (status[d] # "none" /\ Waits(d)')
             /\ redis'.replayIndex = redis.replayIndex
  <2>1. PICK v \in Updates : redis' = AppendOnce(redis, v) /\ status[v] # "none"
    BY <1>4, IngestFields DEF AppendUpdate, Typed, NotIngesting, Stored
  <2>2. /\ redis'.index[d] # 0 <=> redis.index[d] # 0 \/ d = v
        /\ redis'.replayIndex = redis.replayIndex
    BY <1>0, <2>1, AppendFields
  <2>3. redis.index[d] = 0 /\ d = v => Waits(d)'
    <3>1. SUFFICES ASSUME redis.index[d] = 0, d = v PROVE Waits(d)'
      OBVIOUS
    <3>2. redis' = Add(redis, d)
      BY <2>1, <3>1 DEF AppendOnce
    <3> QED BY <1>0, <1>2, <1>4, <3>2, NewEntry DEF AppendUpdate, workerVars
  <2> QED BY <2>1, <2>2, <2>3
<1>5. CASE ReadNew
  <2>1. BatchSize \in Nat /\ redis' = ReadGroup(redis, BatchSize)
    BY <1>5, ConstantsAssumption DEF ReadNew
  <2> QED BY <1>0, <1>1, <2>1, ReadGroupEffect
<1>6. CASE Ack
  BY <1>0, <1>1, <1>6, AcknowledgeEffect DEF Ack
<1>7. CASE Move
  <2>1. Current \in Updates
    BY <1>7, CurrentType DEF Move
  <2> QED BY <1>0, <1>1, <1>7, <2>1, MoveToDLQEffect DEF Move
<1>8. ASSUME NEW o \in Operators, Replay(o)
      PROVE  /\ redis.index[d] # 0 => redis'.index[d] # 0
             /\ redis'.index[d] # 0 => redis.index[d] # 0 \/ (status[d] # "none" /\ Waits(d)')
             /\ \A g \in Nat :
                  /\ <<d, g>> \in redis.replayIndex => <<d, g>> \in redis'.replayIndex
                  /\ <<d, g>> \in redis'.replayIndex
                       => <<d, g>> \in redis.replayIndex \/ Waits(d)'
  <2>1. PICK v \in Updates, g \in Nat : redis' = ReplayFromDLQ(redis, v, g) /\ status[v] # "none"
    BY <1>8 DEF Replay, Typed, OperatorsTyped, OperatorState, Idle, Job, Stored
  <2>2. CASE <<v, g>> \in redis.replayIndex
    BY <1>1, <2>1, <2>2 DEF ReplayFromDLQ
  <2>3. CASE <<v, g>> \notin redis.replayIndex
    <3>1. /\ redis'.index[d] # 0 <=> redis.index[d] # 0 \/ d = v
          /\ redis'.replayIndex = redis.replayIndex \cup {<<v, g>>}
      BY <1>0, <2>1, <2>3, ReplayFields
    <3>2. d = v => Waits(d)'
      BY <1>0, <1>2, <1>8, <2>1, <2>3, NewEntry DEF Replay, workerVars
    <3> QED BY <2>1, <3>1, <3>2
  <2> QED BY <2>2, <2>3
<1> QED BY <1>1, <1>3, <1>4, <1>5, <1>6, <1>7, <1>8, QueueSteps

\* The worker at work holds an entry of a delivery that had one.
LEMMA CurrentIndexed ==
  ASSUME Typed, Counted, pc # "idle"
  PROVE  Current \in Updates /\ redis.index[Current] # 0
<1>1. Current \in Updates /\ entry \in EntriesOf(redis, Current)
  BY CurrentType DEF EntriesOf, Current
<1> QED BY <1>1 DEF Counted, CountedBy

------------------------------------------------------------------------------
(* Rows *)

\* What has no entry is new, rejected, or waits to be put on the stream.
LEMMA IndexedKept ==
  ASSUME Typed, Stored, Counted, DeadLettersAgree, Indexed, Taking, [Next]_vars
  PROVE  Indexed'
<1>0. status \in [Updates -> Status] /\ streamed \in [Updates -> BOOLEAN]
  BY DEF Typed, RowsTyped
<1> SUFFICES ASSUME NEW d \in Updates
             PROVE  /\ status'[d] \notin Rejected \cup {"none", "PENDING"} => redis'.index[d] # 0
                    /\ streamed'[d] => redis'.index[d] # 0
                    /\ redis'.index[d] # 0 => status'[d] # "none"
  BY DEF Indexed
<1>1. /\ redis.index[d] # 0 => redis'.index[d] # 0
      /\ redis'.index[d] # 0 => redis.index[d] # 0 \/ status[d] # "none"
  BY IndexSteps
<1>2. redis'.index[d] # 0 => status'[d] # "none"
  BY <1>1, RowsStay DEF Indexed
<1>3. status'[d] \notin Rejected \cup {"none", "PENDING"} => redis'.index[d] # 0
  <2>1. CASE status'[d] = status[d]
    BY <1>1, <2>1 DEF Indexed
  <2>2. ASSUME NEW a \in Ingesters, Prepare(a)
        PROVE  status'[d] = status[d] \/ status'[d] \in Rejected \cup {"PENDING"}
    <3>1. \A r : StatusFor(r) \in Rejected \cup {"PENDING"}
      BY DEF StatusFor, Rejected
    <3> QED BY <1>0, <2>2, <3>1 DEF Prepare
  <2>3. CASE Begin \/ Complete \/ FailAttempt \/ DeadLetter
    <3>1. Current \in Updates /\ redis.index[Current] # 0
      BY <2>3, CurrentIndexed DEF Begin, Complete, FailAttempt, DeadLetter
    <3>2. PICK s : status' = [status EXCEPT ![Current] = s]
      BY <2>3 DEF Begin, Complete, FailAttempt, DeadLetter
    <3> QED BY <1>0, <1>1, <2>1, <3>1, <3>2
  <2>4. ASSUME NEW o \in Operators, PrepareReplay(o)
        PROVE  status'[d] = status[d] \/ status[d] = "DLQ"
    BY <1>0, <2>4 DEF PrepareReplay, DeadLettersAgree
  <2>5. ASSUME NEW o \in Operators, CompleteReplay(o)
        PROVE  status'[d] = status[d] \/ status'[d] = "PENDING"
    BY <1>0, <2>5 DEF CompleteReplay
  <2>6. ASSUME NEW x \in Updates, Discard(x)
        PROVE  status'[d] = status[d] \/ status[d] = "DLQ"
    BY <1>0, <2>6 DEF Discard, DeadLettersAgree
  <2>7. status[d] = "DLQ" => redis.index[d] # 0
    BY DEF Indexed, Rejected
  <2> QED BY <1>1, <2>1, <2>2, <2>3, <2>4, <2>5, <2>6, <2>7, StatusSteps
<1>4. streamed'[d] => redis'.index[d] # 0
  <2>1. CASE streamed' = streamed
    BY <1>1, <2>1 DEF Indexed
  <2>2. ASSUME NEW a \in Ingesters, Record(a) PROVE streamed'[d] => redis'.index[d] # 0
    <3>1. ingest[a].row \in Updates /\ redis.index[ingest[a].row] # 0
      BY <2>2, IngestFields DEF Record, Typed, NotIngesting, Taking, Past
    <3>2. streamed' = [streamed EXCEPT ![ingest[a].row] = TRUE]
      BY <2>2 DEF Record
    <3>3. CASE d = ingest[a].row
      BY <1>1, <3>1, <3>3
    <3>4. CASE d # ingest[a].row
      BY <1>0, <1>1, <3>2, <3>4 DEF Indexed
    <3> QED BY <3>3, <3>4
  <2>3. ASSUME NEW o \in Operators, CompleteReplay(o) PROVE streamed'[d] => redis'.index[d] # 0
    <3> DEFINE x == action[o].d
    <3>1. streamed' = [streamed EXCEPT ![x] = streamed[x] \/ status[x] = "REPLAY_PENDING"]
      BY <2>3 DEF CompleteReplay
    <3>2. CASE d = x
      <4>1. streamed'[d] => streamed[d] \/ status[d] = "REPLAY_PENDING"
        BY <1>0, <3>1, <3>2
      <4> QED BY <1>1, <4>1 DEF Indexed, Rejected
    <3>3. CASE d # x
      BY <1>0, <1>1, <3>1, <3>3 DEF Indexed
    <3> QED BY <3>2, <3>3
  <2>4. CASE UNCHANGED vars
    BY <2>1, <2>4 DEF vars, rowVars
  <2> USE DEF rowVars
  <2>5. ASSUME NEW p \in Pollers, Fetch(p) PROVE UNCHANGED streamed
    BY <2>5 DEF Fetch
  <2>6. ASSUME NEW h \in Hooks, Receive(h) PROVE UNCHANGED streamed
    BY <2>6 DEF Receive
  <2>7. ASSUME NEW a \in Ingesters, IngestStep(a) \/ Fail(a) \/ StopIngest(a)
        PROVE  UNCHANGED streamed \/ Record(a)
    BY <2>7 DEF IngestStep, Prepare, AppendUpdate, Confirm, Fail, StopIngest
  <2>8. ASSUME ReadNew \/ (\E c \in SUBSET redis.pel : ClaimStale(c)) \/ Interrupt
        PROVE  UNCHANGED streamed
    BY <2>8 DEF ReadNew, ClaimStale, Interrupt
  <2>9. ASSUME WorkerStep PROVE UNCHANGED streamed
    BY <2>9 DEF WorkerStep, Load, RunAdapter, Begin, Deliver, Complete, FailAttempt,
                DeadLetter, Ack, Move
  <2>10. ASSUME NEW o \in Operators,
                PrepareReplay(o) \/ Replay(o) \/ CompleteReplay(o) \/ AbandonReplay(o)
         PROVE  UNCHANGED streamed \/ CompleteReplay(o)
    BY <2>10 DEF PrepareReplay, Replay, AbandonReplay
  <2>11. ASSUME NEW x \in Updates, Discard(x) \/ RetryDue(x) PROVE UNCHANGED streamed
    BY <2>11 DEF Discard, RetryDue
  <2> QED BY <2>1, <2>2, <2>3, <2>4, <2>5, <2>6, <2>7, <2>8, <2>9, <2>10, <2>11 DEF Next
<1> QED BY <1>2, <1>3, <1>4

\* One operator has the newest generation of what it replays.
LEMMA NewestKept ==
  ASSUME OneOperator, Typed, Stored, Newest, [Next]_vars
  PROVE  Newest'
<1>0. /\ replays \in [Updates -> Nat] /\ action \in [Operators -> OperatorState]
      /\ redis \in Queue(Updates)
  BY DEF Typed, RowsTyped, OperatorsTyped, WorkerTyped
<1> DEFINE Fresh(o) ==
             action'[o] # Idle =>
               /\ action'[o].gen = replays'[action'[o].d]
               /\ action'[o].pc = "complete"
                    => <<action'[o].d, action'[o].gen>> \in redis'.replayIndex
<1> SUFFICES ASSUME NEW o \in Operators PROVE Fresh(o)
  BY DEF Newest
<1>1. ASSUME action' = action, replays' = replays PROVE Fresh(o)
  <2>1. action[o] # Idle => action[o].d \in Updates /\ action[o].gen \in Nat
    BY <1>0 DEF OperatorState
  <2>2. action[o] # Idle /\ action[o].pc = "complete"
          => <<action[o].d, action[o].gen>> \in redis'.replayIndex
    BY <2>1, IndexSteps DEF Newest
  <2> QED BY <1>1, <2>1, <2>2 DEF Newest
<1>2. ASSUME PrepareReplay(o) PROVE Fresh(o)
  <2>1. PICK d \in Updates : action' = [action EXCEPT ![o] = Job("replay", d, replays'[d])]
    BY <1>0, <1>2 DEF PrepareReplay, dlqVars
  <2>2. /\ Job("replay", d, replays'[d]).pc = "replay" /\ Job("replay", d, replays'[d]).d = d
        /\ Job("replay", d, replays'[d]).gen = replays'[d]
    BY DEF Job
  <2> QED BY <1>0, <2>1, <2>2
<1>3. ASSUME Replay(o) PROVE Fresh(o)
  <2>1. action[o] \in [pc : {"replay", "complete"}, d : Updates, gen : Nat] /\ action[o] # Idle
    BY <1>0, <1>3 DEF Replay, OperatorState, Idle, Job
  <2>2. /\ action'[o] = [action[o] EXCEPT !.pc = "complete"] /\ replays' = replays
        /\ redis' = ReplayFromDLQ(redis, action[o].d, action[o].gen)
    BY <1>0, <1>3 DEF Replay, dlqVars
  <2>3. action'[o].d = action[o].d /\ action'[o].gen = action[o].gen
    BY <2>1, <2>2
  <2>4. <<action[o].d, action[o].gen>> \in redis'.replayIndex
    <3>1. CASE <<action[o].d, action[o].gen>> \in redis.replayIndex
      BY <2>2, <3>1 DEF ReplayFromDLQ
    <3>2. CASE <<action[o].d, action[o].gen>> \notin redis.replayIndex
      <4>1. redis'.replayIndex = redis.replayIndex \cup {<<action[o].d, action[o].gen>>}
        BY <1>0, <2>1, <2>2, <3>2, ReplayFields
      <4> QED BY <4>1
    <3> QED BY <3>1, <3>2
  <2> QED BY <2>1, <2>2, <2>3, <2>4 DEF Newest
<1>4. ASSUME CompleteReplay(o) \/ AbandonReplay(o) PROVE Fresh(o)
  BY <1>0, <1>4 DEF CompleteReplay, AbandonReplay
<1>5. ASSUME action' = action PROVE replays' = replays
  <2>1. ASSUME NEW a \in Ingesters, Prepare(a) PROVE replays' = replays
    BY <2>1 DEF Prepare, dlqVars
  <2>2. CASE Begin \/ Complete \/ FailAttempt \/ DeadLetter
    BY <2>2 DEF Begin, Complete, FailAttempt, DeadLetter, dlqVars
  <2>3. ASSUME NEW p \in Operators, PrepareReplay(p) PROVE replays' = replays
    <3>1. action[p] = Idle /\ \E d, g : action' = [action EXCEPT ![p] = Job("replay", d, g)]
      BY <2>3 DEF PrepareReplay
    <3>2. \A d, g : Job("replay", d, g) # Idle
      BY DEF Job, Idle
    <3> QED BY <1>0, <1>5, <3>1, <3>2
  <2>4. ASSUME NEW p \in Operators, CompleteReplay(p) PROVE replays' = replays
    BY <2>4 DEF CompleteReplay
  <2>5. ASSUME NEW d \in Updates, Discard(d) PROVE replays' = replays
    BY <2>5 DEF Discard
  <2> QED BY <2>1, <2>2, <2>3, <2>4, <2>5, StatusSteps
<1> QED BY <1>1, <1>2, <1>3, <1>4, <1>5, OperatorSteps DEF OneOperator

------------------------------------------------------------------------------
(* What is due waits *)

\* A delivery waits on, unless it is the one the worker acknowledges or dead-letters.
LEMMA WaitsOn ==
  ASSUME Typed, [Next]_vars, NEW d \in Updates, Waits(d),
         Ack \/ DeadLetter => d # Current, Load /\ pc' = "move" => d # redis.stream[entry']
  PROVE  Waits(d)'
<1>1. PICK e \in Live(redis) : redis.stream[e] = d /\ ~(pc = "move" /\ e = entry)
  BY DEF Waits
<1>2. (Ack \/ Move) => e # entry
  BY <1>1 DEF Ack, Move, Current
<1>3. e \in Live(redis') /\ redis'.stream[e] = d
  BY <1>1, <1>2, LiveKept
<1>4. ~(pc' = "move" /\ e = entry')
  <2>1. ASSUME pc' # "move" PROVE ~(pc' = "move" /\ e = entry')
    BY <2>1
  <2>2. CASE UNCHANGED workerVars
    BY <1>1, <2>2 DEF workerVars
  <2>3. CASE ReadNew \/ \E c \in SUBSET redis.pel : ClaimStale(c)
    BY <2>1, <2>3 DEF ReadNew, ClaimStale
  <2>4. CASE Interrupt \/ Ack \/ Move \/ Begin \/ Deliver \/ Complete \/ FailAttempt \/ RunAdapter
    <3>1. pc' # "move"
      BY <2>4 DEF Interrupt, Ack, Move, Begin, Deliver, Complete, FailAttempt, RunAdapter
    <3> QED BY <2>1, <3>1
  <2>5. CASE Load
    BY <1>1, <2>5
  <2>6. CASE DeadLetter
    <3>1. entry' = entry /\ redis.stream[e] # redis.stream[entry]
      BY <1>1, <2>6 DEF DeadLetter, Current
    <3> QED BY <3>1
  <2> QED BY <2>2, <2>3, <2>4, <2>5, <2>6, WorkerSteps DEF WorkerStep
<1> QED BY <1>3, <1>4 DEF Waits

\* Who has no entry waiting is settled, rejected, or not on the stream yet.
LEMMA KeptKept ==
  ASSUME OneOperator, InboundInv, Kept, Indexed, Newest, [Next]_vars
  PROVE  Kept'
<1>0. /\ Typed /\ Stored /\ Counted /\ DeadLettersAgree /\ WorkerKnows
      /\ status \in [Updates -> Status] /\ replays \in [Updates -> Nat]
      /\ action \in [Operators -> OperatorState]
  BY DEF InboundInv, Typed, RowsTyped, OperatorsTyped
<1> SUFFICES ASSUME NEW d \in Updates, Due(d)' PROVE Waits(d)'
  BY DEF Kept
<1>1. /\ redis'.index[d] # 0 => redis.index[d] # 0 \/ Waits(d)'
      /\ replays'[d] \in Nat
      /\ <<d, replays'[d]>> \in redis'.replayIndex
           => <<d, replays'[d]>> \in redis.replayIndex \/ Waits(d)'
  BY <1>0, IndexSteps, ReplayingKept DEF InboundInv
\* What was due waited, and waits on.
<1>2. ASSUME Due(d) PROVE Waits(d)'
  <2>1. Waits(d)
    BY <1>2 DEF Kept
  <2>2. Ack => d # Current
    BY <1>0, <1>2 DEF Ack, WorkerKnows, Due, Rejected
  <2>3. DeadLetter => d # Current
    BY <1>0, CurrentType DEF DeadLetter, Due
  <2>4. Load /\ pc' = "move" => d # redis.stream[entry']
    BY <1>2 DEF Load, AfterLoad, Due
  <2> QED BY <1>0, <2>1, <2>2, <2>3, <2>4, WaitsOn
\* What is due now without being due before was put on the stream or is at work.
<1>3. ASSUME status'[d] = status[d], replays'[d] = replays[d] PROVE Waits(d)'
  BY <1>1, <1>2, <1>3 DEF Due
<1>4. CASE UNCHANGED <<status, dlq, replays>>
  BY <1>3, <1>4
<1>5. ASSUME NEW a \in Ingesters, Prepare(a) PROVE Waits(d)'
  <2>1. status'[d] # status[d] => status[d] = "none"
    <3>1. ingest[a].u \in Updates
      BY <1>0, <1>5, IngestFields DEF Typed, Prepare, NotIngesting
    <3>2. Rows(ingest[a].u) = {} => status[ingest[a].u] = "none"
      BY <3>1 DEF Rows
    <3> QED BY <1>0, <1>5, <3>1, <3>2 DEF Prepare
  <2>2. redis' = redis /\ replays' = replays
    BY <1>5 DEF Prepare, dlqVars
  <2>3. status[d] = "none" => redis.index[d] = 0
    BY DEF Indexed
  <2>4. CASE status'[d] = status[d]
    BY <1>3, <2>2, <2>4
  <2>5. CASE status'[d] # status[d]
    <3>1. status'[d] \in Rejected \cup {"PENDING"}
      <4>1. \A r : StatusFor(r) \in Rejected \cup {"PENDING"}
        BY DEF StatusFor, Rejected
      <4> QED BY <1>0, <1>5, <2>5, <4>1 DEF Prepare
    <3> QED BY <2>1, <2>2, <2>3, <2>5, <3>1 DEF Due, Rejected
  <2> QED BY <2>4, <2>5
<1>6. CASE Begin \/ FailAttempt
  <2>1. /\ Current \in Updates /\ entry \in Live(redis)
        /\ pc' # "move" /\ redis' = redis /\ entry' = entry /\ replays' = replays
    BY <1>0, <1>6, CurrentType DEF Begin, FailAttempt, dlqVars
  <2>2. CASE d = Current
    BY <2>1, <2>2 DEF Waits, Current
  <2>3. CASE d # Current
    <3>1. status'[d] = status[d]
      BY <1>0, <1>6, <2>3 DEF Begin, FailAttempt
    <3> QED BY <1>3, <2>1, <3>1
  <2> QED BY <2>2, <2>3
<1>7. CASE Complete \/ DeadLetter
  <2>1. Current \in Updates /\ replays' = replays
    BY <1>0, <1>7, CurrentType DEF Complete, DeadLetter, dlqVars
  <2>2. d = Current => status'[d] \in {"SUCCEEDED", "DLQ"}
    BY <1>0, <1>7, <2>1 DEF Complete, DeadLetter
  <2>3. d # Current => status'[d] = status[d]
    BY <1>0, <1>7 DEF Complete, DeadLetter
  <2>4. d # Current
    BY <2>2 DEF Due
  <2> QED BY <1>3, <2>1, <2>3, <2>4
<1>8. ASSUME NEW o \in Operators, PrepareReplay(o) PROVE Waits(d)'
  <2>1. CASE UNCHANGED <<dlqVars, status, waiting>>
    BY <1>3, <2>1 DEF dlqVars
  <2>2. ASSUME NEW x \in Updates, replays' = [replays EXCEPT ![x] = replays[x] + 1],
               status' = [status EXCEPT ![x] = "REPLAY_PENDING"]
        PROVE  Waits(d)'
    <3>1. CASE d # x
      BY <1>0, <1>3, <2>2, <3>1
    <3>2. CASE d = x
      <4>1. status'[d] = "REPLAY_PENDING" /\ replays'[d] = replays[d] + 1 /\ replays[d] \in Nat
        BY <1>0, <2>2, <3>2
      <4>2. <<d, replays[d] + 1>> \notin redis.replayIndex
        <5>1. Generations(redis, d) \subseteq 1 .. replays[d]
          BY <1>0 DEF Counted, CountedBy
        <5> QED BY <4>1, <5>1 DEF Generations
      <4>3. redis' = redis
        BY <1>8 DEF PrepareReplay
      <4> QED BY <4>1, <4>2, <4>3 DEF Due
    <3> QED BY <3>1, <3>2
  <2> QED BY <1>8, <2>1, <2>2 DEF PrepareReplay
<1>9. ASSUME NEW o \in Operators, CompleteReplay(o) PROVE Waits(d)'
  <2> DEFINE x == action[o].d
  <2>1. redis' = redis /\ replays' = replays /\ action[o] # Idle /\ action[o].pc = "complete"
    BY <1>9 DEF CompleteReplay, Idle, Job
  <2>2. /\ status' = [status EXCEPT ![x] = IF status[x] = "REPLAY_PENDING" THEN "PENDING"
                                           ELSE status[x]]
    BY <1>9 DEF CompleteReplay
  <2>3. CASE status'[d] = status[d]
    BY <1>3, <2>1, <2>3
  <2>4. CASE status'[d] # status[d]
    <3>1. d = x /\ status[d] = "REPLAY_PENDING"
      BY <1>0, <2>2, <2>4
    <3>2. <<d, replays[d]>> \in redis.replayIndex
      BY <2>1, <3>1 DEF Newest
    <3> QED BY <1>2, <3>1, <3>2 DEF Due
  <2> QED BY <2>3, <2>4
<1>10. ASSUME NEW x \in Updates, Discard(x) PROVE Waits(d)'
  <2>1. replays' = replays /\ (status'[d] = status[d] \/ status'[d] = "DISCARDED")
    BY <1>0, <1>10 DEF Discard
  <2>2. status'[d] # "DISCARDED"
    BY DEF Due
  <2> QED BY <1>3, <2>1, <2>2
<1> QED BY <1>4, <1>5, <1>6, <1>7, <1>8, <1>9, <1>10, StatusSteps

------------------------------------------------------------------------------
(* What Telegram may forget *)

\* What is handled stays handled: nobody reopens a rejected row.
LEMMA HandledKept ==
  ASSUME InboundInv, [Next]_vars, NEW d \in Updates, Handled(d)
  PROVE  Handled(d)'
<1>0. /\ Typed /\ Stored /\ Counted /\ DeadLettersAgree
      /\ status \in [Updates -> Status]
  BY DEF InboundInv, Typed, RowsTyped
<1>1. CASE redis.index[d] # 0
  BY <1>0, <1>1, IndexSteps DEF Handled
<1>2. CASE redis.index[d] = 0
  <2>1. status[d] \in Rejected
    BY <1>2 DEF Handled
  <2>2. CASE Begin \/ Complete \/ FailAttempt \/ DeadLetter
    <3>1. Current # d
      BY <1>0, <1>2, <2>2, CurrentIndexed DEF Begin, Complete, FailAttempt, DeadLetter
    <3>2. PICK s : status' = [status EXCEPT ![Current] = s]
      BY <2>2 DEF Begin, Complete, FailAttempt, DeadLetter
    <3> QED BY <1>0, <2>1, <3>1, <3>2 DEF Handled
  <2>3. CASE ~ (Begin \/ Complete \/ FailAttempt \/ DeadLetter)
    BY <1>0, <2>1, <2>3, OthersKeepKnowledge DEF Handled
  <2> QED BY <2>2, <2>3
<1> QED BY <1>1, <1>2

\* Rows stay, so what is taken stays taken.
LEMMA TakenKept ==
  ASSUME InboundInv, [Next]_vars, NEW u \in Updates
  PROVE  Rows(u) \subseteq Rows(u)' /\ (Taken(u) => Taken(u)')
<1>1. Rows(u) \subseteq Rows(u)'
  BY RowsStay DEF InboundInv, Rows
<1>2. \A v \in Rows(u) : v \in Updates
  BY DEF Rows
<1> QED BY <1>1, <1>2, HandledKept DEF Taken

LEMMA PastKept ==
  ASSUME InboundInv, [Next]_vars, NEW i \in IngestState, Past(i)
  PROVE  Past(i)'
<1> SUFFICES ASSUME i # NotIngesting PROVE Past(i)'
  BY DEF Past
<1>1. i.u \in Updates
  BY DEF IngestState
<1>2. i.pc # "prepare" => i.row \in Updates /\ i.row \in Rows(i.u)'
  BY <1>1, TakenKept DEF Past, Rows
<1>3. i.pc = "record" => redis'.index[i.row] # 0
  BY <1>2, IndexSteps DEF Past, InboundInv
<1>4. i.pc = "confirm" => Handled(i.row)'
  BY <1>2, HandledKept DEF Past
<1> QED BY <1>2, <1>3, <1>4, TakenKept DEF Past

\* The offset passes an update after its row is rejected or on the stream, and
\* only the next getUpdates makes Telegram forget it.
LEMMA TakingKept ==
  ASSUME Hooks = {}, InboundInv, Indexed', Taking, [Next]_vars
  PROVE  Taking'
<1>0. /\ Typed /\ IngestTyped /\ acknowledged \subseteq Updates
      /\ offset \in Nat /\ offset' \in Nat
      /\ ingest \in [Ingesters -> IngestState]
      /\ status \in [Updates -> Status] /\ redis \in Queue(Updates)
  BY IngestKeepsTypes, ConstantsAssumption
  DEF InboundInv, Typed, IngestTyped, RowsTyped, WorkerTyped
<1>1. \A a \in Ingesters : Past(ingest[a]) /\ ingest[a] \in IngestState
  BY <1>0 DEF Taking
<1>2. \A u \in Updates : u < offset => Taken(u)'
  BY TakenKept DEF Taking
<1>3. \A u \in acknowledged : Taken(u)'
  BY <1>0, TakenKept DEF Taking
\* It is enough to look at what one ingester does.
<1>4. ASSUME NEW a \in Ingesters, NEW i, ingest' = [ingest EXCEPT ![a] = i], Past(i)',
             \A u \in acknowledged' : Taken(u)',
             \A u \in Updates : u < offset' => Taken(u)'
      PROVE  Taking'
  <2>1. ASSUME NEW b \in Ingesters PROVE Past(ingest[b])'
    <3>1. CASE b = a
      <4>1. ingest'[b] = i
        BY <1>0, <1>4, <3>1
      <4> QED BY <1>4, <4>1 DEF Past
    <3>2. CASE b # a
      <4>1. ingest'[b] = ingest[b]
        BY <1>0, <1>4, <3>2
      <4>2. PICK j \in IngestState : j = ingest[b]
        BY <1>1
      <4>3. Past(j)
        BY <1>1, <4>2
      <4>4. Past(j)'
        BY <4>3, PastKept
      <4> QED BY <4>1, <4>2, <4>4 DEF Past
    <3> QED BY <3>1, <3>2
  <2> QED BY <1>4, <2>1 DEF Taking
<1>5. Past(NotIngesting)'
  BY DEF Past
<1>6. ASSUME ingest' = ingest, offset' = offset,
             acknowledged' \subseteq acknowledged \cup { u \in Updates : u < offset }
      PROVE  Taking'
  <2>1. ASSUME NEW b \in Ingesters PROVE Past(ingest[b])'
    <3>1. PICK j \in IngestState : j = ingest[b] /\ Past(j)
      BY <1>1
    <3>2. Past(j)'
      BY <3>1, PastKept
    <3> QED BY <1>6, <3>1, <3>2 DEF Past
  <2> QED BY <1>2, <1>3, <1>6, <2>1 DEF Taking
<1>7. ASSUME NEW p \in Pollers, Fetch(p) PROVE Taking'
  <2>1. CASE UNCHANGED ingest
    BY <1>6, <1>7, <2>1 DEF Fetch
  <2>2. ASSUME NEW last \in offset .. NumUpdates,
               ingest' = [ingest EXCEPT ![p] = Ingesting("prepare", offset, last, 0)]
        PROVE  Taking'
    <3>1. PICK i : i = Ingesting("prepare", offset, last, 0)
      OBVIOUS
    <3>2. i.pc = "prepare" /\ i.u = offset
      BY <3>1 DEF Ingesting
    <3>3. Past(i)'
      BY <1>2, <3>2 DEF Past
    <3>4. /\ \A u \in acknowledged' : Taken(u)'
          /\ \A u \in Updates : u < offset' => Taken(u)'
      BY <1>2, <1>3, <1>7 DEF Fetch
    <3>5. p \in Ingesters
      BY DEF Ingesters
    <3> QED BY <1>4, <2>2, <3>1, <3>3, <3>4, <3>5
  <2> QED BY <1>7, <2>1, <2>2 DEF Fetch
<1>8. ASSUME NEW a \in Ingesters, Prepare(a) PROVE Taking'
  <2>1. ingest[a] # NotIngesting /\ ingest[a].u \in Updates
    <3>1. ingest[a] # NotIngesting
      BY <1>8 DEF Prepare, NotIngesting
    <3> QED BY <1>0, <3>1, IngestFields
  <2>2. PICK u \in Updates, row \in Updates :
          /\ u = ingest[a].u
          /\ row = IF Rows(u) = {} THEN u ELSE CHOOSE v \in Rows(u) : TRUE
    BY <2>1 DEF Rows
  <2> DEFINE next == IF NeedsEntry(row) THEN "append" ELSE "confirm"
  <2>3. row \in Rows(u)'
    <3>1. CASE Rows(u) = {}
      <4>1. PICK r \in Routes : status' = [status EXCEPT ![u] = StatusFor(r)]
        BY <1>8, <2>2, <3>1 DEF Prepare
      <4>2. StatusFor(r) # "none"
        BY DEF StatusFor
      <4>3. row = u /\ status'[u] # "none"
        BY <1>0, <2>2, <3>1, <4>1, <4>2
      <4> QED BY <4>3 DEF Rows
    <3>2. CASE Rows(u) # {}
      BY <2>2, <3>2, TakenKept
    <3> QED BY <3>1, <3>2
  <2>4. next = "confirm" => Handled(row)'
    <3>1. SUFFICES ASSUME ~ NeedsEntry(row) PROVE Handled(row)'
      OBVIOUS
    <3>2. status'[row] \in Rejected \cup {"SUCCEEDED", "DLQ"} \/ streamed'[row]
      BY <1>8, <3>1 DEF NeedsEntry, Prepare
    <3>3. CASE status'[row] \in Rejected
      BY <3>3 DEF Handled
    <3>4. CASE status'[row] \notin Rejected
      BY <2>2, <3>2, <3>4 DEF Handled, Indexed
    <3> QED BY <3>3, <3>4
  <2>5. PICK i : i = Ingesting(next, u, ingest[a].last, row)
    OBVIOUS
  <2>6. i.pc = next /\ i.u = u /\ i.row = row /\ next # "record"
    BY <2>5 DEF Ingesting
  <2>7. \A v \in Updates : v < u => Taken(v)'
    BY <1>1, <2>1, <2>2, TakenKept DEF Past
  <2>8. ingest' = [ingest EXCEPT ![a] = i]
    BY <1>8, <2>2, <2>5 DEF Prepare
  <2> HIDE DEF next
  <2>9. Past(i)'
    BY <2>3, <2>4, <2>6, <2>7 DEF Past
  <2> QED BY <1>2, <1>3, <1>4, <1>8, <2>8, <2>9 DEF Prepare
<1>9. ASSUME NEW a \in Ingesters, AppendUpdate(a) \/ Record(a) PROVE Taking'
  <2>1. /\ ingest[a] # NotIngesting /\ ingest[a].row \in Updates
        /\ ingest[a].u \in Updates /\ Past(ingest[a])
    <3>1. ingest[a] # NotIngesting /\ ingest[a].pc \in {"append", "record"}
      BY <1>9 DEF AppendUpdate, Record, NotIngesting
    <3> QED BY <1>0, <1>1, <3>1, IngestFields
  <2>2. PICK i :
          /\ ingest' = [ingest EXCEPT ![a] = i]
          /\ \E p \in {"record", "confirm"} : i = [ingest[a] EXCEPT !.pc = p]
    BY <1>9 DEF AppendUpdate, Record
  <2>3. i.pc \in {"record", "confirm"} /\ i.u = ingest[a].u /\ i.row = ingest[a].row
    BY <1>1, <2>1, <2>2 DEF IngestState
  <2>4. redis'.index[i.row] # 0
    <3>1. CASE AppendUpdate(a)
      BY <1>0, <2>1, <2>3, <3>1, AppendFields DEF AppendUpdate
    <3>2. CASE Record(a)
      BY <1>0, <2>1, <2>3, <3>2, IndexSteps DEF Record, Past, InboundInv
    <3> QED BY <1>9, <3>1, <3>2
  <2>5. i.row \in Rows(i.u)'
    <3>1. ingest[a].row \in Rows(ingest[a].u)
      BY <1>9, <2>1 DEF AppendUpdate, Record, Past
    <3> QED BY <2>1, <2>3, <3>1, TakenKept
  <2>6. \A v \in Updates : v < i.u => Taken(v)'
    BY <2>1, <2>3, TakenKept DEF Past
  <2>7. Past(i)'
    BY <2>4, <2>5, <2>6 DEF Past, Handled
  <2>8. offset' = offset /\ acknowledged' = acknowledged
    BY <1>9 DEF AppendUpdate, Record
  <2> QED BY <1>2, <1>3, <1>4, <2>2, <2>7, <2>8
<1>10. ASSUME NEW a \in Ingesters, Confirm(a) PROVE Taking'
  <2>1. PICK u \in Updates, last \in Updates : u = ingest[a].u /\ last = ingest[a].last
    <3>1. ingest[a] # NotIngesting
      BY <1>10 DEF Confirm, NotIngesting
    <3> QED BY <1>0, <3>1, IngestFields
  <2>2. Past(ingest[a]) /\ ingest[a] # NotIngesting
    BY <1>1, <1>10 DEF Confirm, NotIngesting
  <2>3. Taken(u)
    BY <1>10, <2>1, <2>2 DEF Confirm, Past, Taken
  <2>4. \A v \in Updates : v < u + 1 => Taken(v)'
    <3>1. ASSUME NEW v \in Updates, v < u + 1 PROVE Taken(v)'
      <4>1. v = u \/ v < u
        BY <3>1, ConstantsAssumption DEF Updates
      <4>2. Taken(v)
        BY <2>1, <2>2, <2>3, <4>1 DEF Past
      <4> QED BY <4>2, TakenKept
    <3> QED BY <3>1
  <2>5. PICK i :
          /\ ingest' = [ingest EXCEPT ![a] = i]
          /\ i = IF u < last THEN Ingesting("prepare", u + 1, last, 0) ELSE NotIngesting
    BY <1>10, <2>1 DEF Confirm
  <2>6. offset' \in {offset, u + 1}
    BY <1>10, <2>1 DEF Confirm
  <2>7. acknowledged' = acknowledged
    BY <1>10 DEF Confirm, Ingesters
  <2>8. Past(i)'
    <3>1. i = NotIngesting \/ (i.pc = "prepare" /\ i.u = u + 1)
      BY <2>5 DEF Ingesting
    <3> QED BY <2>4, <3>1 DEF Past
  <2> QED BY <1>2, <1>3, <1>4, <2>4, <2>5, <2>6, <2>7, <2>8
<1>11. ASSUME NEW a \in Ingesters, Fail(a) \/ StopIngest(a) PROVE Taking'
  BY <1>2, <1>3, <1>4, <1>5, <1>11 DEF Fail, StopIngest
<1>12. CASE UNCHANGED ingestVars
  BY <1>6, <1>12 DEF ingestVars
<1> QED
  BY <1>7, <1>8, <1>9, <1>10, <1>11, <1>12, IngestSteps DEF IngestStep

------------------------------------------------------------------------------
(* The theorem *)

LEMMA PromiseInit == Init => PromiseInv
<1> SUFFICES ASSUME Init PROVE PromiseInv
  OBVIOUS
<1>1. \A d \in Updates : redis.index[d] = 0
  BY DEF Init, EmptyQueue
<1>2. Kept /\ Indexed
  BY <1>1 DEF Init, Kept, Indexed, Due
<1>3. Newest
  BY DEF Init, Newest
<1>4. Taking
  BY ConstantsAssumption DEF Init, Taking, Past, Updates
<1> QED BY <1>2, <1>3, <1>4 DEF PromiseInv

LEMMA PromiseNext ==
  ASSUME Hooks = {}, OneOperator, InboundInv, PromiseInv, [Next]_vars
  PROVE  PromiseInv'
<1>1. /\ Kept /\ Indexed /\ Newest /\ Taking
      /\ Typed /\ Stored /\ Counted /\ DeadLettersAgree
  BY DEF InboundInv, PromiseInv
<1>2. Kept' /\ Newest'
  BY <1>1, KeptKept, NewestKept
<1>3. Indexed'
  BY <1>1, IndexedKept
<1>4. Taking'
  BY <1>1, <1>3, TakingKept
<1> QED BY <1>2, <1>3, <1>4 DEF PromiseInv

\* What is handled and not settled is due, and so waits.
LEMMA InvAcknowledged == InboundInv /\ PromiseInv => AcknowledgedIsKept
<1> SUFFICES ASSUME InboundInv, PromiseInv, NEW u \in acknowledged
             PROVE  \E v \in Rows(u) :
                      \/ status[v] \in Final
                      \/ \E e \in Live(redis) : redis.stream[e] = v
  BY DEF AcknowledgedIsKept
<1>1. PICK v \in Rows(u) : Handled(v)
  BY DEF PromiseInv, Taking, Taken
<1>2. v \in Updates /\ status[v] # "none" /\ status[v] \in Status
  BY DEF Rows, InboundInv, Typed, RowsTyped
<1>3. CASE status[v] \in {"PENDING", "RETRYING"}
  <2>1. Due(v)
    BY <1>1, <1>3 DEF Handled, Due, Rejected
  <2>2. Waits(v)
    BY <1>2, <2>1 DEF PromiseInv, Kept
  <2> QED BY <2>2 DEF Waits
<1>4. CASE status[v] \notin {"PENDING", "RETRYING"}
  BY <1>2, <1>4 DEF Status, Final
<1> QED BY <1>3, <1>4

\* A nil error of IngestUpdate authorizes the poll loop to advance the offset:
\* whatever fails, and wherever the process stops, an update Telegram has
\* forgotten is rejected, settled or on the stream.
THEOREM AcknowledgedStays ==
  ASSUME Hooks = {}, OneOperator
  PROVE  Spec => []AcknowledgedIsKept
<1>1. InboundInv /\ PromiseInv /\ [Next]_vars => PromiseInv'
  BY PromiseNext
<1> QED BY <1>1, PromiseInit, InvAcknowledged, InboundAlways, PTL DEF Spec

==============================================================================
