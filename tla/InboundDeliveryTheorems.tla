----------------------- MODULE InboundDeliveryTheorems -----------------------
(***************************************************************************)
(* Theorems about the inbound gateway, for every number of updates, poll   *)
(* loops, webhook requests and operators, and every bound.                 *)
(***************************************************************************)
EXTENDS InboundDelivery, RedisStreamTheorems

------------------------------------------------------------------------------
(* The invariant *)

IngestState ==
  {NotIngesting} \cup
  { r \in [pc : IngestPC, u : Updates, last : Updates, row : 0 .. NumUpdates] :
      r.pc \in {"append", "record"} => r.row \in Updates }

OperatorState == {Idle} \cup [pc : {"replay", "complete"}, d : Updates, gen : Nat]

Working == {"adapter", "begin", "deliver", "complete", "fail", "deadletter"}

\* Every variable has its type: the rows ...
RowsTyped ==
  /\ status \in [Updates -> Status]
  /\ target \in [Updates -> Routes \cup {"none"}]
  /\ attempts \in [Updates -> Nat]
  /\ waiting \in [Updates -> BOOLEAN]
  /\ streamed \in [Updates -> BOOLEAN]
  /\ dlq \in [Updates -> DLQState]
  /\ replays \in [Updates -> Nat]
  /\ executed \in [Updates -> {"running", "done", "failed"}]

\* ... what takes updates; an entry is only added for a row ...
IngestTyped ==
  /\ offset \in 1 .. NumUpdates + 1
  /\ acknowledged \subseteq Updates
  /\ ingest \in [Ingesters -> IngestState]

\* ... the worker; what it holds is pending and it holds nothing twice ...
WorkerTyped ==
  /\ redis \in Queue(Updates)
  /\ pc \in Working \cup {"idle", "ack", "move"}
  /\ batch \subseteq redis.pel
  /\ pc # "idle" => entry \in redis.pel /\ entry \notin batch

\* ... and the operators.
OperatorsTyped == action \in [Operators -> OperatorState] /\ faults \in 0 .. MaxFaults

Typed == RowsTyped /\ IngestTyped /\ WorkerTyped /\ OperatorsTyped

\* What the worker found when it loaded the row is still so when it acts on it:
\* nobody but the worker settles or dead-letters a delivery, or acknowledges.
WorkerKnows ==
  /\ pc \in Working => status[Current] \notin {"SUCCEEDED", "DLQ"}
  /\ pc = "ack" => status[Current] \in Rejected \cup {"SUCCEEDED"}

\* A callback query has one row (the first part of IngestedOnce).
OneRow ==
  \A u, v \in Updates :
    /\ status[u] # "none" /\ status[v] # "none"
    /\ CallbackOf[u] # NoCallback /\ CallbackOf[u] = CallbackOf[v]
    => u = v

\* A dead letter that is being replayed has a generation, and operators replay
\* generations there are.
Replaying ==
  /\ \A d \in Updates : dlq[d] = "replay_pending" => replays[d] # 0
  /\ \A o \in Operators : action[o] # Idle => action[o].gen \in 1 .. replays[action[o].d]

\* The hashes of the scripts say how many entries a delivery has.
Counted == \A d \in Updates : CountedBy(redis, d, replays[d])

\* What has an entry, or is about to, has a row (entries are added after the
\* transaction that stores it).
Stored ==
  /\ \A e \in Entries(redis) : status[redis.stream[e]] # "none"
  /\ \A a \in Ingesters : ingest[a].pc \in {"append", "record"} => status[ingest[a].row] # "none"
  /\ \A d \in Updates : dlq[d] # "none" => status[d] # "none"
  /\ \A o \in Operators : action[o] # Idle => status[action[o].d] # "none"

InboundInv == Typed /\ Stored /\ WorkerKnows /\ OneRow /\ DeadLettersAgree /\ Replaying /\ Counted

------------------------------------------------------------------------------
(* Who changes what *)

\* The row a step changes the status of, and who may.
LEMMA StatusSteps ==
  [Next]_vars =>
    \/ UNCHANGED <<status, dlq, replays>>
    \/ \E a \in Ingesters : Prepare(a)
    \/ Begin \/ Complete \/ FailAttempt \/ DeadLetter
    \/ \E o \in Operators : PrepareReplay(o) \/ CompleteReplay(o)
    \/ \E d \in Updates : Discard(d)
<1> SUFFICES ASSUME [Next]_vars,
                    ~ \E a \in Ingesters : Prepare(a),
                    ~ (Begin \/ Complete \/ FailAttempt \/ DeadLetter),
                    ~ \E o \in Operators : PrepareReplay(o) \/ CompleteReplay(o),
                    ~ \E d \in Updates : Discard(d)
             PROVE  UNCHANGED <<status, dlq, replays>>
  OBVIOUS
<1> USE DEF rowVars, dlqVars
<1>1. ASSUME NEW p \in Pollers, Fetch(p) PROVE UNCHANGED <<status, dlq, replays>>
  BY <1>1 DEF Fetch
<1>2. ASSUME NEW h \in Hooks, Receive(h) PROVE UNCHANGED <<status, dlq, replays>>
  BY <1>2 DEF Receive
<1>3. ASSUME NEW a \in Ingesters, IngestStep(a) \/ Fail(a) \/ StopIngest(a)
      PROVE  UNCHANGED <<status, dlq, replays>>
  BY <1>3 DEF IngestStep, AppendUpdate, Record, Confirm, Fail, StopIngest
<1>4. ASSUME ReadNew \/ (\E c \in SUBSET redis.pel : ClaimStale(c)) \/ Interrupt
      PROVE  UNCHANGED <<status, dlq, replays>>
  BY <1>4 DEF ReadNew, ClaimStale, Interrupt
<1>5. ASSUME WorkerStep PROVE UNCHANGED <<status, dlq, replays>>
  BY <1>5 DEF WorkerStep, Load, RunAdapter, Deliver, Ack, Move
<1>6. ASSUME NEW o \in Operators,
             PrepareReplay(o) \/ Replay(o) \/ CompleteReplay(o) \/ AbandonReplay(o)
      PROVE  UNCHANGED <<status, dlq, replays>>
  BY <1>6 DEF Replay, AbandonReplay
<1>7. ASSUME NEW d \in Updates, Discard(d) \/ RetryDue(d) PROVE UNCHANGED <<status, dlq, replays>>
  BY <1>7 DEF RetryDue
<1>8. CASE UNCHANGED vars
  BY <1>8 DEF vars
<1> QED BY <1>1, <1>2, <1>3, <1>4, <1>5, <1>6, <1>7, <1>8 DEF Next

\* Who changes the queue.
LEMMA QueueSteps ==
  [Next]_vars =>
    \/ UNCHANGED redis
    \/ \E a \in Ingesters : AppendUpdate(a)
    \/ ReadNew \/ Ack \/ Move
    \/ \E o \in Operators : Replay(o)
<1> SUFFICES ASSUME [Next]_vars, ~ \E a \in Ingesters : AppendUpdate(a),
                    ~ (ReadNew \/ Ack \/ Move), ~ \E o \in Operators : Replay(o)
             PROVE  UNCHANGED redis
  OBVIOUS
<1>1. ASSUME NEW p \in Pollers, Fetch(p) PROVE UNCHANGED redis
  BY <1>1 DEF Fetch
<1>2. ASSUME NEW h \in Hooks, Receive(h) PROVE UNCHANGED redis
  BY <1>2 DEF Receive
<1>3. ASSUME NEW a \in Ingesters, IngestStep(a) \/ Fail(a) \/ StopIngest(a)
      PROVE  UNCHANGED redis
  BY <1>3 DEF IngestStep, Prepare, Record, Confirm, Fail, StopIngest
<1>4. ASSUME ReadNew \/ (\E c \in SUBSET redis.pel : ClaimStale(c)) \/ Interrupt
      PROVE  UNCHANGED redis
  BY <1>4 DEF ClaimStale, Interrupt
<1>5. ASSUME WorkerStep PROVE UNCHANGED redis
  BY <1>5 DEF WorkerStep, Load, RunAdapter, Deliver, Begin, Complete, FailAttempt, DeadLetter
<1>6. ASSUME NEW o \in Operators,
             PrepareReplay(o) \/ Replay(o) \/ CompleteReplay(o) \/ AbandonReplay(o)
      PROVE  UNCHANGED redis
  BY <1>6 DEF PrepareReplay, CompleteReplay, AbandonReplay
<1>7. ASSUME NEW d \in Updates, Discard(d) \/ RetryDue(d) PROVE UNCHANGED redis
  BY <1>7 DEF RetryDue, Discard
<1>8. CASE UNCHANGED vars
  BY <1>8 DEF vars
<1> QED BY <1>1, <1>2, <1>3, <1>4, <1>5, <1>6, <1>7, <1>8 DEF Next

\* Who takes updates.
LEMMA IngestSteps ==
  [Next]_vars =>
    \/ UNCHANGED ingestVars
    \/ \E p \in Pollers : Fetch(p)
    \/ \E h \in Hooks : Receive(h)
    \/ \E a \in Ingesters : IngestStep(a) \/ Fail(a) \/ StopIngest(a)
<1> SUFFICES ASSUME [Next]_vars,
                    ~ \E p \in Pollers : Fetch(p), ~ \E h \in Hooks : Receive(h),
                    ~ \E a \in Ingesters : IngestStep(a) \/ Fail(a) \/ StopIngest(a)
             PROVE  UNCHANGED ingestVars
  OBVIOUS
<1>1. ASSUME ReadNew \/ (\E c \in SUBSET redis.pel : ClaimStale(c)) \/ Interrupt
      PROVE  UNCHANGED ingestVars
  BY <1>1 DEF ReadNew, ClaimStale, Interrupt
<1>2. ASSUME WorkerStep PROVE UNCHANGED ingestVars
  BY <1>2 DEF WorkerStep, Load, RunAdapter, Begin, Deliver, Complete, FailAttempt,
              DeadLetter, Ack, Move
<1>3. ASSUME NEW o \in Operators,
             PrepareReplay(o) \/ Replay(o) \/ CompleteReplay(o) \/ AbandonReplay(o)
      PROVE  UNCHANGED ingestVars
  BY <1>3 DEF PrepareReplay, Replay, CompleteReplay, AbandonReplay
<1>4. ASSUME NEW d \in Updates, Discard(d) \/ RetryDue(d) PROVE UNCHANGED ingestVars
  BY <1>4 DEF Discard, RetryDue
<1>5. CASE UNCHANGED vars
  BY <1>5 DEF vars
<1> QED BY <1>1, <1>2, <1>3, <1>4, <1>5 DEF Next

\* Who works.
LEMMA WorkerSteps ==
  [Next]_vars =>
    \/ UNCHANGED workerVars /\ ~ (Ack \/ Move \/ Begin \/ Complete \/ FailAttempt \/ DeadLetter)
    \/ ReadNew \/ \E c \in SUBSET redis.pel : ClaimStale(c)
    \/ WorkerStep \/ Interrupt
<1> SUFFICES ASSUME [Next]_vars, ~ (ReadNew \/ \E c \in SUBSET redis.pel : ClaimStale(c)),
                    ~ (WorkerStep \/ Interrupt)
             PROVE  UNCHANGED workerVars
  BY DEF WorkerStep
<1>1. ASSUME NEW p \in Pollers, Fetch(p) PROVE UNCHANGED workerVars
  BY <1>1 DEF Fetch
<1>2. ASSUME NEW h \in Hooks, Receive(h) PROVE UNCHANGED workerVars
  BY <1>2 DEF Receive
<1>3. ASSUME NEW a \in Ingesters, IngestStep(a) \/ Fail(a) \/ StopIngest(a)
      PROVE  UNCHANGED workerVars
  BY <1>3 DEF IngestStep, Prepare, AppendUpdate, Record, Confirm, Fail, StopIngest
<1>4. ASSUME NEW o \in Operators,
             PrepareReplay(o) \/ Replay(o) \/ CompleteReplay(o) \/ AbandonReplay(o)
      PROVE  UNCHANGED workerVars
  BY <1>4 DEF PrepareReplay, Replay, CompleteReplay, AbandonReplay
<1>5. ASSUME NEW d \in Updates, Discard(d) \/ RetryDue(d) PROVE UNCHANGED workerVars
  BY <1>5 DEF Discard, RetryDue
<1>6. CASE UNCHANGED vars
  BY <1>6 DEF vars
<1> QED BY <1>1, <1>2, <1>3, <1>4, <1>5, <1>6 DEF Next

\* Who replays.
LEMMA OperatorSteps ==
  [Next]_vars =>
    \/ UNCHANGED action
    \/ \E o \in Operators :
         PrepareReplay(o) \/ Replay(o) \/ CompleteReplay(o) \/ AbandonReplay(o)
<1> SUFFICES ASSUME [Next]_vars,
                    ~ \E o \in Operators :
                        PrepareReplay(o) \/ Replay(o) \/ CompleteReplay(o) \/ AbandonReplay(o)
             PROVE  UNCHANGED action
  OBVIOUS
<1>1. ASSUME NEW p \in Pollers, Fetch(p) PROVE UNCHANGED action
  BY <1>1 DEF Fetch
<1>2. ASSUME NEW h \in Hooks, Receive(h) PROVE UNCHANGED action
  BY <1>2 DEF Receive
<1>3. ASSUME NEW a \in Ingesters, IngestStep(a) \/ Fail(a) \/ StopIngest(a)
      PROVE  UNCHANGED action
  BY <1>3 DEF IngestStep, Prepare, AppendUpdate, Record, Confirm, Fail, StopIngest
<1>4. ASSUME ReadNew \/ (\E c \in SUBSET redis.pel : ClaimStale(c)) \/ Interrupt
      PROVE  UNCHANGED action
  BY <1>4 DEF ReadNew, ClaimStale, Interrupt
<1>5. ASSUME WorkerStep PROVE UNCHANGED action
  BY <1>5 DEF WorkerStep, Load, RunAdapter, Begin, Deliver, Complete, FailAttempt,
              DeadLetter, Ack, Move
<1>6. ASSUME NEW d \in Updates, Discard(d) \/ RetryDue(d) PROVE UNCHANGED action
  BY <1>6 DEF Discard, RetryDue
<1>7. CASE UNCHANGED vars
  BY <1>7 DEF vars
<1> QED BY <1>1, <1>2, <1>3, <1>4, <1>5, <1>6, <1>7 DEF Next

\* The worker at work holds an entry of a stored delivery.
LEMMA CurrentType ==
  ASSUME Typed, pc # "idle"
  PROVE  Current \in Updates /\ entry \in Entries(redis) /\ entry \in Live(redis)
BY QueueFields DEF Typed, WorkerTyped, Current, Live

------------------------------------------------------------------------------
(* Types *)

\* The rows: one field of one row is written with a value of its type.
LEMMA RowsKeepTypes ==
  ASSUME Typed, [Next]_vars
  PROVE  RowsTyped'
<1> USE DEF rowVars, dlqVars, workerVars
<1>0. RowsTyped
  BY DEF Typed
<1>1. ASSUME NEW a \in Ingesters, Prepare(a) PROVE RowsTyped'
  <2>1. ingest[a].u \in Updates
    BY <1>1 DEF Typed, IngestTyped, IngestState, Prepare, NotIngesting
  <2>2. \A route : StatusFor(route) \in Status
    BY DEF StatusFor, Status, Rejected
  <2> QED BY <1>0, <1>1, <2>1, <2>2 DEF Prepare, RowsTyped
<1>2. ASSUME NEW a \in Ingesters, Record(a) PROVE RowsTyped'
  <2>1. ingest[a].row \in Updates
    BY <1>2 DEF Typed, IngestTyped, IngestState, Record, NotIngesting
  <2> QED BY <1>0, <1>2, <2>1 DEF Record, RowsTyped
<1>3. CASE RunAdapter
  <2>1. Current \in Updates
    BY <1>3, CurrentType DEF RunAdapter
  <2> QED BY <1>0, <1>3, <2>1 DEF RunAdapter, RowsTyped
<1>4. CASE Begin
  <2>1. Current \in Updates /\ attempts[Current] + 1 \in Nat
    BY <1>0, <1>4, CurrentType DEF Begin, RowsTyped
  <2> QED BY <1>0, <1>4, <2>1 DEF Begin, RowsTyped, Status
<1>5. CASE Complete
  <2>1. Current \in Updates
    BY <1>5, CurrentType DEF Complete
  <2> QED BY <1>0, <1>5, <2>1 DEF Complete, RowsTyped, Status
<1>6. CASE FailAttempt
  <2>1. Current \in Updates /\ (target[Current] # "adapter") \in BOOLEAN
    BY <1>6, CurrentType DEF FailAttempt
  <2> QED BY <1>0, <1>6, <2>1 DEF FailAttempt, RowsTyped, Status
<1>7. CASE DeadLetter
  <2>1. Current \in Updates
    BY <1>7, CurrentType DEF DeadLetter
  <2> QED BY <1>0, <1>7, <2>1 DEF DeadLetter, RowsTyped, Status, DLQState
<1>8. ASSUME NEW o \in Operators, PrepareReplay(o) PROVE RowsTyped'
  <2>1. PICK d \in Updates :
          \/ /\ dlq' = [dlq EXCEPT ![d] = "replay_pending"]
             /\ replays' = [replays EXCEPT ![d] = @ + 1]
             /\ status' = [status EXCEPT ![d] = "REPLAY_PENDING"]
             /\ waiting' = [waiting EXCEPT ![d] = FALSE]
          \/ UNCHANGED <<dlqVars, status, waiting>>
    BY <1>8 DEF PrepareReplay
  <2>2. replays[d] + 1 \in Nat
    BY <1>0 DEF RowsTyped
  <2>3. UNCHANGED <<target, attempts, streamed, executed>>
    BY <1>8 DEF PrepareReplay
  <2>4. /\ dlq' \in [Updates -> DLQState] /\ replays' \in [Updates -> Nat]
        /\ status' \in [Updates -> Status] /\ waiting' \in [Updates -> BOOLEAN]
    <3>1. CASE UNCHANGED <<dlqVars, status, waiting>>
      BY <1>0, <3>1 DEF RowsTyped
    <3>2. CASE /\ dlq' = [dlq EXCEPT ![d] = "replay_pending"]
               /\ replays' = [replays EXCEPT ![d] = replays[d] + 1]
               /\ status' = [status EXCEPT ![d] = "REPLAY_PENDING"]
               /\ waiting' = [waiting EXCEPT ![d] = FALSE]
      BY <1>0, <3>2, <2>2 DEF RowsTyped, Status, DLQState
    <3> QED BY <2>1, <3>1, <3>2
  <2> QED BY <1>0, <2>3, <2>4 DEF RowsTyped
<1>9. ASSUME NEW o \in Operators, CompleteReplay(o) PROVE RowsTyped'
  <2>1. action[o].d \in Updates
    BY <1>9 DEF Typed, OperatorsTyped, OperatorState, CompleteReplay, Idle, Job
  <2>2. (streamed[action[o].d] \/ status[action[o].d] = "REPLAY_PENDING") \in BOOLEAN
    OBVIOUS
  <2> QED BY <1>0, <1>9, <2>1, <2>2 DEF CompleteReplay, RowsTyped, Status, DLQState
<1>10. ASSUME NEW d \in Updates, Discard(d) PROVE RowsTyped'
  BY <1>0, <1>10 DEF Discard, RowsTyped, Status, DLQState
<1>11. ASSUME NEW d \in Updates, RetryDue(d) PROVE RowsTyped'
  BY <1>0, <1>11 DEF RetryDue, RowsTyped
<1>12. CASE UNCHANGED <<rowVars, dlqVars, executed>>
  BY <1>0, <1>12 DEF RowsTyped
<1>13. ASSUME NEW p \in Pollers, Fetch(p) PROVE RowsTyped'
  BY <1>12, <1>13 DEF Fetch
<1>14. ASSUME NEW h \in Hooks, Receive(h) PROVE RowsTyped'
  BY <1>12, <1>14 DEF Receive
<1>15. ASSUME NEW a \in Ingesters, AppendUpdate(a) \/ Confirm(a) \/ Fail(a) \/ StopIngest(a)
       PROVE  RowsTyped'
  BY <1>12, <1>15 DEF AppendUpdate, Confirm, Fail, StopIngest
<1>16. ASSUME ReadNew \/ (\E c \in SUBSET redis.pel : ClaimStale(c)) \/ Interrupt
       PROVE  RowsTyped'
  BY <1>12, <1>16 DEF ReadNew, ClaimStale, Interrupt
<1>17. CASE Load \/ Deliver \/ Ack \/ Move
  BY <1>12, <1>17 DEF Load, Deliver, Ack, Move
<1>18. ASSUME NEW o \in Operators, Replay(o) \/ AbandonReplay(o) PROVE RowsTyped'
  BY <1>12, <1>18 DEF Replay, AbandonReplay
<1>19. CASE UNCHANGED vars
  BY <1>12, <1>19 DEF vars
<1> QED
  BY <1>1, <1>2, <1>3, <1>4, <1>5, <1>6, <1>7, <1>8, <1>9, <1>10, <1>11, <1>13, <1>14,
     <1>15, <1>16, <1>17, <1>18, <1>19 DEF Next, IngestStep, WorkerStep

\* Who takes an update takes one of Telegram's.
LEMMA IngestFields ==
  ASSUME IngestTyped, NEW a \in Ingesters, ingest[a] # NotIngesting
  PROVE  /\ ingest[a].pc \in IngestPC /\ ingest[a].u \in Updates /\ ingest[a].last \in Updates
         /\ ingest[a].u \in Nat /\ ingest[a].last \in Nat
         /\ ingest[a].u <= NumUpdates /\ ingest[a].last <= NumUpdates
         /\ ingest[a].row \in 0 .. NumUpdates
         /\ ingest[a].pc \in {"append", "record"} => ingest[a].row \in Updates
BY ConstantsAssumption DEF IngestTyped, IngestState, Updates

\* Any step of it is one of the states there are.
LEMMA IngestingType ==
  ASSUME NEW p \in IngestPC, NEW u \in Updates, NEW last \in Updates, NEW row \in 0 .. NumUpdates,
         p \in {"append", "record"} => row \in Updates
  PROVE  Ingesting(p, u, last, row) \in IngestState
BY DEF Ingesting, IngestState

\* What takes updates goes through them in order and adds entries for rows only.
LEMMA IngestKeepsTypes ==
  ASSUME Typed, [Next]_vars
  PROVE  IngestTyped'
<1>0. IngestTyped
  BY DEF Typed
<1>1. NotIngesting \in IngestState
  BY DEF IngestState
<1>2. ASSUME NEW u \in Updates, NEW last \in Updates
      PROVE  Ingesting("prepare", u, last, 0) \in IngestState
  <2>1. 0 \in 0 .. NumUpdates
    BY ConstantsAssumption
  <2> QED BY <2>1, IngestingType DEF IngestPC
<1>3. ASSUME NEW a, NEW i \in IngestState, ingest' = [ingest EXCEPT ![a] = i]
      PROVE  ingest' \in [Ingesters -> IngestState]
  BY <1>0, <1>3 DEF IngestTyped
<1>4. ASSUME NEW p \in Pollers, Fetch(p) PROVE IngestTyped'
  <2>1. ASSUME NEW last \in offset .. NumUpdates PROVE offset \in Updates /\ last \in Updates
    BY <1>0, ConstantsAssumption DEF IngestTyped, Updates
  <2>2. acknowledged' \subseteq Updates /\ offset' = offset
    BY <1>0, <1>4 DEF Fetch, IngestTyped
  <2>3. ingest' \in [Ingesters -> IngestState]
    <3>1. CASE UNCHANGED ingest
      BY <1>0, <3>1 DEF IngestTyped
    <3>2. CASE \E last \in offset .. NumUpdates :
                 ingest' = [ingest EXCEPT ![p] = Ingesting("prepare", offset, last, 0)]
      BY <3>2, <1>2, <1>3, <2>1
    <3> QED BY <1>4, <3>1, <3>2 DEF Fetch
  <2> QED BY <1>0, <2>2, <2>3 DEF IngestTyped
<1>5. ASSUME NEW h \in Hooks, Receive(h) PROVE IngestTyped'
  <2>1. PICK u \in Updates : ingest' = [ingest EXCEPT ![h] = Ingesting("prepare", u, u, 0)]
    BY <1>5 DEF Receive
  <2>2. ingest' \in [Ingesters -> IngestState]
    BY <2>1, <1>2, <1>3
  <2> QED BY <1>0, <1>5, <2>2 DEF Receive, IngestTyped
<1>6. ASSUME NEW a \in Ingesters, Prepare(a) PROVE IngestTyped'
  <2> DEFINE u == ingest[a].u
             last == ingest[a].last
             row == IF Rows(u) = {} THEN u ELSE CHOOSE v \in Rows(u) : TRUE
             next == IF NeedsEntry(row) THEN "append" ELSE "confirm"
  <2>1. ingest[a] # NotIngesting
    BY <1>6 DEF Prepare, NotIngesting
  <2>2. u \in Updates /\ last \in Updates
    BY <1>0, <2>1, IngestFields
  <2>3. ingest' = [ingest EXCEPT ![a] = Ingesting(next, u, last, row)]
    BY <1>6 DEF Prepare
  <2>4. row \in Updates /\ row \in 0 .. NumUpdates
    BY <2>2, ConstantsAssumption DEF Rows, Updates
  <2>5. next \in IngestPC
    BY DEF IngestPC
  <2> HIDE DEF row, next, u, last
  <2>6. Ingesting(next, u, last, row) \in IngestState
    BY <2>2, <2>4, <2>5, IngestingType
  <2>7. ingest' \in [Ingesters -> IngestState]
    BY <2>3, <2>6, <1>3
  <2> QED BY <1>0, <1>6, <2>7 DEF Prepare, IngestTyped
<1>7. ASSUME NEW a \in Ingesters, AppendUpdate(a) \/ Record(a) PROVE IngestTyped'
  <2>1. ingest[a] # NotIngesting /\ ingest[a].pc \in {"append", "record"}
    BY <1>7 DEF AppendUpdate, Record, NotIngesting
  <2>2. PICK p \in {"record", "confirm"} :
          ingest' = [ingest EXCEPT ![a] = [ingest[a] EXCEPT !.pc = p]]
    BY <1>7 DEF AppendUpdate, Record
  <2>3. [ingest[a] EXCEPT !.pc = p] \in IngestState
    <3>1. ingest[a] \in [pc : IngestPC, u : Updates, last : Updates, row : 0 .. NumUpdates]
      BY <1>0, <2>1 DEF IngestTyped, IngestState
    <3>2. ingest[a].row \in Updates /\ p \in IngestPC
      BY <1>0, <2>1, IngestFields DEF IngestPC
    <3> QED BY <3>1, <3>2 DEF IngestState
  <2>4. ingest' \in [Ingesters -> IngestState]
    BY <1>3, <2>2, <2>3
  <2> QED BY <1>0, <1>7, <2>4 DEF AppendUpdate, Record, IngestTyped
<1>8. ASSUME NEW a \in Ingesters, Confirm(a) PROVE IngestTyped'
  <2> DEFINE u == ingest[a].u
             last == ingest[a].last
             i == IF u < last THEN Ingesting("prepare", u + 1, last, 0) ELSE NotIngesting
  <2>1. ingest[a] # NotIngesting
    BY <1>8 DEF Confirm, NotIngesting
  <2>2. /\ u \in Updates /\ last \in Updates /\ u \in Nat /\ last \in Nat
        /\ u <= NumUpdates /\ last <= NumUpdates
    BY <1>0, <2>1, IngestFields
  <2>3. ingest' = [ingest EXCEPT ![a] = i]
    BY <1>8 DEF Confirm
  <2>4. offset' \in {offset, u + 1} /\ acknowledged' \subseteq acknowledged \cup {u}
    BY <1>8 DEF Confirm
  <2>5. u + 1 \in 1 .. NumUpdates + 1 /\ (u < last => u + 1 \in Updates)
    <3> HIDE DEF u, last
    <3> QED BY <2>2, ConstantsAssumption DEF Updates
  <2>6. i \in IngestState
    <3> HIDE DEF u, last
    <3> QED BY <1>1, <1>2, <2>2, <2>5
  <2>7. ingest' \in [Ingesters -> IngestState]
    <3> HIDE DEF i
    <3> QED BY <1>3, <2>3, <2>6
  <2> HIDE DEF u, i
  <2> QED BY <1>0, <2>2, <2>4, <2>5, <2>7 DEF IngestTyped
<1>9. ASSUME NEW a \in Ingesters, Fail(a) \/ StopIngest(a) PROVE IngestTyped'
  <2>1. ingest[a].u \in Updates
    BY <1>0, <1>9, IngestFields DEF Fail, StopIngest
  <2>2. /\ ingest' = [ingest EXCEPT ![a] = NotIngesting] /\ offset' = offset
        /\ acknowledged' \subseteq acknowledged \cup {ingest[a].u}
    BY <1>9 DEF Fail, StopIngest
  <2>3. ingest' \in [Ingesters -> IngestState]
    BY <1>1, <1>3, <2>2
  <2> QED BY <1>0, <2>1, <2>2, <2>3 DEF IngestTyped
<1>10. CASE UNCHANGED ingestVars
  BY <1>0, <1>10 DEF IngestTyped, ingestVars
<1> QED
  BY <1>4, <1>5, <1>6, <1>7, <1>8, <1>9, <1>10, IngestSteps DEF IngestStep

\* The queue keeps its entries; the pending ones stay pending until the worker
\* acknowledges the one it holds.
LEMMA QueueKeeps ==
  ASSUME Typed, [Next]_vars
  PROVE  /\ redis' \in Queue(Updates) /\ Grows(redis, redis')
         /\ redis.pel \ {entry} \subseteq redis'.pel
         /\ ~ (Ack \/ Move) => redis.pel \subseteq redis'.pel
<1>1. redis \in Queue(Updates)
  BY DEF Typed, WorkerTyped
<1>2. CASE UNCHANGED redis
  BY <1>1, <1>2, QueueFields DEF Grows
<1>3. ASSUME NEW a \in Ingesters, AppendUpdate(a)
      PROVE  redis' \in Queue(Updates) /\ Grows(redis, redis') /\ redis'.pel = redis.pel
  <2>1. PICK d \in Updates : redis' = AppendOnce(redis, d)
    BY <1>3, IngestFields DEF AppendUpdate, Typed, NotIngesting
  <2>2. redis' \in Queue(Updates) /\ Grows(redis, redis')
    BY <1>1, <2>1, AppendOnceType
  <2>3. redis'.pel = redis.pel
    BY <1>1, <2>1, AppendFields
  <2> QED BY <2>2, <2>3
<1>4. CASE ReadNew
  <2>1. BatchSize \in Nat /\ redis' = ReadGroup(redis, BatchSize)
    BY <1>4, ConstantsAssumption DEF ReadNew
  <2>2. redis' \in Queue(Updates) /\ Grows(redis, redis')
    BY <1>1, <2>1, ReadGroupType
  <2>3. redis.pel \subseteq redis'.pel
    BY <1>1, <2>1, ReadGroupEffect
  <2> QED BY <2>2, <2>3
<1>5. CASE Ack
  <2>1. redis' = Acknowledge(redis, entry)
    BY <1>5 DEF Ack
  <2> QED BY <1>1, <1>5, <2>1, AcknowledgeType, AcknowledgeEffect
<1>6. CASE Move
  <2>1. redis' = MoveToDLQ(redis, entry, Current) /\ Current \in Updates
    BY <1>6, CurrentType DEF Move
  <2>2. redis' \in Queue(Updates) /\ Grows(redis, redis')
    BY <1>1, <2>1, MoveToDLQType
  <2>3. redis'.pel = redis.pel \ {entry}
    BY <1>1, <2>1, MoveToDLQEffect
  <2> QED BY <1>6, <2>2, <2>3
<1>7. ASSUME NEW o \in Operators, Replay(o)
      PROVE  redis' \in Queue(Updates) /\ Grows(redis, redis') /\ redis'.pel = redis.pel
  <2>1. PICK d \in Updates, g \in Nat : redis' = ReplayFromDLQ(redis, d, g)
    BY <1>7 DEF Replay, Typed, OperatorsTyped, OperatorState, Idle, Job
  <2>2. redis' \in Queue(Updates) /\ Grows(redis, redis')
    BY <1>1, <2>1, ReplayFromDLQType
  <2>3. redis'.pel = redis.pel
    <3>1. CASE <<d, g>> \in redis.replayIndex
      BY <2>1, <3>1 DEF ReplayFromDLQ
    <3>2. CASE <<d, g>> \notin redis.replayIndex
      BY <1>1, <2>1, <3>2, ReplayFields
    <3> QED BY <3>1, <3>2
  <2> QED BY <2>2, <2>3
<1> QED BY <1>2, <1>3, <1>4, <1>5, <1>6, <1>7, QueueSteps

\* What the worker holds stays pending until it is acknowledged.
LEMMA WorkerKeepsTypes ==
  ASSUME Typed, [Next]_vars
  PROVE  WorkerTyped'
<1> USE DEF workerVars
<1>0. WorkerTyped
  BY DEF Typed
<1>1. redis' \in Queue(Updates) /\ redis.pel \ {entry} \subseteq redis'.pel
  BY QueueKeeps
<1>2. ~ (Ack \/ Move) => redis.pel \subseteq redis'.pel
  BY QueueKeeps
<1>3. CASE UNCHANGED <<pc, batch, entry>> /\ ~ (Ack \/ Move)
  BY <1>0, <1>1, <1>2, <1>3 DEF WorkerTyped
<1>4. CASE ReadNew
  <2>1. batch' \subseteq redis'.pel
    <3>1. BatchSize \in Nat
      BY ConstantsAssumption
    <3> QED BY <1>0, <1>4, <3>1, ReadGroupEffect DEF ReadNew, WorkerTyped
  <2> QED BY <1>0, <1>1, <1>4, <2>1 DEF ReadNew, WorkerTyped
<1>5. CASE \E c \in SUBSET redis.pel : ClaimStale(c)
  BY <1>0, <1>1, <1>5 DEF ClaimStale, WorkerTyped
<1>6. CASE Load
  <2>1. PICK e \in batch : /\ entry' = e /\ batch' = batch \ {e}
                           /\ pc' = AfterLoad(redis.stream[e])
    BY <1>6 DEF Load
  <2>2. pc' \in Working \cup {"idle", "ack", "move"}
    BY <2>1 DEF AfterLoad, Working
  <2>3. redis' = redis
    BY <1>6 DEF Load
  <2> QED BY <1>0, <2>1, <2>2, <2>3 DEF WorkerTyped
<1>7. CASE RunAdapter
  BY <1>0, <1>7 DEF RunAdapter, WorkerTyped, Working
<1>8. CASE Begin
  BY <1>0, <1>8 DEF Begin, WorkerTyped, Working
<1>9. CASE Deliver \/ Complete \/ DeadLetter
  BY <1>0, <1>9 DEF Deliver, Complete, DeadLetter, WorkerTyped, Working
<1>10. CASE FailAttempt
  BY <1>0, <1>10 DEF FailAttempt, WorkerTyped, Working
<1>11. CASE Ack \/ Move
  <2>1. pc' = "idle" /\ UNCHANGED <<batch, entry>> /\ entry \notin batch
    BY <1>0, <1>11 DEF Ack, Move, WorkerTyped
  <2> QED BY <1>0, <1>1, <2>1 DEF WorkerTyped
<1>12. CASE Interrupt
  BY <1>0, <1>12 DEF Interrupt, WorkerTyped
<1> QED
  BY <1>3, <1>4, <1>5, <1>6, <1>7, <1>8, <1>9, <1>10, <1>11, <1>12, WorkerSteps DEF WorkerStep

\* A replay is of a dead letter there is.
LEMMA OperatorsKeepTypes ==
  ASSUME Typed, [Next]_vars
  PROVE  OperatorsTyped'
<1>0. OperatorsTyped
  BY DEF Typed
<1>1. ASSUME NEW o \in Operators, NEW i \in OperatorState, action' = [action EXCEPT ![o] = i],
             UNCHANGED faults
      PROVE  OperatorsTyped'
  BY <1>0, <1>1 DEF OperatorsTyped
<1>2. Idle \in OperatorState
  BY DEF OperatorState
<1>3. ASSUME NEW o \in Operators, PrepareReplay(o) PROVE OperatorsTyped'
  <2>1. ASSUME NEW d \in Updates PROVE replays[d] \in Nat /\ replays[d] + 1 \in Nat
    BY DEF Typed, RowsTyped
  <2>2. PICK d \in Updates, g \in Nat : action' = [action EXCEPT ![o] = Job("replay", d, g)]
    BY <1>3, <2>1 DEF PrepareReplay
  <2>3. Job("replay", d, g) \in OperatorState
    BY DEF Job, OperatorState
  <2> QED BY <1>1, <1>3, <2>2, <2>3 DEF PrepareReplay
<1>4. ASSUME NEW o \in Operators, Replay(o) PROVE OperatorsTyped'
  <2>1. action' = [action EXCEPT ![o] = [action[o] EXCEPT !.pc = "complete"]]
    BY <1>4 DEF Replay
  <2>2. action[o] \in [pc : {"replay", "complete"}, d : Updates, gen : Nat]
    BY <1>0, <1>4 DEF Replay, OperatorsTyped, OperatorState, Idle, Job
  <2>3. [action[o] EXCEPT !.pc = "complete"] \in OperatorState
    BY <2>2 DEF OperatorState
  <2> QED BY <1>1, <1>4, <2>1, <2>3 DEF Replay
<1>5. ASSUME NEW o \in Operators, CompleteReplay(o) \/ AbandonReplay(o) PROVE OperatorsTyped'
  BY <1>1, <1>2, <1>5 DEF CompleteReplay, AbandonReplay
<1>6. ASSUME action' = action, faults' \in 0 .. MaxFaults PROVE OperatorsTyped'
  BY <1>0, <1>6 DEF OperatorsTyped
<1>7. ASSUME faults' = faults \/ (faults < MaxFaults /\ faults' = faults + 1)
      PROVE  faults' \in 0 .. MaxFaults
  BY <1>0, <1>7, ConstantsAssumption DEF OperatorsTyped
<1>8. ASSUME NEW p \in Pollers, Fetch(p) PROVE OperatorsTyped'
  BY <1>6, <1>7, <1>8 DEF Fetch
<1>9. ASSUME NEW h \in Hooks, Receive(h) PROVE OperatorsTyped'
  BY <1>6, <1>7, <1>9 DEF Receive
<1>10. ASSUME NEW a \in Ingesters, IngestStep(a) \/ Fail(a) \/ StopIngest(a)
       PROVE  OperatorsTyped'
  BY <1>6, <1>7, <1>10
  DEF IngestStep, Prepare, AppendUpdate, Record, Confirm, Fail, StopIngest
<1>11. ASSUME ReadNew \/ (\E c \in SUBSET redis.pel : ClaimStale(c)) \/ Interrupt
       PROVE  OperatorsTyped'
  BY <1>6, <1>7, <1>11 DEF ReadNew, ClaimStale, Interrupt
<1>12. CASE WorkerStep
  BY <1>6, <1>7, <1>12 DEF WorkerStep, Load, RunAdapter, Begin, Deliver, Complete,
                           FailAttempt, DeadLetter, Ack, Move
<1>13. ASSUME NEW d \in Updates, Discard(d) \/ RetryDue(d) PROVE OperatorsTyped'
  BY <1>6, <1>7, <1>13 DEF Discard, RetryDue
<1>14. CASE UNCHANGED vars
  BY <1>6, <1>7, <1>14 DEF vars
<1> QED
  BY <1>3, <1>4, <1>5, <1>8, <1>9, <1>10, <1>11, <1>12, <1>13, <1>14 DEF Next

------------------------------------------------------------------------------
(* What the worker knows, dead letters, and rows of callbacks *)

\* The delivery the worker holds stays the one it loaded.
LEMMA CurrentStays ==
  ASSUME Typed, [Next]_vars, pc # "idle", entry' = entry
  PROVE  Current' = Current
BY CurrentType, QueueKeeps DEF Current, Grows

\* Nobody but the worker writes a row the worker knows, or makes one known to it.
LEMMA OthersKeepKnowledge ==
  ASSUME Typed, DeadLettersAgree, [Next]_vars, NEW d \in Updates,
         ~ (Begin \/ Complete \/ FailAttempt \/ DeadLetter)
  PROVE  /\ status[d] \notin {"SUCCEEDED", "DLQ"} => status'[d] \notin {"SUCCEEDED", "DLQ"}
         /\ status[d] \in Rejected \cup {"SUCCEEDED"} => status'[d] = status[d]
         /\ status[d] # "none" => status'[d] # "none"
<1>0. status \in [Updates -> Status] /\ \A v \in Updates : dlq[v] = "active" <=> status[v] = "DLQ"
  BY DEF Typed, RowsTyped, DeadLettersAgree
<1>1. CASE UNCHANGED status
  BY <1>1
<1>2. ASSUME NEW a \in Ingesters, Prepare(a)
      PROVE  status' = status \/ \E u \in Updates, r \in Routes :
                                   status[u] = "none" /\ status' = [status EXCEPT ![u] = StatusFor(r)]
  <2>1. ingest[a].u \in Updates
    BY <1>2, IngestFields DEF Typed, Prepare, NotIngesting
  <2>2. Rows(ingest[a].u) = {} => status[ingest[a].u] = "none"
    BY <2>1 DEF Rows
  <2> QED BY <1>2, <2>1, <2>2 DEF Prepare
<1>3. \A r : StatusFor(r) \in Rejected \cup {"PENDING"}
  BY DEF StatusFor, Rejected
<1>4. ASSUME NEW a \in Ingesters, Prepare(a)
      PROVE  status'[d] = status[d] \/ (status[d] = "none" /\ status'[d] \in Rejected \cup {"PENDING"})
  BY <1>0, <1>2, <1>3, <1>4
<1>5. ASSUME NEW o \in Operators, PrepareReplay(o)
      PROVE  status'[d] = status[d] \/ (status[d] = "DLQ" /\ status'[d] = "REPLAY_PENDING")
  BY <1>0, <1>5 DEF PrepareReplay
<1>6. ASSUME NEW o \in Operators, CompleteReplay(o)
      PROVE  status'[d] = status[d] \/ (status[d] = "REPLAY_PENDING" /\ status'[d] = "PENDING")
  BY <1>0, <1>6 DEF CompleteReplay
<1>7. ASSUME NEW v \in Updates, Discard(v)
      PROVE  status'[d] = status[d] \/ (status[d] = "DLQ" /\ status'[d] = "DISCARDED")
  BY <1>0, <1>7 DEF Discard
<1> QED BY <1>1, <1>4, <1>5, <1>6, <1>7, StatusSteps DEF Rejected

\* A step of the worker leaves it with what it needs to know for the next.
LEMMA KnowledgeKept ==
  ASSUME Typed, DeadLettersAgree, WorkerKnows, [Next]_vars
  PROVE  WorkerKnows'
<1> USE DEF Working, workerVars
<1>0. status \in [Updates -> Status]
  BY DEF Typed, RowsTyped
<1>1. ASSUME ~ (Begin \/ Complete \/ FailAttempt \/ DeadLetter), entry' = entry,
             pc' = "idle" \/ pc' = pc \/ (pc \in Working /\ pc' \in Working \cup {"move"})
      PROVE  WorkerKnows'
  <2>1. CASE pc' \in {"idle", "move"} \/ pc = "idle"
    BY <1>1, <2>1 DEF WorkerKnows
  <2>2. CASE pc' \notin {"idle", "move"} /\ pc # "idle"
    <3>1. Current \in Updates /\ Current' = Current
      BY <1>1, <2>2, CurrentType, CurrentStays
    <3>2. /\ status[Current] \notin {"SUCCEEDED", "DLQ"} => status'[Current] \notin {"SUCCEEDED", "DLQ"}
          /\ status[Current] \in Rejected \cup {"SUCCEEDED"} => status'[Current] = status[Current]
      BY <1>1, <3>1, OthersKeepKnowledge
    <3> QED BY <1>1, <2>2, <3>1, <3>2 DEF WorkerKnows
  <2> QED BY <2>1, <2>2
<1>2. CASE Load
  <2>1. PICK e \in batch : /\ entry' = e /\ redis' = redis /\ status' = status
                           /\ pc' = AfterLoad(redis.stream[e])
    BY <1>2 DEF Load, rowVars
  <2>2. Current' = redis.stream[e]
    BY <2>1 DEF Current
  <2> QED BY <2>1, <2>2 DEF AfterLoad, WorkerKnows
<1>3. ASSUME pc # "idle", entry' = entry PROVE Current \in Updates /\ Current' = Current
  BY <1>3, CurrentType, CurrentStays
<1>4. CASE Begin
  <2>1. Current \in Updates /\ Current' = Current
    BY <1>3, <1>4 DEF Begin
  <2>2. status'[Current] = "PENDING" /\ pc' \in Working
    BY <1>0, <1>4, <2>1 DEF Begin
  <2> QED BY <2>1, <2>2 DEF WorkerKnows
<1>5. CASE Complete
  <2>1. Current \in Updates /\ Current' = Current
    BY <1>3, <1>5 DEF Complete
  <2>2. status'[Current] = "SUCCEEDED" /\ pc' = "ack"
    BY <1>0, <1>5, <2>1 DEF Complete
  <2> QED BY <2>1, <2>2 DEF WorkerKnows
<1>6. CASE FailAttempt
  <2>1. Current \in Updates /\ Current' = Current
    BY <1>3, <1>6 DEF FailAttempt
  <2>2. status'[Current] = "RETRYING" /\ pc' \in {"idle", "deadletter"}
    BY <1>0, <1>6, <2>1 DEF FailAttempt
  <2> QED BY <2>1, <2>2 DEF WorkerKnows
<1>7. CASE DeadLetter
  BY <1>7 DEF DeadLetter, WorkerKnows
<1>8. CASE RunAdapter
  BY <1>1, <1>4, <1>5, <1>6, <1>7, <1>8 DEF RunAdapter
<1>9. CASE Deliver
  BY <1>1, <1>4, <1>5, <1>6, <1>7, <1>9 DEF Deliver
<1>10. CASE Ack \/ Move \/ Interrupt
  BY <1>10 DEF Ack, Move, Interrupt, WorkerKnows
<1>11. CASE ReadNew
  BY <1>1, <1>4, <1>5, <1>6, <1>7, <1>11 DEF ReadNew
<1>12. CASE \E c \in SUBSET redis.pel : ClaimStale(c)
  BY <1>1, <1>4, <1>5, <1>6, <1>7, <1>12 DEF ClaimStale
<1>13. ASSUME UNCHANGED workerVars, ~ (Begin \/ Complete \/ FailAttempt \/ DeadLetter)
       PROVE  WorkerKnows'
  BY <1>1, <1>13
<1> QED
  BY <1>2, <1>4, <1>5, <1>6, <1>7, <1>8, <1>9, <1>10, <1>11, <1>12, <1>13, WorkerSteps
  DEF WorkerStep

\* A delivery leaves the stream only when the worker is done with its entry.
LEMMA StreamKept ==
  ASSUME Typed, [Next]_vars, NEW d \in Updates, InStream(redis, d),
         (Ack \/ Move) => d # Current
  PROVE  InStream(redis', d)
<1>1. redis \in Queue(Updates)
  BY DEF Typed, WorkerTyped
<1>2. CASE UNCHANGED redis
  BY <1>2
<1>3. ASSUME NEW q \in Queue(Updates), NEW v \in Updates, q = Add(redis, v)
      PROVE  InStream(q, d)
  BY <1>1, <1>3, AddEffect
<1>4. ASSUME NEW a \in Ingesters, AppendUpdate(a) PROVE InStream(redis', d)
  <2>1. PICK v \in Updates : redis' = AppendOnce(redis, v)
    BY <1>4, IngestFields DEF AppendUpdate, Typed, NotIngesting
  <2>2. CASE redis' = redis
    BY <2>2
  <2>3. CASE redis' = Add(redis, v)
    BY <1>3, <2>3, QueueKeeps
  <2> QED BY <2>1, <2>2, <2>3 DEF AppendOnce
<1>5. CASE ReadNew
  <2>1. BatchSize \in Nat /\ redis' = ReadGroup(redis, BatchSize)
    BY <1>5, ConstantsAssumption DEF ReadNew
  <2>2. redis'.stream = redis.stream /\ Live(redis') = Live(redis)
    BY <1>1, <2>1, ReadGroupEffect
  <2> QED BY <2>2 DEF InStream
<1>6. CASE Ack
  <2>1. redis' = Acknowledge(redis, entry) /\ d # redis.stream[entry]
    BY <1>6 DEF Ack, Current
  <2> QED BY <1>1, <2>1, AcknowledgeEffect
<1>7. CASE Move
  <2>1. redis' = MoveToDLQ(redis, entry, Current) /\ Current \in Updates /\ d # redis.stream[entry]
    BY <1>7, CurrentType DEF Move, Current
  <2> QED BY <1>1, <2>1, MoveToDLQEffect
<1>8. ASSUME NEW o \in Operators, Replay(o) PROVE InStream(redis', d)
  <2>1. PICK v \in Updates, g \in Nat : redis' = ReplayFromDLQ(redis, v, g)
    BY <1>8 DEF Replay, Typed, OperatorsTyped, OperatorState, Idle, Job
  <2>2. CASE <<v, g>> \in redis.replayIndex
    BY <2>1, <2>2 DEF ReplayFromDLQ
  <2>3. CASE <<v, g>> \notin redis.replayIndex
    BY <1>1, <2>1, <2>3, ReplayEffect
  <2> QED BY <2>2, <2>3
<1> QED BY <1>2, <1>4, <1>5, <1>6, <1>7, <1>8, QueueSteps

\* A dead letter is what the operators see, and Redis has it.
LEMMA DeadLettersKept ==
  ASSUME Typed, DeadLettersAgree, WorkerKnows, [Next]_vars
  PROVE  DeadLettersAgree'
<1>0. /\ status \in [Updates -> Status] /\ dlq \in [Updates -> DLQState]
      /\ redis \in Queue(Updates)
  BY DEF Typed, RowsTyped, WorkerTyped
<1> DEFINE Known(d) == dlq[d] = "active" <=> status[d] = "DLQ"
           Reachable(q, d) == d \in q.dlqIndex \/ InStream(q, d)
<1>1. \A d \in Updates : Known(d) /\ (status[d] = "DLQ" => Reachable(redis, d))
  BY DEF DeadLettersAgree, InStream
<1>2. SUFFICES ASSUME NEW d \in Updates
               PROVE  Known(d)' /\ (status'[d] = "DLQ" => Reachable(redis', d))
  BY DEF DeadLettersAgree, InStream
\* Rows: a row becomes dead, or ceases to be, together with its dead letter.
<1>3. Known(d)' /\ (status'[d] = "DLQ" => status[d] = "DLQ" \/ (DeadLetter /\ d = Current))
  <2>1. CASE UNCHANGED <<status, dlq, replays>>
    BY <1>1, <2>1
  <2>2. ASSUME NEW a \in Ingesters, Prepare(a)
        PROVE  /\ dlq' = dlq
               /\ status'[d] = status[d] \/ (status[d] # "DLQ" /\ status'[d] # "DLQ")
    <3>1. ~ (Begin \/ Complete \/ FailAttempt \/ DeadLetter)
      <4>1. pc' = pc
        BY <2>2 DEF Prepare, workerVars
      <4> QED BY <4>1 DEF Begin, Complete, FailAttempt, DeadLetter
    <3>2. status[d] # "none" => status'[d] = status[d]
      <4>1. ingest[a].u \in Updates
        BY <2>2, IngestFields DEF Typed, Prepare, NotIngesting
      <4>2. Rows(ingest[a].u) = {} => status[ingest[a].u] = "none"
        BY <4>1 DEF Rows
      <4> QED BY <1>0, <2>2, <4>1, <4>2 DEF Prepare
    <3>3. status[d] = "none" => status'[d] # "DLQ"
      BY <3>1, OthersKeepKnowledge
    <3> QED BY <2>2, <3>2, <3>3 DEF Prepare, dlqVars
  <2>3. CASE Begin \/ Complete \/ FailAttempt
    <3>1. Current \in Updates /\ status[Current] # "DLQ" /\ dlq' = dlq
      BY <2>3, CurrentType DEF Begin, Complete, FailAttempt, WorkerKnows, Working, dlqVars
    <3>2. PICK s \in {"PENDING", "SUCCEEDED", "RETRYING"} :
            status' = [status EXCEPT ![Current] = s]
      BY <2>3 DEF Begin, Complete, FailAttempt
    <3> QED BY <1>0, <1>1, <3>1, <3>2
  <2>4. CASE DeadLetter
    <3>1. Current \in Updates
      BY <2>4, CurrentType DEF DeadLetter
    <3> QED BY <1>0, <1>1, <2>4, <3>1 DEF DeadLetter
  <2>5. ASSUME NEW o \in Operators, PrepareReplay(o)
        PROVE  Known(d)' /\ (status'[d] = "DLQ" => status[d] = "DLQ")
    BY <1>0, <1>1, <2>5 DEF PrepareReplay, dlqVars
  <2>6. ASSUME NEW o \in Operators, CompleteReplay(o)
        PROVE  Known(d)' /\ (status'[d] = "DLQ" => status[d] = "DLQ")
    <3>1. action[o].d \in Updates
      BY <2>6 DEF Typed, OperatorsTyped, OperatorState, CompleteReplay, Idle, Job
    <3> QED BY <1>0, <1>1, <2>6, <3>1 DEF CompleteReplay
  <2>7. ASSUME NEW v \in Updates, Discard(v)
        PROVE  Known(d)' /\ (status'[d] = "DLQ" => status[d] = "DLQ")
    BY <1>0, <1>1, <2>7 DEF Discard
  <2> QED BY <1>1, <2>1, <2>2, <2>3, <2>4, <2>5, <2>6, <2>7, StatusSteps
\* Redis: what is dead stays on the DLQ or gets an entry, and is not acknowledged.
<1>4. ASSUME status[d] = "DLQ" PROVE Reachable(redis', d)
  <2>1. ASSUME d \in redis.dlqIndex PROVE Reachable(redis', d)
    <3>1. CASE UNCHANGED redis
      BY <2>1, <3>1
    <3>2. ASSUME NEW a \in Ingesters, AppendUpdate(a) PROVE Reachable(redis', d)
      <4>1. PICK v \in Updates : redis' = AppendOnce(redis, v)
        BY <3>2, IngestFields DEF AppendUpdate, Typed, NotIngesting
      <4> QED BY <1>0, <2>1, <4>1, AppendFields
    <3>3. CASE ReadNew
      <4>1. BatchSize \in Nat /\ redis' = ReadGroup(redis, BatchSize)
        BY <3>3, ConstantsAssumption DEF ReadNew
      <4> QED BY <1>0, <2>1, <4>1, ReadGroupEffect
    <3>4. CASE Ack
      BY <1>0, <2>1, <3>4, AcknowledgeEffect DEF Ack
    <3>5. CASE Move
      <4>1. Current \in Updates
        BY <3>5, CurrentType DEF Move
      <4> QED BY <1>0, <2>1, <3>5, <4>1, MoveToDLQEffect DEF Move
    <3>6. ASSUME NEW o \in Operators, Replay(o) PROVE Reachable(redis', d)
      <4>1. PICK v \in Updates, g \in Nat : redis' = ReplayFromDLQ(redis, v, g)
        BY <3>6 DEF Replay, Typed, OperatorsTyped, OperatorState, Idle, Job
      <4>2. CASE <<v, g>> \in redis.replayIndex
        BY <2>1, <4>1, <4>2 DEF ReplayFromDLQ
      <4>3. CASE <<v, g>> \notin redis.replayIndex
        <5>1. redis'.dlqIndex = redis.dlqIndex \ {v} /\ InStream(redis', v)
          <6>1. redis'.dlqIndex = redis.dlqIndex \ {v}
            BY <1>0, <4>1, <4>3, ReplayFields
          <6>2. InStream(redis', v)
            BY <1>0, <4>1, <4>3, ReplayEffect
          <6> QED BY <6>1, <6>2
        <5> QED BY <2>1, <5>1
      <4> QED BY <4>2, <4>3
    <3> QED BY <3>1, <3>2, <3>3, <3>4, <3>5, <3>6, QueueSteps
  <2>2. ASSUME InStream(redis, d) PROVE Reachable(redis', d)
    <3>1. CASE (Ack \/ Move) => d # Current
      BY <2>2, <3>1, StreamKept
    <3>2. CASE Ack /\ d = Current
      BY <1>4, <3>2 DEF Ack, WorkerKnows, Rejected
    <3>3. CASE Move /\ d = Current
      BY <1>0, <3>3, MoveToDLQEffect DEF Move
    <3> QED BY <3>1, <3>2, <3>3
  <2> QED BY <1>1, <1>4, <2>1, <2>2
<1>5. ASSUME DeadLetter, d = Current PROVE Reachable(redis', d)
  <2>1. Current \in Updates /\ entry \in Live(redis)
    BY <1>5, CurrentType DEF DeadLetter
  <2>2. InStream(redis, d)
    BY <1>5, <2>1 DEF InStream, Current
  <2>3. redis' = redis
    BY <1>5 DEF DeadLetter
  <2> QED BY <2>2, <2>3
<1> QED BY <1>3, <1>4, <1>5

\* A callback query gets one row: who finds a row makes none.
LEMMA OneRowKept ==
  ASSUME Typed, Stored, DeadLettersAgree, OneRow, [Next]_vars
  PROVE  OneRow'
<1>0. status \in [Updates -> Status]
  BY DEF Typed, RowsTyped
<1>1. ASSUME \A v \in Updates : status'[v] # "none" => status[v] # "none"
      PROVE  OneRow'
  BY <1>1 DEF OneRow
<1>2. CASE UNCHANGED status
  BY <1>1, <1>2
<1>3. ASSUME NEW a \in Ingesters, Prepare(a) PROVE OneRow'
  <2> DEFINE w == ingest[a].u
  <2>1. w \in Updates
    BY <1>3, IngestFields DEF Typed, Prepare, NotIngesting
  <2>2. CASE Rows(w) # {}
    BY <1>2, <1>3, <2>2 DEF Prepare
  <2>3. CASE Rows(w) = {}
    <3>1. \A v \in Updates : v # w => status'[v] = status[v]
      BY <1>0, <1>3, <2>1, <2>3 DEF Prepare
    <3>2. \A v \in Updates :
            status[v] # "none" => ~(CallbackOf[w] # NoCallback /\ CallbackOf[v] = CallbackOf[w])
      BY <2>3 DEF Rows
    <3> HIDE DEF w
    <3> QED BY <2>1, <3>1, <3>2 DEF OneRow
  <2> QED BY <2>2, <2>3
<1>4. CASE Begin \/ Complete \/ FailAttempt \/ DeadLetter
  <2>1. Current \in Updates
    BY <1>4, CurrentType DEF Begin, Complete, FailAttempt, DeadLetter
  <2>2. PICK x : status' = [status EXCEPT ![Current] = x]
    BY <1>4 DEF Begin, Complete, FailAttempt, DeadLetter
  <2>3. status[Current] # "none"
    BY <1>4, CurrentType DEF Begin, Complete, FailAttempt, DeadLetter, Stored, Current
  <2>4. \A v \in Updates : v # Current => status'[v] = status[v]
    BY <1>0, <2>1, <2>2
  <2> QED BY <1>1, <2>1, <2>3, <2>4
<1>5. ASSUME NEW o \in Operators, PrepareReplay(o) PROVE OneRow'
  <2>1. \A v \in Updates : status'[v] = status[v] \/ dlq[v] = "active"
    BY <1>0, <1>5 DEF PrepareReplay
  <2> QED BY <1>1, <2>1 DEF DeadLettersAgree
<1>6. ASSUME NEW o \in Operators, CompleteReplay(o) PROVE OneRow'
  <2>1. \A v \in Updates : status'[v] = status[v] \/ status[v] = "REPLAY_PENDING"
    BY <1>0, <1>6 DEF CompleteReplay
  <2> QED BY <1>1, <2>1
<1>7. ASSUME NEW d \in Updates, Discard(d) PROVE OneRow'
  BY <1>0, <1>1, <1>7 DEF Discard
<1> QED BY <1>2, <1>3, <1>4, <1>5, <1>6, <1>7, StatusSteps

------------------------------------------------------------------------------
(* Rows stay, and how many entries there are *)

\* Rows are never deleted.
LEMMA RowsStay ==
  ASSUME Typed, DeadLettersAgree, [Next]_vars, NEW d \in Updates, status[d] # "none"
  PROVE  status'[d] # "none"
<1>1. CASE Begin \/ Complete \/ FailAttempt \/ DeadLetter
  <2>1. PICK x \in Updates, s \in {"PENDING", "SUCCEEDED", "RETRYING", "DLQ"} :
          status' = [status EXCEPT ![x] = s]
    BY <1>1, CurrentType DEF Begin, Complete, FailAttempt, DeadLetter
  <2> QED BY <2>1 DEF Typed, RowsTyped
<1>2. CASE ~ (Begin \/ Complete \/ FailAttempt \/ DeadLetter)
  BY <1>2, OthersKeepKnowledge
<1> QED BY <1>1, <1>2

\* Entries, dead letters and replays are of deliveries that have a row.
LEMMA StoredKept ==
  ASSUME Typed, Stored, DeadLettersAgree, [Next]_vars
  PROVE  Stored'
<1>0. /\ status \in [Updates -> Status] /\ dlq \in [Updates -> DLQState]
      /\ redis \in Queue(Updates) /\ ingest \in [Ingesters -> IngestState]
      /\ action \in [Operators -> OperatorState]
  BY DEF Typed, RowsTyped, WorkerTyped, IngestTyped, OperatorsTyped
<1>1. \A d \in Updates : status[d] # "none" => status'[d] # "none"
  BY RowsStay
<1>2. \A e \in Entries(redis') : status'[redis'.stream[e]] # "none"
  <2>1. \A e \in Entries(redis) : status'[redis.stream[e]] # "none"
    BY <1>0, <1>1, QueueFields DEF Stored
  <2>2. ASSUME redis'.stream = redis.stream
        PROVE  \A e \in Entries(redis') : status'[redis'.stream[e]] # "none"
    BY <2>1, <2>2 DEF Entries
  <2>3. ASSUME NEW d \in Updates, status'[d] # "none", AddsOnly(redis, redis', d)
        PROVE  \A e \in Entries(redis') : status'[redis'.stream[e]] # "none"
    BY <2>1, <2>3 DEF AddsOnly
  <2>4. ASSUME NEW a \in Ingesters, AppendUpdate(a)
        PROVE  \A e \in Entries(redis') : status'[redis'.stream[e]] # "none"
    <3>1. PICK d \in Updates : redis' = AppendOnce(redis, d) /\ status[d] # "none"
      BY <2>4, IngestFields DEF AppendUpdate, Typed, NotIngesting, Stored
    <3> QED BY <1>0, <1>1, <2>3, <3>1, AppendOnceType
  <2>5. CASE ReadNew
    <3>1. BatchSize \in Nat /\ redis' = ReadGroup(redis, BatchSize)
      BY <2>5, ConstantsAssumption DEF ReadNew
    <3> QED BY <1>0, <2>2, <3>1, ReadGroupType
  <2>6. CASE Ack
    BY <1>0, <2>2, <2>6, AcknowledgeType DEF Ack
  <2>7. CASE Move
    <3>1. Current \in Updates
      BY <2>7, CurrentType DEF Move
    <3> QED BY <1>0, <2>2, <2>7, <3>1, MoveToDLQType DEF Move
  <2>8. ASSUME NEW o \in Operators, Replay(o)
        PROVE  \A e \in Entries(redis') : status'[redis'.stream[e]] # "none"
    <3>1. PICK d \in Updates, g \in Nat :
            redis' = ReplayFromDLQ(redis, d, g) /\ status[d] # "none"
      BY <1>0, <2>8 DEF Replay, OperatorState, Idle, Job, Stored
    <3> QED BY <1>0, <1>1, <2>3, <3>1, ReplayFromDLQType
  <2>9. CASE UNCHANGED redis
    BY <2>2, <2>9
  <2> QED BY <2>4, <2>5, <2>6, <2>7, <2>8, <2>9, QueueSteps
<1>3. \A d \in Updates : dlq'[d] # "none" => status'[d] # "none"
  <2>1. CASE UNCHANGED <<status, dlq, replays>>
    BY <2>1 DEF Stored
  <2>2. ASSUME dlq' = dlq PROVE \A d \in Updates : dlq'[d] # "none" => status'[d] # "none"
    BY <1>1, <2>2 DEF Stored
  <2>3. CASE (\E a \in Ingesters : Prepare(a)) \/ Begin \/ Complete \/ FailAttempt
    BY <2>2, <2>3 DEF Prepare, Begin, Complete, FailAttempt, dlqVars
  <2>4. ASSUME NEW x \in Updates, \A d \in Updates : d # x => dlq'[d] = dlq[d],
               status[x] # "none"
        PROVE  \A d \in Updates : dlq'[d] # "none" => status'[d] # "none"
    BY <1>1, <2>4 DEF Stored
  <2>5. CASE DeadLetter
    <3>1. Current \in Updates /\ status[Current] # "none"
      BY <2>5, CurrentType DEF DeadLetter, Stored, Current
    <3> QED BY <1>0, <2>4, <2>5, <3>1 DEF DeadLetter
  <2>6. ASSUME NEW o \in Operators, PrepareReplay(o)
        PROVE  \A d \in Updates : dlq'[d] # "none" => status'[d] # "none"
    <3>1. CASE dlq' = dlq
      BY <2>2, <3>1
    <3>2. ASSUME NEW x \in Updates, dlq[x] = "active",
                 dlq' = [dlq EXCEPT ![x] = "replay_pending"]
          PROVE  \A d \in Updates : dlq'[d] # "none" => status'[d] # "none"
      BY <1>0, <2>4, <3>2 DEF Stored
    <3> QED BY <2>6, <3>1, <3>2 DEF PrepareReplay, dlqVars
  <2>7. ASSUME NEW o \in Operators, CompleteReplay(o)
        PROVE  \A d \in Updates : dlq'[d] # "none" => status'[d] # "none"
    <3>1. action[o].d \in Updates /\ status[action[o].d] # "none"
      BY <1>0, <2>7 DEF OperatorState, CompleteReplay, Idle, Job, Stored
    <3> QED BY <1>0, <2>4, <2>7, <3>1 DEF CompleteReplay
  <2>8. ASSUME NEW x \in Updates, Discard(x)
        PROVE  \A d \in Updates : dlq'[d] # "none" => status'[d] # "none"
    BY <1>0, <2>4, <2>8 DEF Discard, Stored
  <2> QED BY <2>1, <2>3, <2>5, <2>6, <2>7, <2>8, StatusSteps
<1>4. \A a \in Ingesters :
        ingest'[a].pc \in {"append", "record"} => status'[ingest'[a].row] # "none"
  <2>2. CASE UNCHANGED ingestVars
    BY <1>1, <2>2, IngestFields DEF Typed, Stored, NotIngesting, ingestVars
  <2>3. ASSUME NEW p \in Pollers, Fetch(p)
        PROVE  \A a \in Ingesters :
                 ingest'[a].pc \in {"append", "record"} => status'[ingest'[a].row] # "none"
    <3>1. \A a \in Ingesters : ingest'[a] = ingest[a] \/ ingest'[a].pc = "prepare"
      BY <1>0, <2>3 DEF Fetch, Ingesting
    <3> QED BY <2>3, <3>1 DEF Fetch, Stored, rowVars
  <2>4. ASSUME NEW h \in Hooks, Receive(h)
        PROVE  \A a \in Ingesters :
                 ingest'[a].pc \in {"append", "record"} => status'[ingest'[a].row] # "none"
    <3>1. \A a \in Ingesters : ingest'[a] = ingest[a] \/ ingest'[a].pc = "prepare"
      BY <1>0, <2>4 DEF Receive, Ingesting
    <3> QED BY <2>4, <3>1 DEF Receive, Stored, rowVars
  <2>5. ASSUME NEW b \in Ingesters, Prepare(b)
        PROVE  \A a \in Ingesters :
                 ingest'[a].pc \in {"append", "record"} => status'[ingest'[a].row] # "none"
    <3>1. PICK p \in IngestPC, row \in Updates :
            /\ ingest' = [ingest EXCEPT ![b] = Ingesting(p, ingest[b].u, ingest[b].last, row)]
            /\ status'[row] # "none"
      <4> DEFINE u == ingest[b].u
                 row == IF Rows(u) = {} THEN u ELSE CHOOSE v \in Rows(u) : TRUE
      <4>1. ingest[b] # NotIngesting
        BY <2>5 DEF Prepare, NotIngesting
      <4>2. u \in Updates
        BY <4>1, IngestFields DEF Typed
      <4>3. row \in Updates /\ status'[row] # "none"
        <5>1. CASE Rows(u) = {}
          <6>1. PICK r \in Routes : status' = [status EXCEPT ![u] = StatusFor(r)]
            BY <2>5, <5>1 DEF Prepare
          <6>2. StatusFor(r) # "none"
            BY DEF StatusFor
          <6> QED BY <1>0, <4>2, <5>1, <6>1, <6>2
        <5>2. CASE Rows(u) # {}
          <6>1. row \in Rows(u) /\ status' = status
            BY <2>5, <5>2 DEF Prepare
          <6> QED BY <6>1 DEF Rows
        <5> QED BY <5>1, <5>2
      <4>4. ingest' = [ingest EXCEPT ![b] =
                         Ingesting(IF NeedsEntry(row) THEN "append" ELSE "confirm",
                                   u, ingest[b].last, row)]
        BY <2>5 DEF Prepare
      <4>5. (IF NeedsEntry(row) THEN "append" ELSE "confirm") \in IngestPC
        BY DEF IngestPC
      <4> HIDE DEF row
      <4> QED BY <4>3, <4>4, <4>5
    <3>2. \A a \in Ingesters :
            \/ ingest'[a] = ingest[a]
            \/ ingest'[a] = Ingesting(p, ingest[b].u, ingest[b].last, row)
      BY <1>0, <3>1
    <3>3. Ingesting(p, ingest[b].u, ingest[b].last, row).row = row
      BY DEF Ingesting
    <3>4. \A a \in Ingesters :
            ingest[a].pc \in {"append", "record"} => status'[ingest[a].row] # "none"
      BY <1>1, IngestFields DEF Typed, Stored, NotIngesting
    <3> QED BY <3>1, <3>2, <3>3, <3>4
  <2>6. ASSUME NEW b \in Ingesters, AppendUpdate(b)
        PROVE  \A a \in Ingesters :
                 ingest'[a].pc \in {"append", "record"} => status'[ingest'[a].row] # "none"
    <3>1. /\ ingest' = [ingest EXCEPT ![b] = [ingest[b] EXCEPT !.pc = "record"]]
          /\ status' = status /\ ingest[b].pc = "append"
      BY <2>6 DEF AppendUpdate, rowVars
    <3>2. [ingest[b] EXCEPT !.pc = "record"].row = ingest[b].row
      BY <1>0, <3>1 DEF IngestState, NotIngesting
    <3>3. \A a \in Ingesters : ingest'[a] = ingest[a] \/
            (a = b /\ ingest'[a].row = ingest[a].row)
      BY <1>0, <3>1, <3>2
    <3> QED BY <3>1, <3>3 DEF Stored
  <2>7. ASSUME NEW b \in Ingesters, Record(b) \/ Confirm(b) \/ Fail(b) \/ StopIngest(b)
        PROVE  \A a \in Ingesters :
                 ingest'[a].pc \in {"append", "record"} => status'[ingest'[a].row] # "none"
    <3>1. status' = status
      BY <2>7 DEF Record, Confirm, Fail, StopIngest, rowVars
    <3>2. PICK i : ingest' = [ingest EXCEPT ![b] = i] /\ i.pc \in {"idle", "prepare", "confirm"}
      <4>1. CASE Record(b)
        <5>1. ingest' = [ingest EXCEPT ![b] = [ingest[b] EXCEPT !.pc = "confirm"]]
          BY <4>1 DEF Record
        <5>2. [ingest[b] EXCEPT !.pc = "confirm"].pc = "confirm"
          BY <1>0, <4>1 DEF Record, IngestState, NotIngesting
        <5> QED BY <5>1, <5>2
      <4>2. CASE Confirm(b) \/ Fail(b) \/ StopIngest(b)
        BY <4>2 DEF Confirm, Fail, StopIngest, NotIngesting, Ingesting
      <4> QED BY <2>7, <4>1, <4>2
    <3>3. \A a \in Ingesters : ingest'[a] = ingest[a] \/ ingest'[a].pc \in {"idle", "prepare", "confirm"}
      BY <1>0, <3>2
    <3> QED BY <3>1, <3>3 DEF Stored
  <2> QED BY <2>2, <2>3, <2>4, <2>5, <2>6, <2>7, IngestSteps DEF IngestStep
<1>5. \A o \in Operators : action'[o] # Idle => status'[action'[o].d] # "none"
  <2>1. ASSUME NEW b \in Operators, NEW i, action' = [action EXCEPT ![b] = i],
               i # Idle => i.d \in Updates /\ status[i.d] # "none"
        PROVE  \A o \in Operators : action'[o] # Idle => status'[action'[o].d] # "none"
    <3>1. \A o \in Operators : action'[o] = action[o] \/ action'[o] = i
      BY <1>0, <2>1
    <3>2. \A o \in Operators :
            action[o] # Idle => action[o].d \in Updates /\ status[action[o].d] # "none"
      BY <1>0 DEF OperatorState, Stored
    <3> QED BY <1>1, <2>1, <3>1, <3>2
  <2>2. CASE UNCHANGED action
    <3>1. \A o \in Operators :
            action[o] # Idle => action[o].d \in Updates /\ status[action[o].d] # "none"
      BY <1>0 DEF OperatorState, Stored
    <3> QED BY <1>1, <2>2, <3>1
  <2>3. ASSUME NEW b \in Operators, PrepareReplay(b)
        PROVE  \A o \in Operators : action'[o] # Idle => status'[action'[o].d] # "none"
    <3>1. PICK d \in Updates : /\ dlq[d] # "none"
                               /\ \E g : action' = [action EXCEPT ![b] = Job("replay", d, g)]
      BY <2>3 DEF PrepareReplay
    <3>2. PICK g : action' = [action EXCEPT ![b] = Job("replay", d, g)]
      BY <3>1
    <3>3. Job("replay", d, g).d = d
      BY DEF Job
    <3> QED BY <2>1, <3>1, <3>2, <3>3 DEF Stored
  <2>4. ASSUME NEW b \in Operators, Replay(b)
        PROVE  \A o \in Operators : action'[o] # Idle => status'[action'[o].d] # "none"
    <3>1. /\ action' = [action EXCEPT ![b] = [action[b] EXCEPT !.pc = "complete"]]
          /\ action[b] # Idle
      BY <2>4 DEF Replay, Idle, Job
    <3>2. action[b] \in [pc : {"replay", "complete"}, d : Updates, gen : Nat]
      BY <1>0, <3>1 DEF OperatorState
    <3>3. [action[b] EXCEPT !.pc = "complete"].d = action[b].d
      BY <3>2
    <3> QED BY <2>1, <3>1, <3>2, <3>3 DEF Stored
  <2>5. ASSUME NEW b \in Operators, CompleteReplay(b) \/ AbandonReplay(b)
        PROVE  \A o \in Operators : action'[o] # Idle => status'[action'[o].d] # "none"
    BY <2>1, <2>5 DEF CompleteReplay, AbandonReplay
  <2> QED BY <2>2, <2>3, <2>4, <2>5, OperatorSteps
<1> QED BY <1>2, <1>3, <1>4, <1>5 DEF Stored

\* Generations only grow, and an operator replays the one there is.
LEMMA ReplayingKept ==
  ASSUME Typed, Replaying, [Next]_vars
  PROVE  /\ Replaying'
         /\ \A d \in Updates : replays'[d] \in Nat /\ replays[d] <= replays'[d]
<1>0. /\ dlq \in [Updates -> DLQState] /\ replays \in [Updates -> Nat]
      /\ action \in [Operators -> OperatorState]
  BY DEF Typed, RowsTyped, OperatorsTyped
<1> DEFINE Numbered ==
             /\ \A d \in Updates : replays'[d] \in Nat /\ replays[d] <= replays'[d]
             /\ \A d \in Updates : dlq'[d] = "replay_pending" => replays'[d] # 0
           Held(o) == action'[o] # Idle => action'[o].gen \in 1 .. replays'[action'[o].d]
<1>1. Numbered
  <2>1. ASSUME replays' = replays,
               \A d \in Updates : dlq'[d] = "replay_pending" => dlq[d] = "replay_pending"
        PROVE  Numbered
    BY <1>0, <2>1 DEF Replaying
  <2>2. CASE UNCHANGED <<status, dlq, replays>>
    BY <2>1, <2>2
  <2>3. CASE (\E a \in Ingesters : Prepare(a)) \/ Begin \/ Complete \/ FailAttempt
    BY <2>1, <2>3 DEF Prepare, Begin, Complete, FailAttempt, dlqVars
  <2>4. CASE DeadLetter
    BY <1>0, <2>1, <2>4 DEF DeadLetter
  <2>5. ASSUME NEW o \in Operators, PrepareReplay(o) PROVE Numbered
    <3>1. CASE UNCHANGED dlqVars
      BY <2>1, <3>1 DEF dlqVars
    <3>2. ASSUME NEW d \in Updates, dlq' = [dlq EXCEPT ![d] = "replay_pending"],
                 replays' = [replays EXCEPT ![d] = replays[d] + 1]
          PROVE  Numbered
      BY <1>0, <3>2 DEF Replaying
    <3> QED BY <2>5, <3>1, <3>2 DEF PrepareReplay
  <2>6. ASSUME NEW o \in Operators, CompleteReplay(o) PROVE Numbered
    BY <1>0, <2>1, <2>6 DEF CompleteReplay
  <2>7. ASSUME NEW d \in Updates, Discard(d) PROVE Numbered
    BY <1>0, <2>1, <2>7 DEF Discard
  <2> QED BY <2>2, <2>3, <2>4, <2>5, <2>6, <2>7, StatusSteps
<1>2. \A o \in Operators : Held(o)
  <2>1. \A o \in Operators :
          action[o] # Idle => /\ action[o].d \in Updates /\ action[o].gen \in Nat
                              /\ action[o].gen \in 1 .. replays'[action[o].d]
    BY <1>0, <1>1 DEF OperatorState, Replaying
  <2>2. ASSUME NEW b \in Operators, NEW i, action' = [action EXCEPT ![b] = i],
               i # Idle => i.gen \in 1 .. replays'[i.d]
        PROVE  \A o \in Operators : Held(o)
    <3>1. \A o \in Operators : action'[o] = action[o] \/ action'[o] = i
      BY <1>0, <2>2
    <3> QED BY <2>1, <2>2, <3>1
  <2>3. CASE UNCHANGED action
    BY <2>1, <2>3
  <2>4. ASSUME NEW b \in Operators, PrepareReplay(b) PROVE \A o \in Operators : Held(o)
    <3>1. PICK d \in Updates : action' = [action EXCEPT ![b] = Job("replay", d, replays'[d])]
                               /\ replays'[d] # 0
      BY <1>0, <1>1, <2>4 DEF PrepareReplay, dlqVars, Replaying
    <3>2. Job("replay", d, replays'[d]).d = d /\ Job("replay", d, replays'[d]).gen = replays'[d]
      BY DEF Job
    <3>3. replays'[d] \in 1 .. replays'[d]
      BY <1>1, <3>1
    <3> QED BY <2>2, <3>1, <3>2, <3>3
  <2>5. ASSUME NEW b \in Operators, Replay(b) PROVE \A o \in Operators : Held(o)
    <3>1. /\ action' = [action EXCEPT ![b] = [action[b] EXCEPT !.pc = "complete"]]
          /\ action[b] # Idle
      BY <2>5 DEF Replay, Idle, Job
    <3>2. action[b] \in [pc : {"replay", "complete"}, d : Updates, gen : Nat]
      BY <1>0, <3>1 DEF OperatorState
    <3>3. /\ [action[b] EXCEPT !.pc = "complete"].d = action[b].d
          /\ [action[b] EXCEPT !.pc = "complete"].gen = action[b].gen
      BY <3>2
    <3> QED BY <2>1, <2>2, <3>1, <3>3
  <2>6. ASSUME NEW b \in Operators, CompleteReplay(b) \/ AbandonReplay(b) PROVE \A o \in Operators : Held(o)
    BY <2>2, <2>6 DEF CompleteReplay, AbandonReplay
  <2> QED BY <2>3, <2>4, <2>5, <2>6, OperatorSteps
<1> QED BY <1>1, <1>2 DEF Replaying

\* The append script adds a first entry, the replay script one per generation.
LEMMA CountKept ==
  ASSUME Typed, Replaying, Counted, [Next]_vars
  PROVE  Counted'
<1>0. redis \in Queue(Updates) /\ redis' \in Queue(Updates) /\ replays \in [Updates -> Nat]
  BY QueueKeeps DEF Typed, RowsTyped, WorkerTyped
<1>1. \A d \in Updates : replays'[d] \in Nat /\ replays[d] <= replays'[d]
  BY ReplayingKept
<1> SUFFICES ASSUME NEW d \in Updates, CountedBy(redis, d, replays[d])
             PROVE  CountedBy(redis', d, replays[d])
  <2>1. \A d \in Updates : replays[d] \in Nat /\ CountedBy(redis, d, replays[d])
    BY <1>0 DEF Counted
  <2> QED BY <1>1, <2>1, CountedLater DEF Counted
<1>2. replays[d] \in Nat
  BY <1>0
<1>3. ASSUME redis'.stream = redis.stream, redis'.index = redis.index,
             redis'.replayIndex = redis.replayIndex
      PROVE  CountedBy(redis', d, replays[d])
  BY <1>3, SameCounted DEF EntriesOf, Entries, Generations
<1>4. CASE UNCHANGED redis
  BY <1>4
<1>5. ASSUME NEW a \in Ingesters, AppendUpdate(a) PROVE CountedBy(redis', d, replays[d])
  <2>1. PICK v \in Updates : redis' = AppendOnce(redis, v)
    BY <1>5, IngestFields DEF AppendUpdate, Typed, NotIngesting
  <2> QED BY <1>0, <1>2, <2>1, AppendCounted
<1>6. CASE ReadNew
  <2>1. BatchSize \in Nat /\ redis' = ReadGroup(redis, BatchSize)
    BY <1>6, ConstantsAssumption DEF ReadNew
  <2> QED BY <1>0, <1>3, <2>1, ReadGroupEffect
<1>7. CASE Ack
  BY <1>0, <1>3, <1>7, AcknowledgeEffect DEF Ack
<1>8. CASE Move
  <2>1. Current \in Updates
    BY <1>8, CurrentType DEF Move
  <2> QED BY <1>0, <1>3, <1>8, <2>1, MoveToDLQEffect DEF Move
<1>9. ASSUME NEW o \in Operators, Replay(o) PROVE CountedBy(redis', d, replays[d])
  <2>1. PICK v \in Updates, g \in Nat :
          redis' = ReplayFromDLQ(redis, v, g) /\ g \in 1 .. replays[v]
    BY <1>9 DEF Replay, Typed, OperatorsTyped, OperatorState, Idle, Job, Replaying
  <2> QED BY <1>0, <1>2, <2>1, ReplayCounted
<1> QED BY <1>4, <1>5, <1>6, <1>7, <1>8, <1>9, QueueSteps

------------------------------------------------------------------------------
(* The theorems *)

\* Nothing is stored, waiting or held at first.
LEMMA InboundInit == Init => InboundInv
<1> SUFFICES ASSUME Init PROVE InboundInv
  OBVIOUS
<1>1. EmptyQueue(Updates) \in Queue(Updates)
  BY EmptyQueueType
<1>2. /\ redis = EmptyQueue(Updates) /\ redis.pel = {} /\ Entries(redis) = {}
      /\ redis.replayIndex = {}
  BY DEF Init, EmptyQueue, Entries
<1>3. RowsTyped
  BY DEF Init, RowsTyped, Status, DLQState
<1>4. IngestTyped
  BY ConstantsAssumption DEF Init, IngestTyped, IngestState
<1>5. WorkerTyped /\ WorkerKnows
  BY <1>1, <1>2 DEF Init, WorkerTyped, WorkerKnows, Working
<1>6. OperatorsTyped
  BY ConstantsAssumption DEF Init, OperatorsTyped, OperatorState
<1>7. Stored
  <2>1. NotIngesting.pc \notin {"append", "record"}
    BY DEF NotIngesting
  <2> QED BY <1>2, <2>1 DEF Init, Stored
<1>8. OneRow /\ DeadLettersAgree /\ Replaying
  BY DEF Init, OneRow, DeadLettersAgree, Replaying
<1>9. Counted
  <2>1. \A d \in Updates : EntriesOf(redis, d) = {} /\ Generations(redis, d) = {}
    BY <1>2 DEF EntriesOf, Generations
  <2> QED BY <2>1, FS_EmptySet DEF Counted, CountedBy
<1> QED BY <1>3, <1>4, <1>5, <1>6, <1>7, <1>8, <1>9 DEF InboundInv, Typed

\* Every step keeps it.
LEMMA InboundNext == InboundInv /\ [Next]_vars => InboundInv'
<1> SUFFICES ASSUME InboundInv, [Next]_vars PROVE InboundInv'
  OBVIOUS
<1>1. /\ Typed /\ Stored /\ WorkerKnows /\ OneRow /\ DeadLettersAgree /\ Replaying
      /\ Counted
  BY DEF InboundInv
<1>2. Typed'
  BY <1>1, RowsKeepTypes, IngestKeepsTypes, WorkerKeepsTypes, OperatorsKeepTypes DEF Typed
<1>3. Stored' /\ WorkerKnows' /\ OneRow'
  BY <1>1, StoredKept, KnowledgeKept, OneRowKept
<1>4. DeadLettersAgree' /\ Replaying' /\ Counted'
  BY <1>1, DeadLettersKept, ReplayingKept, CountKept
<1> QED BY <1>2, <1>3, <1>4 DEF InboundInv

LEMMA InboundAlways == Spec => []InboundInv
BY InboundInit, InboundNext, PTL DEF Spec

\* Every variable has its type.
LEMMA InvTypeOK == InboundInv => TypeOK
<1> SUFFICES ASSUME InboundInv PROVE TypeOK
  OBVIOUS
<1>1. RowsTyped /\ IngestTyped /\ WorkerTyped /\ OperatorsTyped
  BY DEF InboundInv, Typed
<1>2. batch \subseteq Entries(redis) /\ (pc # "idle" => entry \in Entries(redis))
  BY <1>1, QueueFields DEF WorkerTyped
<1>3. ingest \in [Ingesters -> {NotIngesting} \cup
                   [pc : IngestPC, u : Updates, last : Updates, row : 0 .. NumUpdates]]
  BY <1>1 DEF IngestTyped, IngestState
<1>4. pc \in {"idle", "adapter", "begin", "deliver", "complete", "fail",
              "deadletter", "ack", "move"}
  BY <1>1 DEF WorkerTyped, Working
<1> QED BY <1>1, <1>2, <1>3, <1>4
        DEF TypeOK, RowsTyped, IngestTyped, WorkerTyped, OperatorsTyped, OperatorState

\* At most one row per callback query, and one entry per generation.
LEMMA InvIngestedOnce == InboundInv => IngestedOnce
<1> SUFFICES ASSUME InboundInv PROVE IngestedOnce
  OBVIOUS
<1>1. OneRow /\ Counted /\ redis \in Queue(Updates) /\ replays \in [Updates -> Nat]
  BY DEF InboundInv, Typed, WorkerTyped, RowsTyped
<1>2. ASSUME NEW d \in Updates
      PROVE  Cardinality({ e \in Entries(redis) : redis.stream[e] = d }) <= 1 + replays[d]
  BY <1>1, CountedBound DEF Counted
<1> QED BY <1>1, <1>2 DEF OneRow, IngestedOnce

\* The rows of gateway_inbound_deliveries, the queue, the poll loop, the worker
\* and the operators keep their types, and the worker holds entries there are.
THEOREM InboundTyped == Spec => []TypeOK
BY InboundAlways, InvTypeOK, PTL

\* PrepareInboundDelivery finds the row of a callback query, and the scripts add
\* one entry per generation, whatever is polled, repeated or replayed.
THEOREM IngestedOnceAlways == Spec => []IngestedOnce
BY InboundAlways, InvIngestedOnce, PTL

\* What operators see as an active dead letter is dead, and Redis has it or will
\* hand it to the worker again, who moves it.
THEOREM DeadLettersAgreeAlways == Spec => []DeadLettersAgree
<1>1. InboundInv => DeadLettersAgree
  BY DEF InboundInv
<1> QED BY <1>1, InboundAlways, PTL

\* No retry, replay, discard or second ingestion reopens what the backend accepted.
THEOREM SucceededStays == Spec => SucceededIsFinal
<1>1. InboundInv /\ [Next]_vars
        => [\A d \in Updates : status[d] = "SUCCEEDED" => status'[d] = "SUCCEEDED"]_vars
  <2> SUFFICES ASSUME InboundInv, [Next]_vars, NEW d \in Updates, status[d] = "SUCCEEDED"
               PROVE  status'[d] = "SUCCEEDED"
    OBVIOUS
  <2>1. Typed /\ WorkerKnows /\ DeadLettersAgree
    BY DEF InboundInv
  <2>2. CASE Begin \/ Complete \/ FailAttempt \/ DeadLetter
    <3>1. /\ Current \in Updates /\ status[Current] # "SUCCEEDED"
      BY <2>1, <2>2, CurrentType
      DEF Begin, Complete, FailAttempt, DeadLetter, WorkerKnows, Working
    <3>2. PICK s : status' = [status EXCEPT ![Current] = s]
      BY <2>2 DEF Begin, Complete, FailAttempt, DeadLetter
    <3> QED BY <2>1, <3>1, <3>2 DEF Typed, RowsTyped
  <2>3. CASE ~ (Begin \/ Complete \/ FailAttempt \/ DeadLetter)
    BY <2>1, <2>3, OthersKeepKnowledge
  <2> QED BY <2>2, <2>3
<1> QED BY <1>1, InboundAlways, PTL DEF Spec, SucceededIsFinal

------------------------------------------------------------------------------
(* The gateway implements the lifecycle *)

\* What the worker relies on between its transactions: what it tries is queued,
\* and what it buries has no try left.
Trying ==
  /\ pc \in {"adapter", "begin"} => status[Current] \notin Rejected
  /\ pc \in {"deliver", "complete", "fail"} => status[Current] = "PENDING" /\ attempts[Current] # 0
  /\ pc = "deadletter" =>
       /\ status[Current] = "RETRYING" /\ attempts[Current] # 0
       /\ target[Current] = "adapter" \/ attempts[Current] >= MaxAttempts

\* Only the worker counts tries, and only storing an update pins a route.
LEMMA WhoTries ==
  ASSUME [Next]_vars, ~ (Begin \/ Complete \/ FailAttempt \/ DeadLetter)
  PROVE  attempts' = attempts /\ (target' = target \/ \E a \in Ingesters : Prepare(a))
<1> USE DEF rowVars
<1>1. ASSUME NEW a \in Ingesters, IngestStep(a) \/ Fail(a) \/ StopIngest(a)
      PROVE  attempts' = attempts /\ (target' = target \/ Prepare(a))
  BY <1>1 DEF IngestStep, Prepare, AppendUpdate, Record, Confirm, Fail, StopIngest
<1>2. ASSUME \/ \E p \in Pollers : Fetch(p)
             \/ \E h \in Hooks : Receive(h)
             \/ ReadNew \/ (\E c \in SUBSET redis.pel : ClaimStale(c)) \/ Interrupt
             \/ UNCHANGED vars
      PROVE  attempts' = attempts /\ target' = target
  BY <1>2 DEF Fetch, Receive, ReadNew, ClaimStale, Interrupt, vars
<1>3. ASSUME WorkerStep PROVE attempts' = attempts /\ target' = target
  BY <1>3 DEF WorkerStep, Load, RunAdapter, Deliver, Ack, Move
<1>4. ASSUME NEW o \in Operators,
             PrepareReplay(o) \/ Replay(o) \/ CompleteReplay(o) \/ AbandonReplay(o)
      PROVE  attempts' = attempts /\ target' = target
  BY <1>4 DEF PrepareReplay, Replay, CompleteReplay, AbandonReplay
<1>5. ASSUME NEW v \in Updates, Discard(v) \/ RetryDue(v)
      PROVE  attempts' = attempts /\ target' = target
  BY <1>5 DEF Discard, RetryDue
<1> QED BY <1>1, <1>2, <1>3, <1>4, <1>5 DEF Next

\* Nobody else writes what the worker is trying.
LEMMA OthersLeaveTried ==
  ASSUME Typed, DeadLettersAgree, [Next]_vars, NEW d \in Updates, status[d] # "none",
         ~ (Begin \/ Complete \/ FailAttempt \/ DeadLetter)
  PROVE  /\ status[d] \in {"PENDING", "RETRYING"} => status'[d] = status[d]
         /\ status[d] \notin Rejected => status'[d] \notin Rejected
         /\ attempts'[d] = attempts[d] /\ target'[d] = target[d]
<1>0. /\ status \in [Updates -> Status] /\ target \in [Updates -> Routes \cup {"none"}]
      /\ \A v \in Updates : dlq[v] = "active" <=> status[v] = "DLQ"
  BY DEF Typed, RowsTyped, DeadLettersAgree
<1>1. attempts' = attempts /\ (target' = target \/ \E a \in Ingesters : Prepare(a))
  BY WhoTries
<1>2. ASSUME NEW a \in Ingesters, Prepare(a) PROVE status'[d] = status[d] /\ target'[d] = target[d]
  <2>1. ingest[a].u \in Updates
    BY <1>2, IngestFields DEF Typed, Prepare, NotIngesting
  <2>2. Rows(ingest[a].u) = {} => d # ingest[a].u
    BY <2>1 DEF Rows
  <2> QED BY <1>0, <1>2, <2>1, <2>2 DEF Prepare
<1>3. ASSUME NEW o \in Operators, PrepareReplay(o)
      PROVE  status'[d] = status[d] \/ (status[d] = "DLQ" /\ status'[d] = "REPLAY_PENDING")
  BY <1>0, <1>3 DEF PrepareReplay
<1>4. ASSUME NEW o \in Operators, CompleteReplay(o)
      PROVE  status'[d] = status[d] \/ (status[d] = "REPLAY_PENDING" /\ status'[d] = "PENDING")
  BY <1>0, <1>4 DEF CompleteReplay
<1>5. ASSUME NEW v \in Updates, Discard(v)
      PROVE  status'[d] = status[d] \/ (status[d] = "DLQ" /\ status'[d] = "DISCARDED")
  BY <1>0, <1>5 DEF Discard
<1>6. \/ status'[d] = status[d]
      \/ status[d] = "DLQ" /\ status'[d] \in {"REPLAY_PENDING", "DISCARDED"}
      \/ status[d] = "REPLAY_PENDING" /\ status'[d] = "PENDING"
  BY <1>2, <1>3, <1>4, <1>5, StatusSteps
<1>7. attempts'[d] = attempts[d] /\ target'[d] = target[d]
  BY <1>1, <1>2
<1> QED BY <1>6, <1>7 DEF Rejected

\* Every step keeps it.
LEMMA TryingKept ==
  ASSUME InboundInv, Trying, [Next]_vars
  PROVE  Trying'
<1> USE DEF workerVars
<1>0. /\ Typed /\ WorkerKnows /\ DeadLettersAgree /\ Stored
      /\ status \in [Updates -> Status] /\ attempts \in [Updates -> Nat]
  BY DEF InboundInv, Typed, RowsTyped
<1>1. ASSUME ~ (Begin \/ Complete \/ FailAttempt \/ DeadLetter), entry' = entry,
             \/ pc' \in {"idle", "ack", "move"} \/ pc' = pc
             \/ pc = "adapter" /\ pc' = "begin"
             \/ pc = "deliver" /\ pc' \in {"complete", "fail"}
      PROVE  Trying'
  <2>1. CASE pc' \in {"idle", "ack", "move"} \/ pc = "idle"
    BY <1>1, <2>1 DEF Trying
  <2>2. CASE pc' \notin {"idle", "ack", "move"} /\ pc # "idle"
    <3>1. Current \in Updates /\ Current' = Current /\ entry \in Entries(redis)
      BY <1>0, <1>1, <2>2, CurrentType, CurrentStays
    <3>2. status[Current] # "none"
      BY <1>0, <3>1 DEF Stored, Current
    <3>3. /\ status[Current] \in {"PENDING", "RETRYING"} => status'[Current] = status[Current]
          /\ status[Current] \notin Rejected => status'[Current] \notin Rejected
          /\ attempts'[Current] = attempts[Current] /\ target'[Current] = target[Current]
      BY <1>0, <1>1, <3>1, <3>2, OthersLeaveTried
    <3> QED BY <1>1, <2>2, <3>1, <3>3 DEF Trying
  <2> QED BY <2>1, <2>2
<1>2. CASE Load
  <2>1. PICK e \in batch : /\ entry' = e /\ redis' = redis /\ status' = status
                           /\ pc' = AfterLoad(redis.stream[e])
    BY <1>2 DEF Load, rowVars
  <2>2. Current' = redis.stream[e]
    BY <2>1 DEF Current
  <2> QED BY <2>1, <2>2 DEF AfterLoad, Trying
<1>3. ASSUME pc # "idle", entry' = entry PROVE Current \in Updates /\ Current' = Current
  BY <1>0, <1>3, CurrentType, CurrentStays
<1>4. CASE Begin
  <2>1. Current \in Updates /\ Current' = Current
    BY <1>3, <1>4 DEF Begin
  <2>2. /\ status'[Current] = "PENDING" /\ attempts'[Current] = attempts[Current] + 1
        /\ pc' \in {"deliver", "complete", "fail"}
    BY <1>0, <1>4, <2>1 DEF Begin
  <2>3. attempts'[Current] # 0
    BY <1>0, <2>1, <2>2
  <2> QED BY <2>1, <2>2, <2>3 DEF Trying
<1>5. CASE Complete \/ DeadLetter
  BY <1>5 DEF Complete, DeadLetter, Trying
<1>6. CASE FailAttempt
  <2>1. Current \in Updates /\ Current' = Current
    BY <1>3, <1>6 DEF FailAttempt
  <2>2. /\ status'[Current] = "RETRYING" /\ attempts' = attempts /\ target' = target
        /\ attempts[Current] # 0 /\ pc' \in {"idle", "deadletter"}
        /\ pc' = "deadletter" => target[Current] = "adapter" \/ ~(attempts[Current] < MaxAttempts)
    BY <1>0, <1>6, <2>1 DEF FailAttempt, Trying
  <2>3. attempts[Current] \in Nat /\ MaxAttempts \in Nat
    BY <1>0, <2>1, ConstantsAssumption
  <2>4. pc' = "deadletter" => target'[Current] = "adapter" \/ attempts'[Current] >= MaxAttempts
    BY <2>2, <2>3
  <2> QED BY <2>1, <2>2, <2>4 DEF Trying
<1>7. CASE RunAdapter \/ Deliver
  BY <1>1, <1>4, <1>5, <1>6, <1>7 DEF RunAdapter, Deliver
<1>8. CASE Ack \/ Move \/ Interrupt
  BY <1>8 DEF Ack, Move, Interrupt, Trying
<1>9. CASE ReadNew \/ \E c \in SUBSET redis.pel : ClaimStale(c)
  BY <1>1, <1>4, <1>5, <1>6, <1>9 DEF ReadNew, ClaimStale
<1>10. ASSUME UNCHANGED workerVars, ~ (Begin \/ Complete \/ FailAttempt \/ DeadLetter)
       PROVE  Trying'
  BY <1>1, <1>10
<1> QED
  BY <1>2, <1>4, <1>5, <1>6, <1>7, <1>8, <1>9, <1>10, WorkerSteps
  DEF WorkerStep

\* What the worker tries is queued, and what it buries has no try left.
LEMMA TryingAlways == Spec => []Trying
<1>1. Init => Trying
  BY DEF Init, Trying
<1>2. InboundInv /\ Trying /\ [Next]_vars => Trying'
  BY TryingKept
<1> QED BY <1>1, <1>2, InboundAlways, PTL DEF Spec

Phases == [u \in Updates |-> PhaseOf[status[u]]]

\* The phase of each status.
LEMMA PhaseIs ==
  /\ PhaseOf["none"] = "absent"
  /\ \A s \in Rejected : PhaseOf[s] = "rejected"
  /\ \A s \in {"PENDING", "RETRYING", "REPLAY_PENDING"} : PhaseOf[s] = "queued"
  /\ PhaseOf["SUCCEEDED"] = "delivered"
  /\ PhaseOf["DLQ"] = "dead"
  /\ PhaseOf["DISCARDED"] = "discarded"
BY DEF PhaseOf, Status, Rejected

\* A row taken to a new status takes its delivery to the phase of that status.
LEMMA RowStep ==
  ASSUME Typed, NEW d \in Updates, NEW s \in Status, status' = [status EXCEPT ![d] = s]
  PROVE  Phases[d] = PhaseOf[status[d]] /\ Phases' = [Phases EXCEPT ![d] = PhaseOf[s]]
<1>1. \A x \in Updates : PhaseOf[status'[x]] = IF x = d THEN PhaseOf[s] ELSE PhaseOf[status[x]]
  BY DEF Typed, RowsTyped
<1>2. Phases \in [Updates -> {PhaseOf[status[u]] : u \in Updates}]
  BY DEF Phases
<1>3. Phases' = [u \in Updates |-> IF u = d THEN PhaseOf[s] ELSE Phases[u]]
  BY <1>1 DEF Phases
<1> QED BY <1>3 DEF Phases

\* Or nowhere, if that is the phase it is in.
LEMMA RowStutter ==
  ASSUME Typed, NEW d \in Updates, NEW s \in Status, status' = [status EXCEPT ![d] = s],
         PhaseOf[s] = PhaseOf[status[d]], attempts' = attempts, target' = target
  PROVE  UNCHANGED Lifecycle!vars
<1>1. \A x \in Updates : PhaseOf[status'[x]] = PhaseOf[status[x]]
  BY DEF Typed, RowsTyped
<1> QED BY <1>1 DEF Lifecycle!vars

\* Storing an update accepts it: neither it nor its callback query has a row.
LEMMA PrepareRefines ==
  ASSUME Typed, NEW a \in Ingesters, Prepare(a)
  PROVE  [Lifecycle!Next]_(Lifecycle!vars)
<1>1. PICK u \in Updates : u = ingest[a].u
  BY IngestFields DEF Typed, Prepare, NotIngesting
<1>2. attempts' = attempts
  BY DEF Prepare
<1>3. CASE UNCHANGED <<status, target>>
  BY <1>2, <1>3 DEF Lifecycle!vars
<1>4. CASE Rows(ingest[a].u) = {}
  <2>1. PICK route \in Routes : /\ status' = [status EXCEPT ![u] = StatusFor(route)]
                                /\ target' = [target EXCEPT ![u] = route]
    BY <1>1, <1>4 DEF Prepare
  <2>2. /\ StatusFor(route) \in Status
        /\ PhaseOf[StatusFor(route)] =
             IF route \in {"unknown", "disabled"} THEN "rejected" ELSE "queued"
    BY PhaseIs DEF StatusFor, Status, Rejected
  <2>3. \A v \in Updates :
          v = u \/ (CallbackOf[u] # NoCallback /\ CallbackOf[v] = CallbackOf[u])
            => status[v] = "none"
    BY <1>1, <1>4 DEF Rows
  <2>4. Phases[u] = "absent" /\ \A v \in Lifecycle!Peers(u) : Phases[v] = "absent"
    BY <1>1, <2>3, PhaseIs DEF Phases, Lifecycle!Peers
  <2>5. Phases' = [Phases EXCEPT ![u] =
                     IF route \in {"unknown", "disabled"} THEN "rejected" ELSE "queued"]
    BY <1>1, <2>1, <2>2, RowStep
  <2>6. Lifecycle!Accept(u)
    BY <1>2, <2>1, <2>4, <2>5 DEF Lifecycle!Accept, Phases
  <2> QED BY <1>1, <2>6 DEF Lifecycle!Next
<1> QED BY <1>3, <1>4 DEF Prepare

\* An attempt that begins is a try; its outcome settles the delivery, queues it
\* again, or buries it.
LEMMA WorkerRefines ==
  ASSUME InboundInv, Trying, Begin \/ Complete \/ FailAttempt \/ DeadLetter
  PROVE  [Lifecycle!Next]_(Lifecycle!vars)
<1>0. /\ Typed /\ WorkerKnows /\ Stored
      /\ status \in [Updates -> Status] /\ attempts \in [Updates -> Nat]
  BY DEF InboundInv, Typed, RowsTyped
<1>1. /\ pc # "idle" /\ pc \in Working /\ pc \in {"adapter", "begin", "complete", "fail", "deadletter"}
      /\ target' = target
  BY DEF Begin, Complete, FailAttempt, DeadLetter, Working
<1>2. PICK d \in Updates : d = Current /\ entry \in Entries(redis) /\ status[d] \in Status
  BY <1>0, <1>1, CurrentType
<1>3. CASE Begin
  <2>1. status[d] \in {"PENDING", "RETRYING", "REPLAY_PENDING", "DISCARDED"}
    <3>1. pc \in {"adapter", "begin"}
      BY <1>3 DEF Begin
    <3>2. status[d] \notin Rejected
      BY <1>2, <3>1 DEF Trying
    <3>3. status[d] \notin {"SUCCEEDED", "DLQ"}
      BY <1>0, <1>1, <1>2 DEF WorkerKnows
    <3>4. status[d] # "none"
      BY <1>0, <1>2 DEF Stored, Current
    <3> QED BY <1>2, <3>2, <3>3, <3>4 DEF Status
  <2>2. /\ status' = [status EXCEPT ![d] = "PENDING"]
        /\ attempts' = [attempts EXCEPT ![d] = @ + 1]
    BY <1>2, <1>3 DEF Begin
  <2>3. Phases[d] \in {"queued", "discarded"}
    BY <1>2, <2>1, PhaseIs DEF Phases
  <2>4. Phases' = [Phases EXCEPT ![d] = "queued"]
    <3>1. "PENDING" \in Status /\ PhaseOf["PENDING"] = "queued"
      BY PhaseIs DEF Status
    <3>2. Phases[d] = PhaseOf[status[d]] /\ Phases' = [Phases EXCEPT ![d] = PhaseOf["PENDING"]]
      BY <1>0, <1>2, <2>2, <3>1, RowStep
    <3> QED BY <2>1, <3>1, <3>2
  <2>5. Lifecycle!Try(d)
    BY <1>1, <2>2, <2>3, <2>4 DEF Lifecycle!Try, Phases
  <2> QED BY <1>2, <2>5 DEF Lifecycle!Next
<1>4. CASE Complete
  <2>1. /\ status' = [status EXCEPT ![d] = "SUCCEEDED"] /\ attempts' = attempts
        /\ status[d] = "PENDING" /\ attempts[d] # 0
    BY <1>2, <1>4 DEF Complete, Trying
  <2>2. Phases[d] = "queued" /\ Phases' = [Phases EXCEPT ![d] = "delivered"]
    <3>1. /\ "SUCCEEDED" \in Status /\ PhaseOf["SUCCEEDED"] = "delivered"
          /\ PhaseOf["PENDING"] = "queued"
      BY PhaseIs DEF Status
    <3>2. Phases[d] = PhaseOf[status[d]] /\ Phases' = [Phases EXCEPT ![d] = PhaseOf["SUCCEEDED"]]
      BY <1>0, <1>2, <2>1, <3>1, RowStep
    <3> QED BY <2>1, <3>1, <3>2
  <2>3. attempts[d] > 0
    BY <1>0, <1>2, <2>1
  <2>4. Lifecycle!Settle(d)
    BY <1>1, <2>1, <2>2, <2>3 DEF Lifecycle!Settle, Lifecycle!Go, Phases
  <2> QED BY <1>2, <2>4 DEF Lifecycle!Next
<1>5. CASE FailAttempt
  <2>1. /\ status' = [status EXCEPT ![d] = "RETRYING"] /\ attempts' = attempts
        /\ status[d] = "PENDING"
    BY <1>2, <1>5 DEF FailAttempt, Trying
  <2>2. "RETRYING" \in Status /\ PhaseOf["RETRYING"] = PhaseOf["PENDING"]
    BY PhaseIs DEF Status
  <2> QED BY <1>0, <1>1, <1>2, <2>1, <2>2, RowStutter
<1>6. CASE DeadLetter
  <2>1. /\ status' = [status EXCEPT ![d] = "DLQ"] /\ attempts' = attempts
        /\ status[d] = "RETRYING" /\ attempts[d] # 0
        /\ target[d] = "adapter" \/ attempts[d] >= MaxAttempts
    BY <1>2, <1>6 DEF DeadLetter, Trying
  <2>2. Phases[d] = "queued" /\ Phases' = [Phases EXCEPT ![d] = "dead"]
    <3>1. /\ "DLQ" \in Status /\ PhaseOf["DLQ"] = "dead" /\ PhaseOf["RETRYING"] = "queued"
      BY PhaseIs DEF Status
    <3>2. Phases[d] = PhaseOf[status[d]] /\ Phases' = [Phases EXCEPT ![d] = PhaseOf["DLQ"]]
      BY <1>0, <1>2, <2>1, <3>1, RowStep
    <3> QED BY <2>1, <3>1, <3>2
  <2>3. attempts[d] >= IF target[d] = "adapter" THEN 1 ELSE MaxAttempts
    BY <1>0, <1>2, <2>1, ConstantsAssumption
  <2>4. Lifecycle!Bury(d)
    BY <1>1, <2>1, <2>2, <2>3 DEF Lifecycle!Bury, Lifecycle!Go, Phases
  <2> QED BY <1>2, <2>4 DEF Lifecycle!Next
<1> QED BY <1>3, <1>4, <1>5, <1>6

\* Operators replay and discard what is dead; the end of a replay is not seen.
LEMMA OperatorRefines ==
  ASSUME Typed, DeadLettersAgree,
         \/ \E o \in Operators : PrepareReplay(o) \/ CompleteReplay(o)
         \/ \E d \in Updates : Discard(d)
  PROVE  [Lifecycle!Next]_(Lifecycle!vars)
<1>0. /\ status \in [Updates -> Status]
      /\ \A v \in Updates : dlq[v] = "active" <=> status[v] = "DLQ"
  BY DEF Typed, RowsTyped, DeadLettersAgree
<1>1. attempts' = attempts /\ target' = target
  BY DEF PrepareReplay, CompleteReplay, Discard
<1>2. CASE UNCHANGED status
  BY <1>1, <1>2 DEF Lifecycle!vars
<1>3. ASSUME NEW d \in Updates, status[d] = "DLQ", NEW s \in {"REPLAY_PENDING", "DISCARDED"},
             status' = [status EXCEPT ![d] = s]
      PROVE  [Lifecycle!Next]_(Lifecycle!vars)
  <2>1. /\ s \in Status /\ PhaseOf["DLQ"] = "dead"
        /\ s = "REPLAY_PENDING" => PhaseOf[s] = "queued"
        /\ s = "DISCARDED" => PhaseOf[s] = "discarded"
    BY <1>3, PhaseIs DEF Status
  <2>2. Phases[d] = "dead" /\ Phases' = [Phases EXCEPT ![d] = PhaseOf[s]]
    BY <1>3, <2>1, RowStep
  <2>3. Lifecycle!Go(d, "dead", PhaseOf[s])
    BY <1>1, <2>2 DEF Lifecycle!Go, Phases
  <2>4. Lifecycle!Replay(d) \/ Lifecycle!Discard(d)
    BY <2>1, <2>3 DEF Lifecycle!Replay, Lifecycle!Discard
  <2> QED BY <2>4 DEF Lifecycle!Next
<1>4. ASSUME NEW o \in Operators, PrepareReplay(o) PROVE [Lifecycle!Next]_(Lifecycle!vars)
  <2>1. \/ UNCHANGED status
        \/ \E d \in Updates : dlq[d] = "active" /\ status' = [status EXCEPT ![d] = "REPLAY_PENDING"]
    BY <1>4 DEF PrepareReplay
  <2> QED BY <1>0, <1>2, <1>3, <2>1
<1>5. ASSUME NEW o \in Operators, CompleteReplay(o) PROVE [Lifecycle!Next]_(Lifecycle!vars)
  <2> DEFINE d == action[o].d
  <2>1. status' = [status EXCEPT ![d] = IF @ = "REPLAY_PENDING" THEN "PENDING" ELSE @]
    BY <1>5 DEF CompleteReplay
  <2>2. CASE d \in Updates /\ status[d] = "REPLAY_PENDING"
    <3>1. "PENDING" \in Status /\ PhaseOf["PENDING"] = PhaseOf["REPLAY_PENDING"]
      BY PhaseIs DEF Status
    <3>2. status' = [status EXCEPT ![d] = "PENDING"]
      BY <2>1, <2>2
    <3> QED BY <1>1, <2>2, <3>1, <3>2, RowStutter
  <2>3. CASE ~(d \in Updates /\ status[d] = "REPLAY_PENDING")
    BY <1>0, <1>2, <2>1, <2>3
  <2> QED BY <2>2, <2>3
<1>6. ASSUME NEW d \in Updates, Discard(d) PROVE [Lifecycle!Next]_(Lifecycle!vars)
  <2>1. status[d] = "DLQ" /\ status' = [status EXCEPT ![d] = "DISCARDED"]
    BY <1>0, <1>6 DEF Discard
  <2> QED BY <1>3, <2>1
<1> QED BY <1>4, <1>5, <1>6

\* Everything else leaves the three fields of the row alone.
LEMMA OthersStutter ==
  ASSUME [Next]_vars, UNCHANGED status,
         ~ \E a \in Ingesters : Prepare(a),
         ~ (Begin \/ Complete \/ FailAttempt \/ DeadLetter)
  PROVE  UNCHANGED Lifecycle!vars
<1>1. attempts' = attempts /\ (target' = target \/ \E a \in Ingesters : Prepare(a))
  BY WhoTries
<1> QED BY <1>1 DEF Lifecycle!vars

\* The gateway implements the lifecycle it promises of every delivery: the route
\* is pinned when the update is stored, what was accepted or rejected is not
\* tried again, and only an update whose attempts are used up is dead.
THEOREM InboundImplements == Spec => ImplementsLifecycle
<1>1. Init => Lifecycle!Init
  BY PhaseIs DEF Init, Lifecycle!Init
<1>2. ASSUME InboundInv, Trying, [Next]_vars PROVE [Lifecycle!Next]_(Lifecycle!vars)
  <2>1. Typed /\ DeadLettersAgree
    BY <1>2 DEF InboundInv
  <2>2. CASE \E a \in Ingesters : Prepare(a)
    BY <2>1, <2>2, PrepareRefines
  <2>3. CASE Begin \/ Complete \/ FailAttempt \/ DeadLetter
    BY <1>2, <2>3, WorkerRefines
  <2>4. CASE \/ \E o \in Operators : PrepareReplay(o) \/ CompleteReplay(o)
             \/ \E d \in Updates : Discard(d)
    BY <2>1, <2>4, OperatorRefines
  <2>5. CASE /\ UNCHANGED status /\ ~ \E a \in Ingesters : Prepare(a)
             /\ ~ (Begin \/ Complete \/ FailAttempt \/ DeadLetter)
    BY <1>2, <2>5, OthersStutter
  <2> QED BY <1>2, <2>2, <2>3, <2>4, <2>5, StatusSteps
<1> QED BY <1>1, <1>2, InboundAlways, TryingAlways, PTL
        DEF Spec, ImplementsLifecycle, Lifecycle!Spec

==============================================================================
