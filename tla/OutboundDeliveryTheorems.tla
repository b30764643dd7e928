----------------------- MODULE OutboundDeliveryTheorems -----------------------
(***************************************************************************)
(* Theorems about the outbound gateway, for every number of deliveries,    *)
(* payloads, producers and operators, and every bound.                     *)
(***************************************************************************)
EXTENDS OutboundDelivery, RedisStreamTheorems

------------------------------------------------------------------------------
(* Type correctness *)

\* What the workers hold stays typed while the stream only grows.
LEMMA WorkersKeepTypes ==
  ASSUME WorkersTyped, redis' \in Queue(Deliveries), Grows(redis, redis'),
         UNCHANGED workerVars
  PROVE  WorkersTyped'
<1>1. Entries(redis) \subseteq Entries(redis')
  BY DEF Grows
<1>2. \A w \in Workers : batch[w] \subseteq Entries(redis')
  BY <1>1 DEF WorkersTyped
<1> QED BY <1>1, <1>2 DEF WorkersTyped, workerVars

\* A queue grows from itself.
LEMMA GrowsReflexive ==
  ASSUME WorkersTyped, UNCHANGED redis
  PROVE  redis' \in Queue(Deliveries) /\ Grows(redis, redis')
BY QueueFields DEF WorkersTyped, Grows

\* A client that is not idle has a delivery and a generation.
LEMMA JobFields ==
  ASSUME NEW PCs, "idle" \notin PCs, NEW j \in Jobs(PCs), j # Idle \/ j.pc \in PCs
  PROVE  j.d \in Deliveries /\ j.gen \in Nat /\ j.pc \in PCs /\ j # Idle
BY DEF Jobs, Idle, Job

\* A new job of a client is well typed.
LEMMA JobType ==
  ASSUME NEW PCs, NEW p \in PCs, NEW d \in Deliveries, NEW gen \in Nat
  PROVE  Job(p, d, gen) \in Jobs(PCs) /\ Idle \in Jobs(PCs)
BY DEF Jobs, Job

\* The outbound gateway starts in a state of the right type.
LEMMA InitType == Init => TypeOK
<1> SUFFICES ASSUME Init PROVE TypeOK
  OBVIOUS
<1>1. redis \in Queue(Deliveries)
  BY EmptyQueueType DEF Init
<1>2. ClientsTyped
  BY DEF Init, ClientsTyped, Jobs
<1>3. WorkersTyped
  BY <1>1 DEF Init, WorkersTyped, WorkerPC
<1>4. RowsTyped
  BY DEF Init, RowsTyped, Status, DLQState
<1>5. RestTyped
  <2>1. 0 \in 0 .. MaxFaults
    BY ConstantsAssumption
  <2> QED BY <2>1 DEF Init, RestTyped
<1> QED BY <1>1, <1>2, <1>3, <1>4, <1>5 DEF TypeOK

\* Every step keeps the types.
LEMMA NextType == TypeOK /\ [Next]_vars => TypeOK'
<1> SUFFICES ASSUME TypeOK, [Next]_vars PROVE TypeOK'
  OBVIOUS
<1> USE ConstantsAssumption DEF TypeOK
<1>1. ASSUME NEW p \in Producers, Submit(p) PROVE TypeOK'
  <2>1. RowsTyped'
    BY <1>1 DEF Submit, RowsTyped, Status, DLQState, dlqVars, Deliveries
  <2>2. WorkersTyped'
    BY <1>1, WorkersKeepTypes, GrowsReflexive DEF Submit, workerVars
  <2>3. ClientsTyped'
    <3>1. \A d \in WorkloadDeliveries : Job("append", d, 0) \in Jobs({"append", "mark"})
      BY JobType DEF Deliveries
    <3> QED BY <1>1, <3>1 DEF Submit, ClientsTyped
  <2>4. RestTyped'
    BY <1>1 DEF Submit, RestTyped, envVars, historyVars
  <2> QED BY <2>1, <2>2, <2>3, <2>4
<1>2. ASSUME NEW p \in Producers, AppendRequest(p) PROVE TypeOK'
  <2>1. RowsTyped'
    BY <1>2 DEF AppendRequest, RowsTyped, rowVars, dlqVars
  <2>2. WorkersTyped'
    <3>1. request[p].d \in Deliveries
      BY <1>2, JobFields DEF AppendRequest, ClientsTyped
    <3>2. redis' \in Queue(Deliveries) /\ Grows(redis, redis')
      BY <1>2, <3>1, AppendOnceType DEF AppendRequest, WorkersTyped
    <3> QED BY <1>2, <3>2, WorkersKeepTypes DEF AppendRequest
  <2>3. ClientsTyped'
    BY <1>2, JobType, JobFields DEF AppendRequest, ClientsTyped
  <2>4. RestTyped'
    BY <1>2 DEF AppendRequest, RestTyped, envVars, historyVars
  <2> QED BY <2>1, <2>2, <2>3, <2>4
<1>3. ASSUME NEW p \in Producers, MarkAccepted(p) PROVE TypeOK'
  <2>1. RowsTyped'
    BY <1>3 DEF MarkAccepted, RowsTyped, Status, DLQState, dlqVars, Deliveries
  <2>2. WorkersTyped'
    BY <1>3, WorkersKeepTypes, GrowsReflexive DEF MarkAccepted, workerVars
  <2>3. ClientsTyped'
    BY <1>3, JobType, JobFields DEF MarkAccepted, ClientsTyped
  <2>4. RestTyped'
    <3>1. request[p].d \in Deliveries
      BY <1>3, JobFields DEF MarkAccepted, ClientsTyped
    <3>2. payload[request[p].d] \in Payloads \cup {NoPayload}
      BY <3>1 DEF RowsTyped
    <3> QED BY <1>3, <3>1, <3>2 DEF MarkAccepted, RestTyped, envVars
  <2> QED BY <2>1, <2>2, <2>3, <2>4
<1>4. ASSUME NEW d \in ServiceDeliveries, AcceptService(d) PROVE TypeOK'
  <2>1. RowsTyped'
    BY <1>4 DEF AcceptService, RowsTyped, Status, DLQState, dlqVars, Deliveries
  <2>2. WorkersTyped'
    BY <1>4, WorkersKeepTypes, GrowsReflexive DEF AcceptService, workerVars
  <2>3. ClientsTyped'
    BY <1>4 DEF AcceptService, ClientsTyped, clientVars
  <2>4. RestTyped'
    <3>1. d \in Deliveries
      BY <1>4 DEF Deliveries
    <3>2. PICK body \in Payloads : promised' = promised \cup {<<d, body>>}
      BY <1>4 DEF AcceptService
    <3> QED BY <1>4, <3>1, <3>2 DEF AcceptService, RestTyped, envVars
  <2> QED BY <2>1, <2>2, <2>3, <2>4
<1>5. CASE FetchOutbox
  <2>1. RowsTyped'
    BY <1>5 DEF FetchOutbox, RowsTyped, rowVars, dlqVars
  <2>2. WorkersTyped'
    BY <1>5, WorkersKeepTypes, GrowsReflexive DEF FetchOutbox, workerVars
  <2>3. ClientsTyped'
    <3>1. PICK row \in outbox : enqueuer' = Job("enqueue", row[1], row[2])
      BY <1>5 DEF FetchOutbox
    <3>2. row[1] \in Deliveries /\ row[2] \in Nat
      BY <3>1 DEF RowsTyped, Deliveries
    <3> QED BY <1>5, <3>1, <3>2, JobType DEF FetchOutbox, ClientsTyped
  <2>4. RestTyped'
    BY <1>5 DEF FetchOutbox, RestTyped, envVars, historyVars
  <2> QED BY <2>1, <2>2, <2>3, <2>4
<1>6. CASE Enqueue
  <2>1. RowsTyped'
    BY <1>6 DEF Enqueue, RowsTyped, rowVars, dlqVars
  <2>2. WorkersTyped'
    <3>1. enqueuer.d \in Deliveries /\ enqueuer.gen \in Nat
      BY <1>6, JobFields DEF Enqueue, ClientsTyped
    <3>2. redis' \in Queue(Deliveries) /\ Grows(redis, redis')
      BY <1>6, <3>1, AppendOnceType, ReplayFromDLQType DEF Enqueue, WorkersTyped
    <3> QED BY <1>6, <3>2, WorkersKeepTypes DEF Enqueue
  <2>3. ClientsTyped'
    BY <1>6, JobType, JobFields DEF Enqueue, ClientsTyped
  <2>4. RestTyped'
    BY <1>6 DEF Enqueue, RestTyped, envVars, historyVars
  <2> QED BY <2>1, <2>2, <2>3, <2>4
<1>7. CASE CompleteEnqueue
  <2>1. RowsTyped'
    BY <1>7 DEF CompleteEnqueue, RowsTyped, Status, DLQState
  <2>2. WorkersTyped'
    BY <1>7, WorkersKeepTypes, GrowsReflexive DEF CompleteEnqueue, workerVars
  <2>3. ClientsTyped'
    BY <1>7, JobType, JobFields DEF CompleteEnqueue, ClientsTyped
  <2>4. RestTyped'
    BY <1>7 DEF CompleteEnqueue, RestTyped, envVars, historyVars
  <2> QED BY <2>1, <2>2, <2>3, <2>4
<1>8. ASSUME NEW w \in Workers, ReadNew(w) PROVE TypeOK'
  <2>1. RowsTyped'
    BY <1>8 DEF ReadNew, RowsTyped, rowVars, dlqVars
  <2>2. WorkersTyped'
    <3>1. BatchSize \in Nat
      BY <1>8 DEF ReadNew, WorkersTyped
    <3>2. redis' \in Queue(Deliveries) /\ Grows(redis, redis') /\ Unread(redis, BatchSize) \subseteq Entries(redis)
      BY <1>8, <3>1, ReadGroupType DEF ReadNew, WorkersTyped
    <3>3. Entries(redis) \subseteq Entries(redis')
      BY <3>2 DEF Grows
    <3>4. batch' \in [Workers -> SUBSET Entries(redis')]
      BY <1>8, <3>2, <3>3 DEF ReadNew, WorkersTyped
    <3> QED BY <1>8, <3>2, <3>3, <3>4 DEF ReadNew, WorkersTyped
  <2>3. ClientsTyped'
    BY <1>8 DEF ReadNew, ClientsTyped, clientVars
  <2>4. RestTyped'
    BY <1>8 DEF ReadNew, RestTyped, envVars, historyVars
  <2> QED BY <2>1, <2>2, <2>3, <2>4
<1>9. ASSUME NEW w \in Workers, NEW e \in redis.pel, ClaimStale(w, e) PROVE TypeOK'
  <2>1. RowsTyped'
    BY <1>9 DEF ClaimStale, RowsTyped, rowVars, dlqVars
  <2>2. WorkersTyped'
    BY <1>9, QueueFields DEF ClaimStale, WorkersTyped
  <2>3. ClientsTyped'
    BY <1>9 DEF ClaimStale, ClientsTyped, clientVars
  <2>4. RestTyped'
    BY <1>9 DEF ClaimStale, RestTyped, envVars, historyVars
  <2> QED BY <2>1, <2>2, <2>3, <2>4
<1>10. ASSUME NEW w \in Workers, Load(w) PROVE TypeOK'
  <2>1. RowsTyped'
    BY <1>10 DEF Load, RowsTyped, rowVars, dlqVars
  <2>2. WorkersTyped'
    BY <1>10, QueueFields DEF Load, WorkersTyped, AfterLoad, WorkerPC
  <2>3. ClientsTyped'
    BY <1>10 DEF Load, ClientsTyped, clientVars
  <2>4. RestTyped'
    BY <1>10 DEF Load, RestTyped, envVars, historyVars
  <2> QED BY <2>1, <2>2, <2>3, <2>4
<1>11. ASSUME NEW w \in Workers, Resolve(w) PROVE TypeOK'
  <2>1. RowsTyped'
    BY <1>11 DEF Resolve, RowsTyped, rowVars, dlqVars
  <2>2. WorkersTyped'
    BY <1>11 DEF Resolve, WorkersTyped, WorkerPC, RowsTyped
  <2>3. ClientsTyped'
    BY <1>11 DEF Resolve, ClientsTyped, clientVars
  <2>4. RestTyped'
    BY <1>11 DEF Resolve, RestTyped, envVars, historyVars
  <2> QED BY <2>1, <2>2, <2>3, <2>4
<1>12. ASSUME NEW w \in Workers, Begin(w) PROVE TypeOK'
  <2>0. Current(w) \in Deliveries
    BY <1>12, QueueFields DEF Begin, Current, WorkersTyped
  <2>1. RowsTyped'
    <3>1. attempts[Current(w)] + 1 \in Nat
      BY <2>0 DEF RowsTyped
    <3>2. /\ status' \in [Deliveries -> Status]
          /\ attempts' \in [Deliveries -> Nat]
          /\ waiting' \in [Deliveries -> BOOLEAN]
      <4>1. CASE status[Current(w)] \in {"accepted", "retrying"}
        <5>1. /\ status' = [status EXCEPT ![Current(w)] = "processing"]
              /\ attempts' = [attempts EXCEPT ![Current(w)] = attempts[Current(w)] + 1]
              /\ waiting' = [waiting EXCEPT ![Current(w)] = FALSE]
          BY <1>12, <4>1 DEF Begin
        <5> QED BY <5>1, <2>0, <3>1 DEF RowsTyped, Status
      <4>2. CASE status[Current(w)] \notin {"accepted", "retrying"}
        BY <1>12, <4>2 DEF Begin, RowsTyped
      <4> QED BY <4>1, <4>2
    <3> QED BY <1>12, <3>2 DEF Begin, RowsTyped, dlqVars
  <2>2. WorkersTyped'
    BY <1>12, <2>0 DEF Begin, WorkersTyped, WorkerPC, RowsTyped
  <2>3. ClientsTyped'
    BY <1>12 DEF Begin, ClientsTyped, clientVars
  <2>4. RestTyped'
    BY <1>12 DEF Begin, RestTyped, envVars, historyVars
  <2> QED BY <2>1, <2>2, <2>3, <2>4
<1>13. ASSUME NEW w \in Workers, Send(w) PROVE TypeOK'
  <2>1. RowsTyped'
    BY <1>13 DEF Send, RowsTyped, rowVars, dlqVars
  <2>2. WorkersTyped'
    BY <1>13 DEF Send, WorkersTyped, WorkerPC, RowsTyped
  <2>3. ClientsTyped'
    BY <1>13 DEF Send, ClientsTyped, clientVars
  <2>4. RestTyped'
    BY <1>13 DEF Send, RestTyped, envVars, historyVars
  <2> QED BY <2>1, <2>2, <2>3, <2>4
<1>14. ASSUME NEW w \in Workers, SetGate(w) PROVE TypeOK'
  <2>1. RowsTyped'
    BY <1>14 DEF SetGate, RowsTyped, rowVars, dlqVars
  <2>2. WorkersTyped'
    BY <1>14 DEF SetGate, WorkersTyped, WorkerPC, RowsTyped
  <2>3. ClientsTyped'
    BY <1>14 DEF SetGate, ClientsTyped, clientVars
  <2>4. RestTyped'
    BY <1>14 DEF SetGate, RestTyped, envVars, historyVars
  <2> QED BY <2>1, <2>2, <2>3, <2>4
<1>15. ASSUME NEW w \in Workers, Retry(w) PROVE TypeOK'
  <2>0. Current(w) \in Deliveries
    BY <1>15, QueueFields DEF Retry, Current, WorkersTyped
  <2>1. RowsTyped'
    BY <1>15, <2>0 DEF Retry, RowsTyped, Status, DLQState, dlqVars, Deliveries
  <2>2. WorkersTyped'
    BY <1>15 DEF Retry, WorkersTyped, WorkerPC, RowsTyped
  <2>3. ClientsTyped'
    BY <1>15 DEF Retry, ClientsTyped, clientVars
  <2>4. RestTyped'
    BY <1>15 DEF Retry, RestTyped, envVars, historyVars
  <2> QED BY <2>1, <2>2, <2>3, <2>4
<1>16. ASSUME NEW w \in Workers, Succeed(w) PROVE TypeOK'
  <2>0. Current(w) \in Deliveries
    BY <1>16, QueueFields DEF Succeed, Current, WorkersTyped
  <2>1. RowsTyped'
    BY <1>16, <2>0 DEF Succeed, RowsTyped, Status, dlqVars
  <2>2. WorkersTyped'
    BY <1>16 DEF Succeed, WorkersTyped, WorkerPC, RowsTyped
  <2>3. ClientsTyped'
    BY <1>16 DEF Succeed, ClientsTyped, clientVars
  <2>4. RestTyped'
    BY <1>16 DEF Succeed, RestTyped, envVars, historyVars
  <2> QED BY <2>1, <2>2, <2>3, <2>4
<1>17. ASSUME NEW w \in Workers, Reconcile(w) PROVE TypeOK'
  <2>0. Current(w) \in Deliveries
    BY <1>17, QueueFields DEF Reconcile, Current, WorkersTyped
  <2>1. RowsTyped'
    BY <1>17, <2>0 DEF Reconcile, RowsTyped, Status, dlqVars
  <2>2. WorkersTyped'
    BY <1>17 DEF Reconcile, WorkersTyped, WorkerPC, RowsTyped
  <2>3. ClientsTyped'
    BY <1>17 DEF Reconcile, ClientsTyped, clientVars
  <2>4. RestTyped'
    BY <1>17 DEF Reconcile, RestTyped, envVars, historyVars
  <2> QED BY <2>1, <2>2, <2>3, <2>4
<1>18. ASSUME NEW w \in Workers, DeadLetter(w) PROVE TypeOK'
  <2>0. Current(w) \in Deliveries
    BY <1>18, QueueFields DEF DeadLetter, Current, WorkersTyped
  <2>1. RowsTyped'
    BY <1>18, <2>0 DEF DeadLetter, RowsTyped, Status, DLQState
  <2>2. WorkersTyped'
    BY <1>18 DEF DeadLetter, WorkersTyped, WorkerPC, RowsTyped
  <2>3. ClientsTyped'
    BY <1>18 DEF DeadLetter, ClientsTyped, clientVars
  <2>4. RestTyped'
    BY <1>18 DEF DeadLetter, RestTyped, envVars, historyVars
  <2> QED BY <2>1, <2>2, <2>3, <2>4
<1>19. ASSUME NEW w \in Workers, Ack(w) PROVE TypeOK'
  <2>1. RowsTyped'
    BY <1>19 DEF Ack, RowsTyped, rowVars, dlqVars
  <2>2. WorkersTyped'
    <3>1. redis \in Queue(Deliveries)
      BY <1>19 DEF Ack, WorkersTyped
    <3>2. redis' \in Queue(Deliveries) /\ Grows(redis, redis')
      BY <1>19, <3>1, AcknowledgeType DEF Ack, WorkersTyped
    <3>3. Entries(redis) \subseteq Entries(redis')
      BY <3>2 DEF Grows
    <3>4. batch' \in [Workers -> SUBSET Entries(redis')]
      BY <1>19, <3>3 DEF Ack, WorkersTyped
    <3> QED BY <1>19, <3>2, <3>3, <3>4 DEF Ack, WorkersTyped, WorkerPC
  <2>3. ClientsTyped'
    BY <1>19 DEF Ack, ClientsTyped, clientVars
  <2>4. RestTyped'
    BY <1>19 DEF Ack, RestTyped, envVars, historyVars
  <2> QED BY <2>1, <2>2, <2>3, <2>4
<1>20. ASSUME NEW w \in Workers, Move(w) PROVE TypeOK'
  <2>1. RowsTyped'
    BY <1>20 DEF Move, RowsTyped, rowVars, dlqVars
  <2>2. WorkersTyped'
    <3>1. Current(w) \in Deliveries
      BY <1>20, QueueFields DEF Move, WorkersTyped, Current
    <3>2. redis' \in Queue(Deliveries) /\ Grows(redis, redis')
      BY <1>20, <3>1, MoveToDLQType DEF Move, WorkersTyped
    <3>3. Entries(redis) \subseteq Entries(redis')
      BY <3>2 DEF Grows
    <3>4. batch' \in [Workers -> SUBSET Entries(redis')]
      BY <1>20, <3>3 DEF Move, WorkersTyped
    <3> QED BY <1>20, <3>2, <3>3, <3>4 DEF Move, WorkersTyped, WorkerPC
  <2>3. ClientsTyped'
    BY <1>20 DEF Move, ClientsTyped, clientVars
  <2>4. RestTyped'
    BY <1>20 DEF Move, RestTyped, envVars, historyVars
  <2> QED BY <2>1, <2>2, <2>3, <2>4
<1>21. ASSUME NEW w \in Workers, Interrupt(w) PROVE TypeOK'
  <2>1. RowsTyped'
    BY <1>21 DEF Interrupt, RowsTyped, rowVars, dlqVars
  <2>2. WorkersTyped'
    BY <1>21 DEF Interrupt, WorkersTyped, WorkerPC
  <2>3. ClientsTyped'
    BY <1>21 DEF Interrupt, ClientsTyped, clientVars
  <2>4. RestTyped'
    BY <1>21 DEF Interrupt, RestTyped, envVars, historyVars
  <2> QED BY <2>1, <2>2, <2>3, <2>4
<1>22. ASSUME NEW o \in Operators, PrepareReplay(o) PROVE TypeOK'
  <2>1. RowsTyped'
    <3>1. PICK d \in Deliveries : PrepareReplayOf(o, d)
      BY <1>22 DEF PrepareReplay
    <3>2. replays[d] + 1 \in Nat
      BY DEF RowsTyped
    <3>3. outbox' \in SUBSET (ServiceDeliveries \X Nat)
      BY <3>1, <3>2 DEF PrepareReplayOf, RowsTyped, dlqVars
    <3>4. /\ status' \in [Deliveries -> Status]
          /\ waiting' \in [Deliveries -> BOOLEAN]
          /\ dlq' \in [Deliveries -> DLQState]
          /\ replays' \in [Deliveries -> Nat]
      <4>1. CASE dlq[d] = "active"
        <5>1. /\ replays' = [replays EXCEPT ![d] = replays[d] + 1]
              /\ dlq' = [dlq EXCEPT ![d] = "replay_pending"]
              /\ status' = [status EXCEPT ![d] = "replay_pending"]
              /\ waiting' = [waiting EXCEPT ![d] = FALSE]
          BY <3>1, <4>1 DEF PrepareReplayOf
        <5> QED BY <5>1, <3>2 DEF RowsTyped, Status, DLQState
      <4>2. CASE dlq[d] = "replay_pending"
        BY <3>1, <4>2 DEF PrepareReplayOf, RowsTyped, dlqVars
      <4> QED BY <3>1, <4>1, <4>2 DEF PrepareReplayOf
    <3> QED BY <1>22, <3>3, <3>4 DEF PrepareReplay, RowsTyped
  <2>2. WorkersTyped'
    BY <1>22, WorkersKeepTypes, GrowsReflexive DEF PrepareReplay, workerVars
  <2>3. ClientsTyped'
    <3>1. PICK d \in Deliveries : PrepareReplayOf(o, d)
      BY <1>22 DEF PrepareReplay
    <3>2. replays[d] \in Nat /\ replays[d] + 1 \in Nat
      BY DEF RowsTyped
    <3>3. /\ Job("replay", d, replays[d]) \in Jobs({"replay", "complete"})
          /\ Job("replay", d, replays[d] + 1) \in Jobs({"replay", "complete"})
      BY <3>2, JobType
    <3> QED BY <1>22, <3>1, <3>3 DEF PrepareReplay, PrepareReplayOf,
       ClientsTyped
  <2>4. RestTyped'
    BY <1>22 DEF PrepareReplay, RestTyped, envVars, historyVars
  <2> QED BY <2>1, <2>2, <2>3, <2>4
<1>23. ASSUME NEW o \in Operators, Replay(o) PROVE TypeOK'
  <2>1. RowsTyped'
    BY <1>23 DEF Replay, RowsTyped, rowVars, dlqVars
  <2>2. WorkersTyped'
    <3>1. action[o].d \in Deliveries /\ action[o].gen \in Nat
      BY <1>23, JobFields DEF Replay, ClientsTyped
    <3>2. redis' \in Queue(Deliveries) /\ Grows(redis, redis')
      BY <1>23, <3>1, ReplayFromDLQType DEF Replay, WorkersTyped
    <3> QED BY <1>23, <3>2, WorkersKeepTypes DEF Replay
  <2>3. ClientsTyped'
    BY <1>23, JobType, JobFields DEF Replay, ClientsTyped
  <2>4. RestTyped'
    BY <1>23 DEF Replay, RestTyped, envVars, historyVars
  <2> QED BY <2>1, <2>2, <2>3, <2>4
<1>24. ASSUME NEW o \in Operators, CompleteReplay(o) PROVE TypeOK'
  <2>1. RowsTyped'
    BY <1>24 DEF CompleteReplay, RowsTyped, Status, DLQState
  <2>2. WorkersTyped'
    BY <1>24, WorkersKeepTypes, GrowsReflexive DEF CompleteReplay, workerVars
  <2>3. ClientsTyped'
    BY <1>24, JobType, JobFields DEF CompleteReplay, ClientsTyped
  <2>4. RestTyped'
    BY <1>24 DEF CompleteReplay, RestTyped, envVars, historyVars
  <2> QED BY <2>1, <2>2, <2>3, <2>4
<1>25. ASSUME NEW d \in Deliveries, Discard(d) PROVE TypeOK'
  <2>1. RowsTyped'
    BY <1>25 DEF Discard, RowsTyped, Status, DLQState, dlqVars, Deliveries
  <2>2. WorkersTyped'
    BY <1>25, WorkersKeepTypes, GrowsReflexive DEF Discard, workerVars
  <2>3. ClientsTyped'
    BY <1>25 DEF Discard, ClientsTyped, clientVars
  <2>4. RestTyped'
    BY <1>25 DEF Discard, RestTyped, envVars, historyVars
  <2> QED BY <2>1, <2>2, <2>3, <2>4
<1>26. ASSUME NEW d \in Deliveries, RetryDue(d) PROVE TypeOK'
  <2>1. RowsTyped'
    BY <1>26 DEF RetryDue, RowsTyped, Status, DLQState, dlqVars, Deliveries
  <2>2. WorkersTyped'
    BY <1>26, WorkersKeepTypes, GrowsReflexive DEF RetryDue, workerVars
  <2>3. ClientsTyped'
    BY <1>26 DEF RetryDue, ClientsTyped, clientVars
  <2>4. RestTyped'
    BY <1>26 DEF RetryDue, RestTyped, envVars, historyVars
  <2> QED BY <2>1, <2>2, <2>3, <2>4
<1>27. CASE GateOpens
  <2>1. RowsTyped'
    BY <1>27 DEF GateOpens, RowsTyped, rowVars, dlqVars
  <2>2. WorkersTyped'
    BY <1>27, WorkersKeepTypes, GrowsReflexive DEF GateOpens, workerVars
  <2>3. ClientsTyped'
    BY <1>27 DEF GateOpens, ClientsTyped, clientVars
  <2>4. RestTyped'
    BY <1>27 DEF GateOpens, RestTyped, envVars, historyVars
  <2> QED BY <2>1, <2>2, <2>3, <2>4
<1>28. CASE Abandon
  <2>1. RowsTyped'
    BY <1>28 DEF Abandon, RowsTyped, rowVars, dlqVars
  <2>2. WorkersTyped'
    BY <1>28, WorkersKeepTypes, GrowsReflexive DEF Abandon, workerVars
  <2>3. ClientsTyped'
    <3>1. CASE \E p \in Producers : request' = [request EXCEPT ![p] = Idle]
                                   /\ UNCHANGED <<action, enqueuer>>
      BY <3>1 DEF ClientsTyped, Jobs
    <3>2. CASE \E o \in Operators : action' = [action EXCEPT ![o] = Idle]
                                   /\ UNCHANGED <<request, enqueuer>>
      BY <3>2 DEF ClientsTyped, Jobs
    <3>3. CASE enqueuer' = Idle /\ UNCHANGED <<request, action>>
      BY <3>3 DEF ClientsTyped, Jobs
    <3> QED BY <1>28, <3>1, <3>2, <3>3 DEF Abandon
  <2>4. RestTyped'
    BY <1>28 DEF Abandon, RestTyped, envVars, historyVars
  <2> QED BY <2>1, <2>2, <2>3, <2>4
<1>29. CASE ChangeTarget
  <2>1. RowsTyped'
    BY <1>29 DEF ChangeTarget, RowsTyped, rowVars, dlqVars
  <2>2. WorkersTyped'
    BY <1>29, WorkersKeepTypes, GrowsReflexive DEF ChangeTarget, workerVars
  <2>3. ClientsTyped'
    BY <1>29 DEF ChangeTarget, ClientsTyped, clientVars
  <2>4. RestTyped'
    BY <1>29 DEF ChangeTarget, RestTyped, envVars, historyVars
  <2> QED BY <2>1, <2>2, <2>3, <2>4
<1>30. CASE UNCHANGED vars
  BY <1>30, WorkersKeepTypes, GrowsReflexive
     DEF vars, rowVars, dlqVars, envVars, workerVars, clientVars, historyVars,
         RowsTyped, WorkersTyped, ClientsTyped, RestTyped
<1> QED
  BY <1>1, <1>2, <1>3, <1>4, <1>5, <1>6, <1>7, <1>8, <1>9, <1>10, <1>11, <1>12,
     <1>13, <1>14, <1>15, <1>16, <1>17, <1>18, <1>19, <1>20, <1>21, <1>22, <1>23,
     <1>24, <1>25, <1>26, <1>27, <1>28, <1>29, <1>30
     DEF Next, EnqueuerStep, WorkerStep

\* Every reachable state of the outbound gateway has the right type: every job
\* names a delivery, every pending entry was read, and what a worker holds is
\* an entry of the stream.
THEOREM TypeCorrect == Spec => []TypeOK
BY InitType, NextType, PTL DEF Spec

------------------------------------------------------------------------------
(* Who changes what *)

\* The steps that change rows, promises, dead letters or the outbox.
LEMMA RowSteps ==
  ASSUME [Next]_vars
  PROVE  \/ UNCHANGED <<status, payload, dlqVars, promised>>
         \/ \E p \in Producers : Submit(p) \/ MarkAccepted(p)
         \/ \E d \in ServiceDeliveries : AcceptService(d)
         \/ CompleteEnqueue
         \/ \E w \in Workers : Begin(w) \/ Retry(w) \/ Succeed(w) \/ Reconcile(w) \/ DeadLetter(w)
         \/ \E o \in Operators : PrepareReplay(o) \/ CompleteReplay(o)
         \/ \E d \in Deliveries : Discard(d)
<1> DEFINE Same == UNCHANGED <<status, payload, dlqVars, promised>>
<1>1. CASE UNCHANGED vars
  BY <1>1 DEF vars, rowVars, historyVars
<1>2. ASSUME NEW p \in Producers, AppendRequest(p) PROVE Same
  BY <1>2 DEF AppendRequest, rowVars, historyVars
<1>3. CASE FetchOutbox \/ Enqueue
  BY <1>3 DEF FetchOutbox, Enqueue, rowVars, historyVars
<1>4. ASSUME NEW w \in Workers, ReadNew(w) \/ (\E e \in redis.pel : ClaimStale(w, e)) \/ Interrupt(w)
      PROVE  Same
  BY <1>4 DEF ReadNew, ClaimStale, Interrupt, rowVars, historyVars
<1>5. ASSUME NEW w \in Workers, Load(w) \/ Resolve(w) \/ Send(w) \/ SetGate(w) \/ Ack(w) \/ Move(w)
      PROVE  Same
  BY <1>5 DEF Load, Resolve, Send, SetGate, Ack, Move, rowVars, historyVars
<1>6. ASSUME NEW o \in Operators, Replay(o) PROVE Same
  BY <1>6 DEF Replay, rowVars, historyVars
<1>7. ASSUME NEW d \in Deliveries, RetryDue(d) PROVE Same
  BY <1>7 DEF RetryDue, historyVars
<1>8. CASE GateOpens \/ Abandon \/ ChangeTarget
  BY <1>8 DEF GateOpens, Abandon, ChangeTarget, rowVars, historyVars
<1> QED
  BY <1>1, <1>2, <1>3, <1>4, <1>5, <1>6, <1>7, <1>8 DEF Next, EnqueuerStep, WorkerStep

\* The steps that run a script or a command on the queue.
LEMMA QueueSteps ==
  ASSUME [Next]_vars
  PROVE  \/ UNCHANGED redis
         \/ \E p \in Producers : AppendRequest(p)
         \/ Enqueue
         \/ \E o \in Operators : Replay(o)
         \/ \E w \in Workers : ReadNew(w) \/ Ack(w) \/ Move(w)
<1>1. CASE UNCHANGED vars
  BY <1>1 DEF vars
<1>2. ASSUME NEW p \in Producers, Submit(p) \/ MarkAccepted(p) PROVE UNCHANGED redis
  BY <1>2 DEF Submit, MarkAccepted
<1>3. ASSUME NEW d \in ServiceDeliveries, AcceptService(d) PROVE UNCHANGED redis
  BY <1>3 DEF AcceptService
<1>4. CASE FetchOutbox \/ CompleteEnqueue
  BY <1>4 DEF FetchOutbox, CompleteEnqueue
<1>5. ASSUME NEW w \in Workers, (\E e \in redis.pel : ClaimStale(w, e)) \/ Interrupt(w)
      PROVE  UNCHANGED redis
  BY <1>5 DEF ClaimStale, Interrupt
<1>6. ASSUME NEW w \in Workers,
             \/ Load(w) \/ Resolve(w) \/ Begin(w) \/ Send(w) \/ SetGate(w)
             \/ Retry(w) \/ Succeed(w) \/ Reconcile(w) \/ DeadLetter(w)
      PROVE  UNCHANGED redis
  BY <1>6 DEF Load, Resolve, Begin, Send, SetGate, Retry, Succeed, Reconcile, DeadLetter
<1>7. ASSUME NEW o \in Operators, PrepareReplay(o) \/ CompleteReplay(o) PROVE UNCHANGED redis
  BY <1>7 DEF PrepareReplay, CompleteReplay
<1>8. ASSUME NEW d \in Deliveries, Discard(d) \/ RetryDue(d) PROVE UNCHANGED redis
  BY <1>8 DEF Discard, RetryDue
<1>9. CASE GateOpens \/ Abandon \/ ChangeTarget
  BY <1>9 DEF GateOpens, Abandon, ChangeTarget
<1> QED
  BY <1>1, <1>2, <1>3, <1>4, <1>5, <1>6, <1>7, <1>8, <1>9 DEF Next, EnqueuerStep, WorkerStep

\* The steps of request handlers, of the outbox loop and of operators.
LEMMA ClientSteps ==
  ASSUME [Next]_vars
  PROVE  \/ UNCHANGED clientVars
         \/ \E p \in Producers : Submit(p) \/ AppendRequest(p) \/ MarkAccepted(p)
         \/ EnqueuerStep
         \/ \E o \in Operators : PrepareReplay(o) \/ Replay(o) \/ CompleteReplay(o)
         \/ Abandon
<1>1. CASE UNCHANGED vars
  BY <1>1 DEF vars
<1>2. ASSUME NEW d \in ServiceDeliveries, AcceptService(d) PROVE UNCHANGED clientVars
  BY <1>2 DEF AcceptService
<1>3. ASSUME NEW w \in Workers, ReadNew(w) \/ (\E e \in redis.pel : ClaimStale(w, e)) \/ Interrupt(w)
      PROVE  UNCHANGED clientVars
  BY <1>3 DEF ReadNew, ClaimStale, Interrupt
<1>4. ASSUME NEW w \in Workers, Load(w) \/ Resolve(w) \/ Begin(w) \/ Send(w) \/ SetGate(w) \/ Retry(w)
      PROVE  UNCHANGED clientVars
  BY <1>4 DEF Load, Resolve, Begin, Send, SetGate, Retry
<1>5. ASSUME NEW w \in Workers, Succeed(w) \/ Reconcile(w) \/ DeadLetter(w) \/ Ack(w) \/ Move(w)
      PROVE  UNCHANGED clientVars
  BY <1>5 DEF Succeed, Reconcile, DeadLetter, Ack, Move
<1>6. ASSUME NEW d \in Deliveries, Discard(d) \/ RetryDue(d) PROVE UNCHANGED clientVars
  BY <1>6 DEF Discard, RetryDue
<1>7. CASE GateOpens \/ ChangeTarget
  BY <1>7 DEF GateOpens, ChangeTarget
<1> QED BY <1>1, <1>2, <1>3, <1>4, <1>5, <1>6, <1>7 DEF Next, WorkerStep

\* The steps that change what a worker holds.
LEMMA WorkerMoves ==
  ASSUME [Next]_vars
  PROVE  \/ UNCHANGED workerVars
         \/ \E w \in Workers :
              \/ ReadNew(w) \/ WorkerStep(w) \/ Interrupt(w)
              \/ \E e \in redis.pel : ClaimStale(w, e)
<1>1. CASE UNCHANGED vars
  BY <1>1 DEF vars
<1>2. ASSUME NEW p \in Producers, Submit(p) \/ AppendRequest(p) \/ MarkAccepted(p)
      PROVE  UNCHANGED workerVars
  BY <1>2 DEF Submit, AppendRequest, MarkAccepted
<1>3. ASSUME NEW d \in ServiceDeliveries, AcceptService(d) PROVE UNCHANGED workerVars
  BY <1>3 DEF AcceptService
<1>4. CASE EnqueuerStep
  BY <1>4 DEF EnqueuerStep, FetchOutbox, Enqueue, CompleteEnqueue
<1>5. ASSUME NEW o \in Operators, PrepareReplay(o) \/ Replay(o) \/ CompleteReplay(o)
      PROVE  UNCHANGED workerVars
  BY <1>5 DEF PrepareReplay, Replay, CompleteReplay
<1>6. ASSUME NEW d \in Deliveries, Discard(d) \/ RetryDue(d) PROVE UNCHANGED workerVars
  BY <1>6 DEF Discard, RetryDue
<1>7. CASE GateOpens \/ Abandon \/ ChangeTarget
  BY <1>7 DEF GateOpens, Abandon, ChangeTarget
<1> QED BY <1>1, <1>2, <1>3, <1>4, <1>5, <1>6, <1>7 DEF Next

\* What runs on the queue, and for which delivery.
Appends(d) ==
  \/ \E p \in Producers : AppendRequest(p) /\ request[p].d = d
  \/ Enqueue /\ enqueuer.d = d /\ enqueuer.gen = 0

Replays(d, g) ==
  \/ \E o \in Operators : Replay(o) /\ action[o].d = d /\ action[o].gen = g
  \/ Enqueue /\ enqueuer.d = d /\ enqueuer.gen = g /\ g # 0

\* What the Redis scripts work on is a queue before and after every step.
LEMMA Scripts ==
  ASSUME TypeOK, [Next]_vars
  PROVE  /\ redis \in Queue(Deliveries) /\ redis' \in Queue(Deliveries)
         /\ Grows(redis, redis')
         /\ \/ /\ redis'.stream = redis.stream /\ redis'.index = redis.index
               /\ redis'.replayIndex = redis.replayIndex
            \/ \E d \in Deliveries : Appends(d) /\ redis' = AppendOnce(redis, d)
            \/ \E d \in Deliveries, g \in Nat :
                 Replays(d, g) /\ redis' = ReplayFromDLQ(redis, d, g)
<1> DEFINE Same == /\ redis'.stream = redis.stream /\ redis'.index = redis.index
                   /\ redis'.replayIndex = redis.replayIndex
<1>0. /\ redis \in Queue(Deliveries) /\ redis' \in Queue(Deliveries)
      /\ ClientsTyped /\ BatchSize \in Nat
  BY NextType, ConstantsAssumption DEF TypeOK, WorkersTyped
<1>1. CASE UNCHANGED redis
  BY <1>0, <1>1, QueueFields DEF Grows
<1>2. ASSUME NEW p \in Producers, AppendRequest(p)
      PROVE  /\ Grows(redis, redis')
             /\ \E d \in Deliveries : Appends(d) /\ redis' = AppendOnce(redis, d)
  <2>1. request[p].d \in Deliveries
    BY <1>0, <1>2, JobFields DEF AppendRequest, ClientsTyped
  <2>2. redis' = AppendOnce(redis, request[p].d)
    BY <1>2 DEF AppendRequest
  <2> QED BY <1>0, <1>2, <2>1, <2>2, AppendOnceType DEF Appends
<1>3. ASSUME Enqueue
      PROVE  /\ Grows(redis, redis')
             /\ \/ \E d \in Deliveries : Appends(d) /\ redis' = AppendOnce(redis, d)
                \/ \E d \in Deliveries, g \in Nat :
                     Replays(d, g) /\ redis' = ReplayFromDLQ(redis, d, g)
  <2>1. enqueuer.d \in Deliveries /\ enqueuer.gen \in Nat
    BY <1>0, <1>3, JobFields DEF Enqueue, ClientsTyped
  <2>2. CASE enqueuer.gen = 0
    <3>1. redis' = AppendOnce(redis, enqueuer.d)
      BY <1>3, <2>2 DEF Enqueue
    <3> QED BY <1>0, <1>3, <2>1, <2>2, <3>1, AppendOnceType DEF Appends
  <2>3. CASE enqueuer.gen # 0
    <3>1. redis' = ReplayFromDLQ(redis, enqueuer.d, enqueuer.gen)
      BY <1>3, <2>3 DEF Enqueue
    <3> QED BY <1>0, <1>3, <2>1, <2>3, <3>1, ReplayFromDLQType DEF Replays
  <2> QED BY <2>2, <2>3
<1>4. ASSUME NEW o \in Operators, Replay(o)
      PROVE  /\ Grows(redis, redis')
             /\ \E d \in Deliveries, g \in Nat :
                  Replays(d, g) /\ redis' = ReplayFromDLQ(redis, d, g)
  <2>1. action[o].d \in Deliveries /\ action[o].gen \in Nat
    BY <1>0, <1>4, JobFields DEF Replay, ClientsTyped
  <2>2. redis' = ReplayFromDLQ(redis, action[o].d, action[o].gen)
    BY <1>4 DEF Replay
  <2> QED BY <1>0, <1>4, <2>1, <2>2, ReplayFromDLQType DEF Replays
<1>5. ASSUME NEW w \in Workers, ReadNew(w) PROVE Grows(redis, redis') /\ Same
  <2>1. redis' = ReadGroup(redis, BatchSize)
    BY <1>5 DEF ReadNew
  <2> QED BY <1>0, <2>1, ReadGroupType, ReadGroupEffect
<1>6. ASSUME NEW w \in Workers, Ack(w) PROVE Grows(redis, redis') /\ Same
  <2>1. redis' = Acknowledge(redis, entry[w])
    BY <1>6 DEF Ack
  <2> QED BY <1>0, <2>1, AcknowledgeType, AcknowledgeEffect
<1>7. ASSUME NEW w \in Workers, Move(w) PROVE Grows(redis, redis') /\ Same
  <2>1. redis' = MoveToDLQ(redis, entry[w], Current(w)) /\ Current(w) \in Deliveries
    BY <1>0, <1>7, QueueFields DEF Move, Current, TypeOK, WorkersTyped
  <2> QED BY <1>0, <2>1, MoveToDLQType, MoveToDLQEffect
<1> QED BY <1>0, <1>1, <1>2, <1>3, <1>4, <1>5, <1>6, <1>7, QueueSteps

------------------------------------------------------------------------------
(* Rows *)

\* The steps that change a status, and how.
LEMMA StatusSteps ==
  ASSUME TypeOK, [Next]_vars, NEW d \in Deliveries, status'[d] # status[d]
  PROVE  \/ /\ \E p \in Producers : Submit(p)
            /\ d \in WorkloadDeliveries /\ status[d] = "none" /\ status'[d] = "pending_enqueue"
         \/ /\ \E p \in Producers : MarkAccepted(p) /\ request[p].d = d
            /\ status[d] = "pending_enqueue" /\ status'[d] = "accepted"
         \/ /\ d \in ServiceDeliveries /\ AcceptService(d)
            /\ status[d] = "none" /\ status'[d] = "pending_enqueue"
         \/ /\ CompleteEnqueue /\ enqueuer.d = d /\ <<d, enqueuer.gen>> \in outbox
            /\ status[d] \in {"pending_enqueue", "replay_pending"} /\ status'[d] = "accepted"
         \/ \E w \in Workers :
              /\ Current(w) = d
              /\ \/ Begin(w) /\ status[d] \in {"accepted", "retrying"} /\ status'[d] = "processing"
                 \/ Retry(w) /\ status'[d] = "retrying"
                 \/ Succeed(w) /\ status'[d] = "succeeded"
                 \/ Reconcile(w) /\ status'[d] = "reconciling"
                 \/ DeadLetter(w) /\ status'[d] = "dead-lettered"
         \/ \E o \in Operators :
              /\ PrepareReplay(o) /\ PrepareReplayOf(o, d)
              /\ dlq[d] = "active" /\ status'[d] = "replay_pending"
         \/ /\ \E o \in Operators : CompleteReplay(o) /\ action[o].d = d
            /\ status[d] = "replay_pending" /\ status'[d] = "accepted"
         \/ Discard(d) /\ status[d] = "dead-lettered" /\ status'[d] = "discarded"
<1>0. status \in [Deliveries -> Status]
  BY DEF TypeOK, RowsTyped
<1>1. ASSUME NEW x, NEW s, status' = [status EXCEPT ![x] = s]
      PROVE  x = d /\ status'[d] = s
  BY <1>0, <1>1
<1>2. UNCHANGED status => FALSE
  OBVIOUS
<1>3. ASSUME NEW p \in Producers, Submit(p)
      PROVE  d \in WorkloadDeliveries /\ status[d] = "none" /\ status'[d] = "pending_enqueue"
  BY <1>0, <1>3 DEF Submit
<1>4. ASSUME NEW p \in Producers, MarkAccepted(p)
      PROVE  request[p].d = d /\ status[d] = "pending_enqueue" /\ status'[d] = "accepted"
  BY <1>0, <1>4 DEF MarkAccepted
<1>5. ASSUME NEW x \in ServiceDeliveries, AcceptService(x)
      PROVE  x = d /\ status[d] = "none" /\ status'[d] = "pending_enqueue"
  BY <1>1, <1>5 DEF AcceptService
<1>6. ASSUME CompleteEnqueue
      PROVE  /\ enqueuer.d = d /\ <<d, enqueuer.gen>> \in outbox
             /\ status[d] \in {"pending_enqueue", "replay_pending"} /\ status'[d] = "accepted"
  BY <1>0, <1>6 DEF CompleteEnqueue
<1>7. ASSUME NEW w \in Workers, Begin(w)
      PROVE  /\ Current(w) = d
             /\ status[d] \in {"accepted", "retrying"} /\ status'[d] = "processing"
  <2>1. /\ status[Current(w)] \in {"accepted", "retrying"}
        /\ status' = [status EXCEPT ![Current(w)] = "processing"]
    BY <1>2, <1>7 DEF Begin
  <2> QED BY <1>1, <2>1
<1>8. ASSUME NEW w \in Workers PROVE Retry(w) => Current(w) = d /\ status'[d] = "retrying"
  BY <1>1 DEF Retry
<1>9. ASSUME NEW w \in Workers PROVE Succeed(w) => Current(w) = d /\ status'[d] = "succeeded"
  BY <1>1 DEF Succeed
<1>10. ASSUME NEW w \in Workers PROVE Reconcile(w) => Current(w) = d /\ status'[d] = "reconciling"
  BY <1>1 DEF Reconcile
<1>11. ASSUME NEW w \in Workers PROVE DeadLetter(w) => Current(w) = d /\ status'[d] = "dead-lettered"
  BY <1>1 DEF DeadLetter
<1>12. ASSUME NEW o \in Operators, PrepareReplay(o)
       PROVE  PrepareReplayOf(o, d) /\ dlq[d] = "active" /\ status'[d] = "replay_pending"
  <2>1. PICK x \in Deliveries : PrepareReplayOf(o, x)
    BY <1>12 DEF PrepareReplay
  <2>2. dlq[x] = "active" /\ status' = [status EXCEPT ![x] = "replay_pending"]
    BY <1>2, <2>1 DEF PrepareReplayOf
  <2> QED BY <1>1, <2>1, <2>2
<1>13. ASSUME NEW o \in Operators, CompleteReplay(o)
       PROVE  action[o].d = d /\ status[d] = "replay_pending" /\ status'[d] = "accepted"
  BY <1>0, <1>13 DEF CompleteReplay
<1>14. ASSUME NEW x \in Deliveries, Discard(x)
       PROVE  x = d /\ status[d] = "dead-lettered" /\ status'[d] = "discarded"
  BY <1>0, <1>14 DEF Discard
<1> QED
  BY <1>2, <1>3, <1>4, <1>5, <1>6, <1>7, <1>8, <1>9, <1>10, <1>11, <1>12, <1>13, <1>14, RowSteps

\* No row disappears.
LEMMA RowsStay ==
  ASSUME TypeOK, [Next]_vars, NEW d \in Deliveries, status[d] # "none"
  PROVE  status'[d] # "none"
BY StatusSteps

\* The delivery a worker holds is one of the gateway's.
LEMMA CurrentType ==
  ASSUME TypeOK, NEW w \in Workers, pc[w] # "idle"
  PROVE  Current(w) \in Deliveries /\ entry[w] \in Entries(redis)
BY QueueFields DEF TypeOK, WorkersTyped, Current

\* A delivery is dead-lettered when it has a row.
LEMMA DeadLettersStored ==
  ASSUME TypeOK, Stored, [Next]_vars, NEW d \in Deliveries, dlq'[d] # "none"
  PROVE  status[d] # "none"
<1>0. dlq \in [Deliveries -> DLQState]
  BY DEF TypeOK, RowsTyped
<1>1. ASSUME dlq'[d] # "none" => dlq[d] # "none" PROVE status[d] # "none"
  BY <1>1 DEF Stored
<1>2. CASE UNCHANGED dlqVars
  BY <1>1, <1>2 DEF dlqVars
<1>3. ASSUME NEW p \in Producers, Submit(p) \/ MarkAccepted(p) PROVE status[d] # "none"
  BY <1>2, <1>3 DEF Submit, MarkAccepted
<1>4. ASSUME NEW x \in ServiceDeliveries, AcceptService(x) PROVE status[d] # "none"
  BY <1>1, <1>4 DEF AcceptService
<1>5. CASE CompleteEnqueue
  BY <1>0, <1>1, <1>5 DEF CompleteEnqueue
<1>6. ASSUME NEW w \in Workers, Begin(w) \/ Retry(w) \/ Succeed(w) \/ Reconcile(w)
      PROVE  status[d] # "none"
  BY <1>2, <1>6 DEF Begin, Retry, Succeed, Reconcile
<1>7. ASSUME NEW w \in Workers, DeadLetter(w) PROVE status[d] # "none"
  <2>1. dlq' = [dlq EXCEPT ![Current(w)] = "active"] /\ pc[w] # "idle"
    BY <1>7 DEF DeadLetter
  <2>2. CASE d = Current(w)
    BY <2>1, <2>2, CurrentType DEF Stored, Current
  <2>3. CASE d # Current(w)
    BY <1>0, <1>1, <2>1, <2>3
  <2> QED BY <2>2, <2>3
<1>8. ASSUME NEW o \in Operators, PrepareReplay(o) PROVE status[d] # "none"
  <2>1. PICK x \in Deliveries : PrepareReplayOf(o, x)
    BY <1>8 DEF PrepareReplay
  <2>2. dlq[x] # "none" /\ (dlq' = [dlq EXCEPT ![x] = "replay_pending"] \/ UNCHANGED dlq)
    BY <2>1 DEF PrepareReplayOf, dlqVars
  <2> QED BY <1>0, <1>1, <2>2
<1>9. ASSUME NEW o \in Operators, CompleteReplay(o) PROVE status[d] # "none"
  BY <1>0, <1>1, <1>9 DEF CompleteReplay
<1>10. ASSUME NEW x \in Deliveries, Discard(x) PROVE status[d] # "none"
  BY <1>0, <1>1, <1>10 DEF Discard
<1> QED BY <1>2, <1>3, <1>4, <1>5, <1>6, <1>7, <1>8, <1>9, <1>10, RowSteps

\* Where the rows of the outbox come from.
LEMMA OutboxSteps ==
  ASSUME TypeOK, [Next]_vars, NEW row \in outbox'
  PROVE  \/ row \in outbox
         \/ \E d \in ServiceDeliveries : AcceptService(d) /\ row = <<d, 0>>
         \/ \E o \in Operators, d \in Deliveries :
              /\ PrepareReplay(o) /\ PrepareReplayOf(o, d)
              /\ dlq[d] = "active" /\ row = <<d, replays[d] + 1>>
              /\ replays' = [replays EXCEPT ![d] = replays[d] + 1]
<1>1. CASE UNCHANGED outbox
  BY <1>1
<1>2. ASSUME NEW d \in ServiceDeliveries, AcceptService(d)
      PROVE  row \in outbox \/ row = <<d, 0>>
  BY <1>2 DEF AcceptService
<1>3. CASE CompleteEnqueue
  BY <1>3 DEF CompleteEnqueue
<1>4. ASSUME NEW o \in Operators, PrepareReplay(o)
      PROVE  \/ row \in outbox
             \/ \E d \in Deliveries :
                  /\ PrepareReplayOf(o, d)
                  /\ dlq[d] = "active" /\ row = <<d, replays[d] + 1>>
                  /\ replays' = [replays EXCEPT ![d] = replays[d] + 1]
  <2>1. PICK d \in Deliveries : PrepareReplayOf(o, d)
    BY <1>4 DEF PrepareReplay
  <2>2. CASE dlq[d] = "active"
    <3>1. replays' = [replays EXCEPT ![d] = replays[d] + 1]
      BY <2>1, <2>2 DEF PrepareReplayOf
    <3>2. row \in outbox \/ row = <<d, replays[d] + 1>>
      BY <2>1, <2>2 DEF PrepareReplayOf
    <3> QED BY <2>1, <2>2, <3>1, <3>2
  <2>3. CASE dlq[d] # "active"
    BY <2>1, <2>3 DEF PrepareReplayOf, dlqVars
  <2> QED BY <2>2, <2>3
<1>5. ASSUME NEW p \in Producers, Submit(p) \/ MarkAccepted(p) PROVE UNCHANGED outbox
  BY <1>5 DEF Submit, MarkAccepted, dlqVars
<1>6. ASSUME NEW w \in Workers, Begin(w) \/ Retry(w) \/ Succeed(w) \/ Reconcile(w) \/ DeadLetter(w)
      PROVE  UNCHANGED outbox
  BY <1>6 DEF Begin, Retry, Succeed, Reconcile, DeadLetter, dlqVars
<1>7. ASSUME NEW o \in Operators, CompleteReplay(o) PROVE UNCHANGED outbox
  BY <1>7 DEF CompleteReplay
<1>8. ASSUME NEW d \in Deliveries, Discard(d) PROVE UNCHANGED outbox
  BY <1>8 DEF Discard
<1> QED BY <1>1, <1>2, <1>3, <1>4, <1>5, <1>6, <1>7, <1>8, RowSteps DEF dlqVars

\* Where the job of a client comes from: it keeps its delivery and generation.
LEMMA JobSteps ==
  ASSUME TypeOK, [Next]_vars
  PROVE  /\ \A p \in Producers : request'[p] # Idle =>
              \/ Submit(p) /\ \E d \in WorkloadDeliveries : request'[p] = Job("append", d, 0)
              \/ /\ request[p] # Idle /\ request'[p].d = request[p].d
                 /\ request'[p].pc = request[p].pc \/ AppendRequest(p)
         /\ \A o \in Operators : action'[o] # Idle =>
              \/ /\ PrepareReplay(o)
                 /\ \E d \in Deliveries : /\ PrepareReplayOf(o, d)
                                          /\ action'[o] = Job("replay", d, replays'[d])
              \/ /\ action[o] # Idle
                 /\ action'[o].d = action[o].d /\ action'[o].gen = action[o].gen
                 /\ action'[o].pc = action[o].pc \/ Replay(o)
         /\ enqueuer' # Idle =>
              \/ \E row \in outbox : enqueuer' = Job("enqueue", row[1], row[2])
              \/ /\ enqueuer # Idle
                 /\ enqueuer'.d = enqueuer.d /\ enqueuer'.gen = enqueuer.gen
                 /\ enqueuer'.pc = enqueuer.pc \/ Enqueue
<1>0. ClientsTyped /\ replays \in [Deliveries -> Nat]
  BY DEF TypeOK, RowsTyped
<1> DEFINE R(p) == request'[p] # Idle =>
                     \/ Submit(p) /\ \E d \in WorkloadDeliveries : request'[p] = Job("append", d, 0)
                     \/ /\ request[p] # Idle /\ request'[p].d = request[p].d
                        /\ request'[p].pc = request[p].pc \/ AppendRequest(p)
           A(o) == action'[o] # Idle =>
                     \/ /\ PrepareReplay(o)
                        /\ \E d \in Deliveries : /\ PrepareReplayOf(o, d)
                                                 /\ action'[o] = Job("replay", d, replays'[d])
                     \/ /\ action[o] # Idle
                        /\ action'[o].d = action[o].d /\ action'[o].gen = action[o].gen
                        /\ action'[o].pc = action[o].pc \/ Replay(o)
           E == enqueuer' # Idle =>
                  \/ \E row \in outbox : enqueuer' = Job("enqueue", row[1], row[2])
                  \/ /\ enqueuer # Idle
                     /\ enqueuer'.d = enqueuer.d /\ enqueuer'.gen = enqueuer.gen
                     /\ enqueuer'.pc = enqueuer.pc \/ Enqueue
           Rs == \A p \in Producers : R(p)
           As == \A o \in Operators : A(o)
<1>1. UNCHANGED request => Rs
  OBVIOUS
<1>2. UNCHANGED action => As
  OBVIOUS
<1>3. UNCHANGED enqueuer => E
  OBVIOUS
<1>4. ASSUME NEW p \in Producers, NEW j, request' = [request EXCEPT ![p] = j], R(p) PROVE Rs
  BY <1>0, <1>4 DEF ClientsTyped
<1>5. ASSUME NEW o \in Operators, NEW j, action' = [action EXCEPT ![o] = j], A(o) PROVE As
  BY <1>0, <1>5 DEF ClientsTyped
<1> HIDE DEF Rs, As, E
<1>6. ASSUME NEW p \in Producers, Submit(p) PROVE Rs /\ As /\ E
  <2>1. PICK d \in WorkloadDeliveries : request' = [request EXCEPT ![p] = Job("append", d, 0)]
    BY <1>6 DEF Submit
  <2>2. R(p)
    BY <1>0, <1>6, <2>1 DEF ClientsTyped
  <2>3. UNCHANGED <<action, enqueuer>>
    BY <1>6 DEF Submit
  <2> QED BY <1>2, <1>3, <1>4, <2>1, <2>2, <2>3
<1>7. ASSUME NEW p \in Producers, AppendRequest(p) PROVE Rs /\ As /\ E
  <2>1. /\ request' = [request EXCEPT ![p] = Job("mark", request[p].d, 0)]
        /\ UNCHANGED <<action, enqueuer>> /\ request[p] # Idle
    BY <1>7 DEF AppendRequest, Idle, Job
  <2>2. R(p)
    BY <1>0, <1>7, <2>1 DEF ClientsTyped, Job
  <2> QED BY <1>2, <1>3, <1>4, <2>1, <2>2
<1>8. ASSUME NEW p \in Producers, request' = [request EXCEPT ![p] = Idle] PROVE Rs
  <2>1. R(p)
    BY <1>0, <1>8 DEF ClientsTyped
  <2> QED BY <1>4, <1>8, <2>1
<1>9. ASSUME NEW p \in Producers, MarkAccepted(p) PROVE Rs /\ As /\ E
  BY <1>2, <1>3, <1>8, <1>9 DEF MarkAccepted
<1>10. ASSUME FetchOutbox PROVE Rs /\ As /\ E
  BY <1>1, <1>2, <1>10 DEF FetchOutbox, E
<1>11. ASSUME Enqueue PROVE Rs /\ As /\ E
  <2>1. enqueuer # Idle /\ enqueuer' = Job("complete", enqueuer.d, enqueuer.gen)
    BY <1>11 DEF Enqueue, Idle, Job
  <2>2. E
    BY <1>11, <2>1 DEF Job, E
  <2> QED BY <1>1, <1>2, <1>11, <2>2 DEF Enqueue
<1>12. ASSUME CompleteEnqueue PROVE Rs /\ As /\ E
  BY <1>1, <1>2, <1>12 DEF CompleteEnqueue, E
<1>13. ASSUME NEW o \in Operators, PrepareReplay(o) PROVE Rs /\ As /\ E
  <2>1. PICK d \in Deliveries : PrepareReplayOf(o, d)
    BY <1>13 DEF PrepareReplay
  <2>2. action' = [action EXCEPT ![o] = Job("replay", d, replays'[d])]
    BY <1>0, <2>1 DEF PrepareReplayOf, dlqVars
  <2>3. A(o)
    BY <1>0, <1>13, <2>1, <2>2 DEF ClientsTyped
  <2>4. UNCHANGED <<request, enqueuer>>
    BY <1>13 DEF PrepareReplay
  <2> QED BY <1>1, <1>3, <1>5, <2>2, <2>3, <2>4
<1>14. ASSUME NEW o \in Operators, Replay(o) PROVE Rs /\ As /\ E
  <2>1. /\ action' = [action EXCEPT ![o] = Job("complete", action[o].d, action[o].gen)]
        /\ UNCHANGED <<request, enqueuer>> /\ action[o] # Idle
    BY <1>14 DEF Replay, Idle, Job
  <2>2. A(o)
    BY <1>0, <1>14, <2>1 DEF ClientsTyped, Job
  <2> QED BY <1>1, <1>3, <1>5, <2>1, <2>2
<1>15. ASSUME NEW o \in Operators, action' = [action EXCEPT ![o] = Idle] PROVE As
  <2>1. A(o)
    BY <1>0, <1>15 DEF ClientsTyped
  <2> QED BY <1>5, <1>15, <2>1
<1>16. ASSUME NEW o \in Operators, CompleteReplay(o) PROVE Rs /\ As /\ E
  BY <1>1, <1>3, <1>15, <1>16 DEF CompleteReplay
<1>17. ASSUME Abandon PROVE Rs /\ As /\ E
  <2>1. ASSUME NEW p \in Producers, request' = [request EXCEPT ![p] = Idle], UNCHANGED <<action, enqueuer>>
        PROVE  Rs /\ As /\ E
    BY <1>2, <1>3, <1>8, <2>1
  <2>2. ASSUME NEW o \in Operators, action' = [action EXCEPT ![o] = Idle], UNCHANGED <<request, enqueuer>>
        PROVE  Rs /\ As /\ E
    BY <1>1, <1>3, <1>15, <2>2
  <2>3. CASE enqueuer' = Idle /\ UNCHANGED <<request, action>>
    BY <1>1, <1>2, <2>3 DEF E
  <2> QED BY <1>17, <2>1, <2>2, <2>3 DEF Abandon
<1>18. ASSUME UNCHANGED clientVars PROVE Rs /\ As /\ E
  BY <1>1, <1>2, <1>3, <1>18 DEF clientVars
<1>19. Rs /\ As /\ E
  BY <1>6, <1>7, <1>9, <1>10, <1>11, <1>12, <1>13, <1>14, <1>16, <1>17, <1>18, ClientSteps DEF EnqueuerStep
<1> QED BY <1>19 DEF Rs, As, E

\* Whoever holds a delivery holds one that was stored, and it stays stored.
LEMMA StoredKept ==
  ASSUME TypeOK, Stored, [Next]_vars
  PROVE  Stored'
<1>0. TypeOK' /\ ClientsTyped /\ RowsTyped /\ ClientsTyped' /\ RowsTyped'
  BY NextType DEF TypeOK
<1>1. \A e \in Entries(redis') : status'[redis'.stream[e]] # "none"
  <2>1. ASSUME redis'.stream = redis.stream
        PROVE  \A e \in Entries(redis') : status'[redis'.stream[e]] # "none"
    BY <2>1, Scripts, RowsStay, QueueFields DEF Stored, Entries
  <2>2. ASSUME NEW d \in Deliveries, status[d] # "none", AddsOnly(redis, redis', d)
        PROVE  \A e \in Entries(redis') : status'[redis'.stream[e]] # "none"
    <3>1. ASSUME NEW e \in Entries(redis)
          PROVE  redis.stream[e] \in Deliveries /\ status'[redis.stream[e]] # "none"
      BY Scripts, RowsStay, QueueFields DEF Stored
    <3>2. status'[d] # "none"
      BY <2>2, RowsStay
    <3> QED BY <2>2, <3>1, <3>2 DEF AddsOnly
  <2>3. ASSUME NEW d \in Deliveries, Appends(d), redis' = AppendOnce(redis, d)
        PROVE  status[d] # "none" /\ AddsOnly(redis, redis', d)
    BY <2>3, Scripts, AppendOnceType DEF Appends, AppendRequest, Enqueue, Stored, Idle, Job
  <2>4. ASSUME NEW d \in Deliveries, NEW g \in Nat, Replays(d, g), redis' = ReplayFromDLQ(redis, d, g)
        PROVE  status[d] # "none" /\ AddsOnly(redis, redis', d)
    BY <2>4, Scripts, ReplayFromDLQType DEF Replays, Replay, Enqueue, Stored, Idle, Job
  <2> QED BY <2>1, <2>2, <2>3, <2>4, Scripts
<1>2. ASSUME NEW p \in Producers, request'[p] # Idle PROVE status'[request'[p].d] # "none"
  <2>1. ASSUME NEW d \in WorkloadDeliveries, request'[p] = Job("append", d, 0), Submit(p)
        PROVE  status'[request'[p].d] # "none"
    <3>1. d \in Deliveries /\ request'[p].d = d
      BY <2>1 DEF Deliveries, Job
    <3>2. status'[d] # "none"
      <4>1. PICK x \in WorkloadDeliveries :
              /\ request' = [request EXCEPT ![p] = Job("append", x, 0)]
              /\ status' = [status EXCEPT ![x] = IF @ = "none" THEN "pending_enqueue" ELSE @]
        BY <2>1 DEF Submit
      <4>2. x = d
        BY <1>0, <2>1, <4>1 DEF ClientsTyped, Job
      <4> QED BY <1>0, <3>1, <4>1, <4>2 DEF RowsTyped
    <3> QED BY <3>1, <3>2
  <2>2. CASE request[p] # Idle /\ request'[p].d = request[p].d
    <3>1. request[p].d \in Deliveries
      BY <1>0, <2>2, JobFields DEF ClientsTyped
    <3> QED BY <2>2, <3>1, RowsStay DEF Stored
  <2> QED BY <1>2, <2>1, <2>2, JobSteps
<1>3. ASSUME NEW o \in Operators, action'[o] # Idle PROVE status'[action'[o].d] # "none"
  <2>1. ASSUME NEW d \in Deliveries, PrepareReplayOf(o, d), action'[o] = Job("replay", d, replays'[d])
        PROVE  status'[action'[o].d] # "none"
    <3>1. dlq[d] # "none"
      BY <2>1 DEF PrepareReplayOf
    <3> QED BY <2>1, <3>1, RowsStay DEF Stored, Job
  <2>2. CASE action[o] # Idle /\ action'[o].d = action[o].d
    <3>1. action[o].d \in Deliveries
      BY <1>0, <2>2, JobFields DEF ClientsTyped
    <3> QED BY <2>2, <3>1, RowsStay DEF Stored
  <2> QED BY <1>3, <2>1, <2>2, JobSteps
<1>4. ASSUME enqueuer' # Idle PROVE status'[enqueuer'.d] # "none"
  <2>1. ASSUME NEW row \in outbox, enqueuer' = Job("enqueue", row[1], row[2])
        PROVE  status'[enqueuer'.d] # "none"
    <3>1. row[1] \in Deliveries
      BY <1>0 DEF RowsTyped, Deliveries
    <3> QED BY <2>1, <3>1, RowsStay DEF Stored, Job
  <2>2. CASE enqueuer # Idle /\ enqueuer'.d = enqueuer.d
    <3>1. enqueuer.d \in Deliveries
      BY <1>0, <2>2, JobFields DEF ClientsTyped
    <3> QED BY <2>2, <3>1, RowsStay DEF Stored
  <2> QED BY <1>4, <2>1, <2>2, JobSteps
<1>5. ASSUME NEW row \in outbox' PROVE status'[row[1]] # "none"
  <2>0. row[1] \in Deliveries
    BY <1>0 DEF RowsTyped, Deliveries
  <2>1. CASE row \in outbox
    BY <2>0, <2>1, RowsStay DEF Stored
  <2>2. ASSUME NEW d \in ServiceDeliveries, AcceptService(d), row = <<d, 0>>
        PROVE  status'[row[1]] # "none"
    BY <1>0, <2>0, <2>2 DEF AcceptService, RowsTyped
  <2>3. ASSUME NEW d \in Deliveries, dlq[d] = "active", row = <<d, replays[d] + 1>>
        PROVE  status'[row[1]] # "none"
    BY <2>3, RowsStay DEF Stored
  <2> QED BY <2>1, <2>2, <2>3, OutboxSteps
<1>6. \A d \in Deliveries : dlq'[d] # "none" => status'[d] # "none"
  BY DeadLettersStored, RowsStay
<1> QED BY <1>1, <1>2, <1>3, <1>4, <1>5, <1>6 DEF Stored

------------------------------------------------------------------------------
(* One entry per generation *)

\* Whoever replays a generation replays one that was prepared.
Numbered ==
  /\ \A d \in Deliveries : dlq[d] = "replay_pending" => replays[d] # 0
  /\ \A row \in outbox : row[2] <= replays[row[1]]
  /\ enqueuer # Idle => enqueuer.gen <= replays[enqueuer.d]
  /\ \A o \in Operators : action[o] # Idle => action[o].gen \in 1 .. replays[action[o].d]

\* The hashes of the scripts say how many entries a delivery has.
Counted == \A d \in Deliveries : CountedBy(redis, d, replays[d])

\* Only a replay of an active dead letter counts a generation.
LEMMA ReplaysGrow ==
  ASSUME TypeOK, [Next]_vars
  PROVE  /\ \A d \in Deliveries : replays'[d] \in Nat /\ replays[d] <= replays'[d]
         /\ \/ UNCHANGED replays
            \/ \E o \in Operators, x \in Deliveries :
                 /\ PrepareReplay(o) /\ PrepareReplayOf(o, x) /\ dlq[x] = "active"
                 /\ replays' = [replays EXCEPT ![x] = replays[x] + 1]
<1>0. replays \in [Deliveries -> Nat]
  BY DEF TypeOK, RowsTyped
<1> DEFINE Grown == \A d \in Deliveries : replays'[d] \in Nat /\ replays[d] <= replays'[d]
<1>1. UNCHANGED replays => Grown
  BY <1>0
<1>2. ASSUME NEW o \in Operators, PrepareReplay(o)
      PROVE  \/ UNCHANGED replays
             \/ \E x \in Deliveries :
                  /\ PrepareReplayOf(o, x) /\ dlq[x] = "active"
                  /\ replays' = [replays EXCEPT ![x] = replays[x] + 1]
  BY <1>2 DEF PrepareReplay, PrepareReplayOf, dlqVars
<1>3. ASSUME NEW x \in Deliveries, replays' = [replays EXCEPT ![x] = replays[x] + 1] PROVE Grown
  BY <1>0, <1>3
<1>4. ASSUME NEW p \in Producers, Submit(p) \/ MarkAccepted(p) PROVE UNCHANGED replays
  BY <1>4 DEF Submit, MarkAccepted, dlqVars
<1>5. ASSUME NEW x \in ServiceDeliveries, AcceptService(x) PROVE UNCHANGED replays
  BY <1>5 DEF AcceptService
<1>6. CompleteEnqueue => UNCHANGED replays
  BY DEF CompleteEnqueue
<1>7. ASSUME NEW w \in Workers, Begin(w) \/ Retry(w) \/ Succeed(w) \/ Reconcile(w) \/ DeadLetter(w)
      PROVE  UNCHANGED replays
  BY <1>7 DEF Begin, Retry, Succeed, Reconcile, DeadLetter, dlqVars
<1>8. ASSUME NEW o \in Operators, CompleteReplay(o) PROVE UNCHANGED replays
  BY <1>8 DEF CompleteReplay
<1>9. ASSUME NEW x \in Deliveries, Discard(x) PROVE UNCHANGED replays
  BY <1>9 DEF Discard
<1> QED BY <1>1, <1>2, <1>3, <1>4, <1>5, <1>6, <1>7, <1>8, <1>9, RowSteps DEF dlqVars

\* Only such a replay leaves a dead letter waiting for its replay.
LEMMA PendingReplays ==
  ASSUME TypeOK, [Next]_vars, NEW d \in Deliveries, dlq'[d] = "replay_pending"
  PROVE  \/ dlq[d] = "replay_pending"
         \/ /\ dlq[d] = "active" /\ replays' = [replays EXCEPT ![d] = replays[d] + 1]
            /\ status' = [status EXCEPT ![d] = "replay_pending"]
            /\ UNCHANGED redis
<1>0. dlq \in [Deliveries -> DLQState]
  BY DEF TypeOK, RowsTyped
<1>1. CASE UNCHANGED dlqVars
  BY <1>1 DEF dlqVars
<1>2. ASSUME NEW p \in Producers, Submit(p) \/ MarkAccepted(p) PROVE UNCHANGED dlqVars
  BY <1>2 DEF Submit, MarkAccepted
<1>3. ASSUME NEW x \in ServiceDeliveries, AcceptService(x) PROVE dlq[d] = "replay_pending"
  BY <1>3 DEF AcceptService
<1>4. ASSUME CompleteEnqueue PROVE dlq[d] = "replay_pending"
  BY <1>0, <1>4 DEF CompleteEnqueue
<1>5. ASSUME NEW w \in Workers, Begin(w) \/ Retry(w) \/ Succeed(w) \/ Reconcile(w)
      PROVE  UNCHANGED dlqVars
  BY <1>5 DEF Begin, Retry, Succeed, Reconcile
<1>6. ASSUME NEW w \in Workers, DeadLetter(w) PROVE dlq[d] = "replay_pending"
  BY <1>0, <1>6 DEF DeadLetter
<1>7. ASSUME NEW o \in Operators, PrepareReplay(o)
      PROVE  \/ dlq[d] = "replay_pending"
             \/ /\ dlq[d] = "active" /\ replays' = [replays EXCEPT ![d] = replays[d] + 1]
                /\ status' = [status EXCEPT ![d] = "replay_pending"]
                /\ UNCHANGED redis
  <2>1. PICK x \in Deliveries : PrepareReplayOf(o, x)
    BY <1>7 DEF PrepareReplay
  <2>2. CASE dlq[x] = "active"
    <3>1. /\ dlq' = [dlq EXCEPT ![x] = "replay_pending"]
          /\ status' = [status EXCEPT ![x] = "replay_pending"]
          /\ replays' = [replays EXCEPT ![x] = replays[x] + 1]
      BY <2>1, <2>2 DEF PrepareReplayOf
    <3> QED BY <1>0, <1>7, <2>2, <3>1 DEF PrepareReplay
  <2>3. CASE dlq[x] # "active"
    BY <2>1, <2>3 DEF PrepareReplayOf, dlqVars
  <2> QED BY <2>2, <2>3
<1>8. ASSUME NEW o \in Operators, CompleteReplay(o) PROVE dlq[d] = "replay_pending"
  BY <1>0, <1>8 DEF CompleteReplay
<1>9. ASSUME NEW x \in Deliveries, Discard(x) PROVE dlq[d] = "replay_pending"
  BY <1>0, <1>9 DEF Discard
<1> QED BY <1>1, <1>2, <1>3, <1>4, <1>5, <1>6, <1>7, <1>8, <1>9, RowSteps DEF dlqVars

\* Generations stay among those that were prepared.
LEMMA NumberedKept ==
  ASSUME TypeOK, Numbered, [Next]_vars
  PROVE  Numbered'
<1>0. /\ RowsTyped /\ ClientsTyped /\ replays \in [Deliveries -> Nat]
      /\ \A d \in Deliveries : replays'[d] \in Nat /\ replays[d] <= replays'[d]
  BY ReplaysGrow DEF TypeOK, RowsTyped
<1>1. ASSUME NEW d \in Deliveries, dlq'[d] = "replay_pending" PROVE replays'[d] # 0
  <2>1. CASE dlq[d] = "replay_pending"
    BY <1>0, <2>1 DEF Numbered
  <2>2. CASE replays' = [replays EXCEPT ![d] = replays[d] + 1]
    BY <1>0, <2>2
  <2> QED BY <1>1, <2>1, <2>2, PendingReplays
<1>2. ASSUME NEW row \in outbox' PROVE row[2] <= replays'[row[1]]
  <2>1. CASE row \in outbox
    <3>1. row[1] \in Deliveries /\ row[2] \in Nat /\ row[2] <= replays[row[1]]
      BY <1>0, <2>1 DEF RowsTyped, Deliveries, Numbered
    <3> QED BY <1>0, <3>1
  <2>2. ASSUME NEW d \in ServiceDeliveries, row = <<d, 0>> PROVE row[2] <= replays'[row[1]]
    BY <1>0, <2>2 DEF Deliveries
  <2>3. ASSUME NEW d \in Deliveries, row = <<d, replays[d] + 1>>,
               replays' = [replays EXCEPT ![d] = replays[d] + 1]
        PROVE  row[2] <= replays'[row[1]]
    BY <1>0, <2>3
  <2> QED BY <2>1, <2>2, <2>3, OutboxSteps
<1>3. ASSUME enqueuer' # Idle PROVE enqueuer'.gen <= replays'[enqueuer'.d]
  <2>1. ASSUME NEW row \in outbox, enqueuer' = Job("enqueue", row[1], row[2])
        PROVE  enqueuer'.gen <= replays'[enqueuer'.d]
    <3>1. row[1] \in Deliveries /\ row[2] \in Nat /\ row[2] <= replays[row[1]]
      BY <1>0 DEF RowsTyped, Deliveries, Numbered
    <3> QED BY <1>0, <2>1, <3>1 DEF Job
  <2>2. CASE enqueuer # Idle /\ enqueuer'.d = enqueuer.d /\ enqueuer'.gen = enqueuer.gen
    <3>1. enqueuer.d \in Deliveries /\ enqueuer.gen \in Nat
      BY <1>0, <2>2, JobFields DEF ClientsTyped
    <3>2. enqueuer.gen <= replays[enqueuer.d]
      BY <2>2 DEF Numbered
    <3> QED BY <1>0, <2>2, <3>1, <3>2
  <2> QED BY <1>3, <2>1, <2>2, JobSteps
<1>4. ASSUME NEW o \in Operators, action'[o] # Idle
      PROVE  action'[o].gen \in 1 .. replays'[action'[o].d]
  <2>1. ASSUME NEW d \in Deliveries, PrepareReplayOf(o, d), action'[o] = Job("replay", d, replays'[d])
        PROVE  action'[o].gen \in 1 .. replays'[action'[o].d]
    <3>1. replays'[d] # 0
      <4>1. CASE dlq[d] = "replay_pending"
        BY <1>0, <4>1 DEF Numbered
      <4>2. CASE dlq[d] # "replay_pending"
        BY <1>0, <2>1, <4>2 DEF PrepareReplayOf
      <4> QED BY <4>1, <4>2
    <3>2. replays'[d] \in 1 .. replays'[d]
      BY <1>0, <3>1
    <3> QED BY <2>1, <3>2 DEF Job
  <2>2. CASE action[o] # Idle /\ action'[o].d = action[o].d /\ action'[o].gen = action[o].gen
    <3>1. action[o].d \in Deliveries
      BY <1>0, <2>2, JobFields DEF ClientsTyped
    <3>2. action[o].gen \in 1 .. replays[action[o].d]
      BY <2>2 DEF Numbered
    <3> QED BY <1>0, <2>2, <3>1, <3>2
  <2> QED BY <1>4, <2>1, <2>2, JobSteps
<1> QED BY <1>1, <1>2, <1>3, <1>4 DEF Numbered

\* The append script adds a first entry, the replay script one per generation.
LEMMA CountKept ==
  ASSUME TypeOK, Numbered, Counted, [Next]_vars
  PROVE  Counted'
<1>0. /\ redis \in Queue(Deliveries) /\ ClientsTyped
      /\ \A d \in Deliveries : /\ replays[d] \in Nat /\ replays'[d] \in Nat
                               /\ replays[d] <= replays'[d]
                               /\ CountedBy(redis, d, replays[d])
  BY ReplaysGrow DEF TypeOK, RowsTyped, WorkersTyped, Counted
<1> SUFFICES ASSUME NEW d \in Deliveries PROVE CountedBy(redis', d, replays[d])
  BY <1>0, CountedLater DEF Counted
<1>1. CASE /\ redis'.stream = redis.stream /\ redis'.index = redis.index
           /\ redis'.replayIndex = redis.replayIndex
  BY <1>0, <1>1, SameCounted DEF EntriesOf, Entries, Generations
<1>2. ASSUME NEW v \in Deliveries, redis' = AppendOnce(redis, v)
      PROVE  CountedBy(redis', d, replays[d])
  BY <1>0, <1>2, AppendCounted
<1>3. ASSUME NEW v \in Deliveries, NEW g \in Nat, Replays(v, g), redis' = ReplayFromDLQ(redis, v, g)
      PROVE  CountedBy(redis', d, replays[d])
  <2>1. g \in 1 .. replays[v]
    <3>1. CASE \E o \in Operators : Replay(o) /\ action[o].d = v /\ action[o].gen = g
      BY <3>1 DEF Replay, Numbered, Idle, Job
    <3>2. CASE Enqueue /\ enqueuer.d = v /\ enqueuer.gen = g /\ g # 0
      <4>1. enqueuer # Idle
        BY <3>2 DEF Enqueue, Idle, Job
      <4> QED BY <1>0, <3>2, <4>1 DEF Numbered
    <3> QED BY <1>3, <3>1, <3>2 DEF Replays
  <2> QED BY <1>0, <1>3, <2>1, ReplayCounted
<1> QED BY <1>1, <1>2, <1>3, Scripts

\* Nothing is queued at first ...
LEMMA CountInit == Init => Numbered /\ Counted
<1> SUFFICES ASSUME Init PROVE Numbered /\ Counted
  OBVIOUS
<1>1. \A d \in Deliveries : EntriesOf(redis, d) = {} /\ Generations(redis, d) = {}
  BY DEF Init, EmptyQueue, EntriesOf, Entries, Generations
<1>2. Numbered
  BY DEF Init, Numbered
<1>3. \A d \in Deliveries : CountedBy(redis, d, 0)
  <2>1. Cardinality({}) <= 1 + Cardinality({})
    BY FS_EmptySet
  <2> QED BY <1>1, <2>1 DEF CountedBy
<1>4. Counted
  BY <1>3 DEF Init, Counted
<1> QED BY <1>2, <1>4

\* ... and entries stay counted, whatever happens.
LEMMA CountAlways == Spec => [](TypeOK /\ Numbered /\ Counted)
<1>1. TypeOK /\ Numbered /\ Counted /\ [Next]_vars => (TypeOK /\ Numbered /\ Counted)'
  BY NextType, NumberedKept, CountKept
<1> QED BY <1>1, InitType, CountInit, PTL DEF Spec

\* A delivery gets one stream entry and one more per replay an operator asked
\* for, however many workers, requests, outbox rounds and operators retry
\* (appendOnceScript and the replay script check their hashes).
THEOREM OneEntryEach == Spec => []OneEntryPerGeneration
<1>1. TypeOK /\ Counted => OneEntryPerGeneration
  BY CountedBound DEF TypeOK, RowsTyped, WorkersTyped, Counted, OneEntryPerGeneration
<1> QED BY <1>1, CountAlways, PTL

------------------------------------------------------------------------------
(* What was answered 202 *)

\* A row carries a payload from the transaction that creates it.
Carried == \A d \in Deliveries : status[d] # "none" <=> payload[d] # NoPayload

\* The part of PromiseKept about the row and its outbox row, and that what was
\* promised is a payload.
Promising ==
  \A p \in promised :
    /\ payload[p[1]] = p[2] /\ p[2] # NoPayload
    /\ status[p[1]] # "none"
    /\ status[p[1]] = "pending_enqueue" => <<p[1], 0>> \in outbox

\* The payload of a row never changes.
LEMMA PayloadKept ==
  ASSUME TypeOK, Stored, Carried, [Next]_vars
  PROVE  /\ Carried'
         /\ \A d \in Deliveries : payload[d] # NoPayload => payload'[d] = payload[d]
<1>0. /\ status \in [Deliveries -> Status]
      /\ payload \in [Deliveries -> Payloads \cup {NoPayload}]
      /\ NoPayload \notin Payloads
  BY ConstantsAssumption DEF TypeOK, RowsTyped
<1> DEFINE Same(d) == payload[d] # NoPayload => payload'[d] = payload[d]
           Agrees(d) == status'[d] # "none" <=> payload'[d] # NoPayload
<1> SUFFICES ASSUME NEW d \in Deliveries PROVE Same(d) /\ Agrees(d)
  BY DEF Carried
<1>1. ASSUME payload' = payload, status[d] = "none" => status'[d] = "none"
      PROVE  Same(d) /\ Agrees(d)
  BY <1>1, RowsStay DEF Carried
<1>2. CASE UNCHANGED <<status, payload>>
  BY <1>1, <1>2
<1>3. ASSUME NEW p \in Producers, Submit(p) PROVE Same(d) /\ Agrees(d)
  <2>1. PICK x \in WorkloadDeliveries, body \in Payloads :
          /\ payload[x] \in {NoPayload, body}
          /\ payload' = [payload EXCEPT ![x] = body]
          /\ status' = [status EXCEPT ![x] = IF @ = "none" THEN "pending_enqueue" ELSE @]
    BY <1>3 DEF Submit
  <2>2. CASE x = d
    BY <1>0, <2>1, <2>2
  <2>3. CASE x # d
    BY <1>0, <2>1, <2>3 DEF Carried
  <2> QED BY <2>2, <2>3
<1>4. ASSUME NEW p \in Producers, MarkAccepted(p) PROVE Same(d) /\ Agrees(d)
  BY <1>0, <1>1, <1>4 DEF MarkAccepted
<1>5. ASSUME NEW x \in ServiceDeliveries, AcceptService(x) PROVE Same(d) /\ Agrees(d)
  <2>1. PICK body \in Payloads : payload' = [payload EXCEPT ![x] = body]
    BY <1>5 DEF AcceptService
  <2>2. status[x] = "none" /\ status' = [status EXCEPT ![x] = "pending_enqueue"]
    BY <1>5 DEF AcceptService
  <2>3. CASE x = d
    BY <1>0, <2>1, <2>2, <2>3 DEF Carried
  <2>4. CASE x # d
    BY <1>0, <2>1, <2>2, <2>4 DEF Carried
  <2> QED BY <2>3, <2>4
<1>6. CASE CompleteEnqueue
  BY <1>0, <1>1, <1>6 DEF CompleteEnqueue
<1>7. ASSUME NEW w \in Workers, NEW s, pc[w] # "idle",
             status' = [status EXCEPT ![Current(w)] = s], payload' = payload
      PROVE  Same(d) /\ Agrees(d)
  BY <1>0, <1>1, <1>7, CurrentType DEF Stored, Current
<1>8. ASSUME NEW w \in Workers, Begin(w) PROVE Same(d) /\ Agrees(d)
  BY <1>2, <1>7, <1>8 DEF Begin
<1>9. ASSUME NEW w \in Workers, Retry(w) \/ Succeed(w) \/ Reconcile(w) \/ DeadLetter(w)
      PROVE  Same(d) /\ Agrees(d)
  BY <1>7, <1>9 DEF Retry, Succeed, Reconcile, DeadLetter
<1>10. ASSUME NEW o \in Operators, PrepareReplay(o) PROVE Same(d) /\ Agrees(d)
  <2>1. PICK x \in Deliveries : PrepareReplayOf(o, x) /\ payload' = payload
    BY <1>10 DEF PrepareReplay
  <2>2. dlq[x] # "none" /\ (status' = status \/ status' = [status EXCEPT ![x] = "replay_pending"])
    BY <2>1 DEF PrepareReplayOf
  <2> QED BY <1>0, <1>1, <2>1, <2>2 DEF Stored
<1>11. ASSUME NEW o \in Operators, CompleteReplay(o) PROVE Same(d) /\ Agrees(d)
  BY <1>0, <1>1, <1>11 DEF CompleteReplay
<1>12. ASSUME NEW x \in Deliveries, Discard(x) PROVE Same(d) /\ Agrees(d)
  BY <1>0, <1>1, <1>12 DEF Discard
<1> QED BY <1>2, <1>3, <1>4, <1>5, <1>6, <1>8, <1>9, <1>10, <1>11, <1>12, RowSteps

\* A row waits to be enqueued only from the transaction that creates it.
LEMMA PendingSteps ==
  ASSUME TypeOK, [Next]_vars, NEW d \in Deliveries,
         status[d] # "none", status'[d] = "pending_enqueue"
  PROVE  status[d] = "pending_enqueue"
BY StatusSteps

\* The outbox row that enqueues a delivery leaves with its status.
LEMMA OutboxHeld ==
  ASSUME TypeOK, [Next]_vars, NEW d \in Deliveries, <<d, 0>> \in outbox,
         status[d] = "pending_enqueue", status'[d] = "pending_enqueue"
  PROVE  <<d, 0>> \in outbox'
<1>0. status \in [Deliveries -> Status]
  BY DEF TypeOK, RowsTyped
<1>1. CASE UNCHANGED outbox
  BY <1>1
<1>2. ASSUME NEW x \in ServiceDeliveries, AcceptService(x) PROVE <<d, 0>> \in outbox'
  BY <1>2 DEF AcceptService
<1>3. CASE CompleteEnqueue
  <2>1. CASE <<d, 0>> = <<enqueuer.d, enqueuer.gen>>
    BY <1>0, <1>3, <2>1 DEF CompleteEnqueue
  <2>2. CASE <<d, 0>> # <<enqueuer.d, enqueuer.gen>>
    BY <1>3, <2>2 DEF CompleteEnqueue
  <2> QED BY <2>1, <2>2
<1>4. ASSUME NEW o \in Operators, PrepareReplay(o) PROVE <<d, 0>> \in outbox'
  <2>1. PICK x \in Deliveries : PrepareReplayOf(o, x)
    BY <1>4 DEF PrepareReplay
  <2>2. CASE dlq[x] = "active"
    <3>1. /\ status' = [status EXCEPT ![x] = "replay_pending"]
          /\ \A row \in outbox : row[1] # x => row \in outbox'
      BY <2>1, <2>2 DEF PrepareReplayOf
    <3> QED BY <1>0, <3>1
  <2>3. CASE dlq[x] # "active"
    BY <2>1, <2>3 DEF PrepareReplayOf, dlqVars
  <2> QED BY <2>2, <2>3
<1>5. ASSUME NEW p \in Producers, Submit(p) \/ MarkAccepted(p) PROVE <<d, 0>> \in outbox'
  BY <1>5 DEF Submit, MarkAccepted, dlqVars
<1>6. ASSUME NEW w \in Workers, Begin(w) \/ Retry(w) \/ Succeed(w) \/ Reconcile(w) \/ DeadLetter(w)
      PROVE  <<d, 0>> \in outbox'
  BY <1>6 DEF Begin, Retry, Succeed, Reconcile, DeadLetter, dlqVars
<1>7. ASSUME NEW o \in Operators, CompleteReplay(o) PROVE <<d, 0>> \in outbox'
  BY <1>7 DEF CompleteReplay
<1>8. ASSUME NEW x \in Deliveries, Discard(x) PROVE <<d, 0>> \in outbox'
  BY <1>8 DEF Discard
<1> QED BY <1>1, <1>2, <1>3, <1>4, <1>5, <1>6, <1>7, <1>8, RowSteps DEF dlqVars

\* A request is answered when its row exists, a service notification with it.
LEMMA PromisingKept ==
  ASSUME TypeOK, Stored, Carried, Promising, [Next]_vars
  PROVE  Promising'
<1>0. /\ status \in [Deliveries -> Status] /\ ClientsTyped
      /\ payload \in [Deliveries -> Payloads \cup {NoPayload}]
      /\ promised \subseteq Deliveries \X (Payloads \cup {NoPayload})
      /\ NoPayload \notin Payloads
  BY ConstantsAssumption DEF TypeOK, RowsTyped, RestTyped
<1> DEFINE Good(x) == /\ payload'[x[1]] = x[2] /\ x[2] # NoPayload
                      /\ status'[x[1]] # "none"
                      /\ status'[x[1]] = "pending_enqueue" => <<x[1], 0>> \in outbox'
<1>1. ASSUME NEW x \in promised PROVE Good(x)
  <2>1. x[1] \in Deliveries
    BY <1>0
  <2>2. payload'[x[1]] = x[2] /\ status'[x[1]] # "none"
    BY <2>1, PayloadKept, RowsStay DEF Promising
  <2> QED BY <2>1, <2>2, PendingSteps, OutboxHeld DEF Promising
<1>2. ASSUME NEW p \in Producers, MarkAccepted(p)
      PROVE  \A x \in promised' : x \in promised \/ Good(x)
  <2> DEFINE d == request[p].d
  <2>1. d \in Deliveries /\ status[d] # "none"
    BY <1>0, <1>2, JobFields DEF MarkAccepted, ClientsTyped, Stored
  <2>2. /\ promised' = promised \cup {<<d, payload[d]>>} /\ payload' = payload
        /\ status' = [status EXCEPT ![d] = IF @ = "pending_enqueue" THEN "accepted" ELSE @]
    BY <1>2 DEF MarkAccepted
  <2>3. Good(<<d, payload[d]>>)
    BY <1>0, <2>1, <2>2 DEF Carried
  <2> QED BY <2>2, <2>3
<1>3. ASSUME NEW d \in ServiceDeliveries, AcceptService(d)
      PROVE  \A x \in promised' : x \in promised \/ Good(x)
  <2>1. PICK body \in Payloads :
          payload' = [payload EXCEPT ![d] = body] /\ promised' = promised \cup {<<d, body>>}
    BY <1>3 DEF AcceptService
  <2>2. /\ status' = [status EXCEPT ![d] = "pending_enqueue"]
        /\ <<d, 0>> \in outbox'
    BY <1>3 DEF AcceptService
  <2>3. Good(<<d, body>>)
    BY <1>0, <2>1, <2>2 DEF Deliveries
  <2> QED BY <2>1, <2>3
<1>4. \A x \in promised' : x \in promised \/ Good(x)
  <2>1. ASSUME promised' = promised PROVE \A x \in promised' : x \in promised \/ Good(x)
    BY <2>1
  <2> HIDE DEF Good
  <2>2. ASSUME NEW p \in Producers, Submit(p) PROVE promised' = promised
    BY <2>2 DEF Submit, historyVars
  <2>3. CASE CompleteEnqueue
    BY <2>1, <2>3 DEF CompleteEnqueue, historyVars
  <2>4. ASSUME NEW w \in Workers, Begin(w) \/ Retry(w) \/ Succeed(w) \/ Reconcile(w) \/ DeadLetter(w)
        PROVE  promised' = promised
    BY <2>4 DEF Begin, Retry, Succeed, Reconcile, DeadLetter, historyVars
  <2>5. ASSUME NEW o \in Operators, PrepareReplay(o) \/ CompleteReplay(o) PROVE promised' = promised
    BY <2>5 DEF PrepareReplay, CompleteReplay, historyVars
  <2>6. ASSUME NEW d \in Deliveries, Discard(d) PROVE promised' = promised
    BY <2>6 DEF Discard, historyVars
  <2> QED BY <1>2, <1>3, <2>1, <2>2, <2>3, <2>4, <2>5, <2>6, RowSteps
<1> QED BY <1>1, <1>4 DEF Promising

\* With any number of workers and operators: the row keeps the payload its
\* caller was answered for, since a retried request with another payload is
\* refused (ErrIdempotencyConflict), and only CompleteServiceEnqueue takes the
\* outbox row away, with the status that needs it.
LEMMA PromisingAlways == Spec => [](TypeOK /\ Promising)
<1> DEFINE Inv == TypeOK /\ Stored /\ Carried /\ Promising
<1>1. Init => Inv
  <2> SUFFICES ASSUME Init PROVE Inv
    OBVIOUS
  <2>1. Entries(redis) = {}
    BY DEF Init, EmptyQueue, Entries
  <2>2. Stored
    BY <2>1 DEF Init, Stored
  <2>3. Carried /\ Promising
    BY DEF Init, Carried, Promising
  <2> QED BY <2>2, <2>3, InitType
<1>2. Inv /\ [Next]_vars => Inv'
  BY NextType, StoredKept, PayloadKept, PromisingKept
<1> QED BY <1>1, <1>2, PTL DEF Spec

\* A delivery whose replay is pending is in the operators' list as that.
ReplayShown ==
  \A d \in Deliveries : status[d] = "replay_pending" => dlq[d] = "replay_pending"

\* Whoever ends the one ends the other in the same transaction.
LEMMA ReplayShownKept ==
  ASSUME TypeOK, ReplayShown, [Next]_vars
  PROVE  ReplayShown'
<1>0. status \in [Deliveries -> Status] /\ dlq \in [Deliveries -> DLQState]
  BY DEF TypeOK, RowsTyped
<1> SUFFICES ASSUME NEW d \in Deliveries, status'[d] = "replay_pending"
             PROVE  dlq'[d] = "replay_pending"
  BY DEF ReplayShown
<1>1. CASE status[d] # "replay_pending"
  <2>1. PICK o \in Operators : PrepareReplayOf(o, d) /\ dlq[d] = "active"
    BY <1>1, StatusSteps
  <2> QED BY <1>0, <2>1 DEF PrepareReplayOf
<1>2. CASE status[d] = "replay_pending"
  <2>0. dlq[d] = "replay_pending"
    BY <1>2 DEF ReplayShown
  <2>1. CASE UNCHANGED dlqVars
    BY <2>0, <2>1 DEF dlqVars
  <2>2. ASSUME NEW p \in Producers, Submit(p) \/ MarkAccepted(p) PROVE UNCHANGED dlqVars
    BY <2>2 DEF Submit, MarkAccepted
  <2>3. ASSUME NEW x \in ServiceDeliveries, AcceptService(x) PROVE dlq' = dlq
    BY <2>3 DEF AcceptService
  <2>4. ASSUME CompleteEnqueue PROVE dlq'[d] = dlq[d]
    <3>1. CASE d = enqueuer.d
      BY <1>0, <1>2, <2>4, <3>1 DEF CompleteEnqueue
    <3>2. CASE d # enqueuer.d
      BY <1>0, <2>4, <3>2 DEF CompleteEnqueue
    <3> QED BY <3>1, <3>2
  <2>5. ASSUME NEW w \in Workers, Begin(w) \/ Retry(w) \/ Succeed(w) \/ Reconcile(w)
        PROVE  UNCHANGED dlqVars
    BY <2>5 DEF Begin, Retry, Succeed, Reconcile
  <2>6. ASSUME NEW w \in Workers, DeadLetter(w) PROVE dlq'[d] = dlq[d]
    <3>1. /\ status' = [status EXCEPT ![Current(w)] = "dead-lettered"]
          /\ dlq' = [dlq EXCEPT ![Current(w)] = "active"]
      BY <2>6 DEF DeadLetter
    <3>2. d # Current(w)
      BY <1>0, <3>1
    <3> QED BY <1>0, <3>1, <3>2
  <2>7. ASSUME NEW o \in Operators, PrepareReplay(o) PROVE dlq'[d] = dlq[d]
    <3>1. PICK x \in Deliveries : PrepareReplayOf(o, x)
      BY <2>7 DEF PrepareReplay
    <3> QED BY <1>0, <2>0, <3>1 DEF PrepareReplayOf, dlqVars
  <2>8. ASSUME NEW o \in Operators, CompleteReplay(o) PROVE dlq'[d] = dlq[d]
    <3>1. d # action[o].d
      BY <1>0, <1>2, <2>8 DEF CompleteReplay
    <3> QED BY <1>0, <2>8, <3>1 DEF CompleteReplay
  <2>9. ASSUME NEW x \in Deliveries, Discard(x) PROVE dlq'[d] = dlq[d]
    BY <1>0, <2>0, <2>9 DEF Discard
  <2> QED BY <2>0, <2>1, <2>2, <2>3, <2>4, <2>5, <2>6, <2>7, <2>8, <2>9, RowSteps
<1> QED BY <1>1, <1>2

------------------------------------------------------------------------------
(* What the worker sees stays true *)

\* What clients and operators do to statuses: at most one changes, and never
\* that of a delivery a worker is sending, or that is settled.
ClientMoves ==
  {<<"none", "pending_enqueue">>, <<"pending_enqueue", "accepted">>,
   <<"replay_pending", "accepted">>, <<"dead-lettered", "replay_pending">>,
   <<"dead-lettered", "discarded">>}

ClientStep ==
  \/ UNCHANGED status
  \/ \E d \in Deliveries, s \in Status :
       <<status[d], s>> \in ClientMoves /\ status' = [status EXCEPT ![d] = s]

\* Writing one row, if to a new status then along a client's move.
LEMMA OneRow ==
  ASSUME status \in [Deliveries -> Status], NEW d \in Deliveries, NEW s \in Status,
         status' = [status EXCEPT ![d] = s],
         s = status[d] \/ <<status[d], s>> \in ClientMoves
  PROVE  ClientStep
BY DEF ClientStep

\* The delivery of an entry never changes.
LEMMA CurrentStays ==
  ASSUME WorkersTyped, Grows(redis, redis'), NEW w \in Workers,
         pc[w] # "idle", entry'[w] = entry[w]
  PROVE  Current(w)' = Current(w) /\ Current(w) \in Deliveries
BY QueueFields DEF WorkersTyped, Grows, Current

\* A step of a client or of the surroundings keeps what the workers know.
LEMMA OthersKeepKnowledge ==
  ASSUME WorkersTyped, Grows(redis, redis'), UNCHANGED <<workerVars, sent>>,
         gated' => gated, ClientStep, status \in [Deliveries -> Status], TakenOnce, \A w \in Workers : WorkerKnows(w)
  PROVE  TakenOnce' /\ \A w \in Workers : WorkerKnows(w)'
<1>0. ASSUME NEW d \in Deliveries
      PROVE  \/ status'[d] = status[d]
             \/ /\ status[d] \in {"none", "pending_enqueue", "dead-lettered", "replay_pending"}
                /\ status'[d] \in {"pending_enqueue", "accepted", "replay_pending", "discarded"}
  BY DEF ClientStep, ClientMoves
<1>1. TakenOnce'
  BY <1>0 DEF TakenOnce, Settled
<1>2. ASSUME NEW w \in Workers PROVE WorkerKnows(w)'
  <2>1. CASE pc[w] = "idle"
    BY <2>1 DEF WorkerKnows, workerVars
  <2>2. CASE pc[w] # "idle"
    <3>1. Current(w)' = Current(w) /\ Current(w) \in Deliveries
      BY <2>2, CurrentStays DEF workerVars
    <3>2. WorkerKnows(w)
      OBVIOUS
    <3> QED BY <1>0, <3>1, <3>2 DEF WorkerKnows, workerVars, Settled
  <2> QED BY <2>1, <2>2
<1> QED BY <1>1, <1>2

\* Every step of a client, an operator or the surroundings keeps WorkerView.
LEMMA OthersKeepView ==
  ASSUME TypeOK, TypeOK', WorkerView,
         \/ \E p \in Producers : Submit(p) \/ AppendRequest(p) \/ MarkAccepted(p)
         \/ \E d \in ServiceDeliveries : AcceptService(d)
         \/ EnqueuerStep
         \/ \E o \in Operators : PrepareReplay(o) \/ Replay(o) \/ CompleteReplay(o)
         \/ \E d \in Deliveries : Discard(d) \/ RetryDue(d)
         \/ GateOpens \/ Abandon \/ ChangeTarget
  PROVE  WorkerView' /\ ClientStep /\ UNCHANGED sent
<1> DEFINE Kept == WorkerView' /\ ClientStep /\ UNCHANGED sent
           Rows == /\ Grows(redis, redis')
                   /\ UNCHANGED <<workerVars, sent>>
                   /\ gated' => gated
                   /\ ClientStep
<1> USE DEF TypeOK, WorkerView
<1>b. Stored'
  BY StoredKept DEF Next
<1>0. Rows /\ DLQMatchesStatus' => Kept
  BY <1>b, OthersKeepKnowledge DEF RowsTyped
<1> HIDE DEF WorkerView
<1>a. UNCHANGED redis => Grows(redis, redis')
  BY GrowsReflexive
<1>1. ASSUME NEW p \in Producers, Submit(p) PROVE Kept
  <2>1. Rows
    <3>1. PICK d \in WorkloadDeliveries :
            status' = [status EXCEPT ![d] = IF @ = "none" THEN "pending_enqueue" ELSE @]
      BY <1>1 DEF Submit
    <3>2. ClientStep
      BY <3>1, OneRow DEF RowsTyped, Status, ClientMoves, Deliveries
    <3> QED BY <1>1, <1>a, <3>2 DEF Submit, envVars, workerVars, historyVars
  <2>3. DLQMatchesStatus'
    BY <1>1 DEF Submit, DLQMatchesStatus, WorkerView, dlqVars
  <2> QED BY <1>0, <2>1, <2>3
<1>2. ASSUME NEW p \in Producers, AppendRequest(p) PROVE Kept
  <2>1. request[p].d \in Deliveries /\ request[p] # Idle
    BY <1>2, JobFields DEF AppendRequest, ClientsTyped
  <2>2. Grows(redis, redis') /\ AddsOnly(redis, redis', request[p].d)
    BY <1>2, <2>1, AppendOnceType DEF AppendRequest, WorkersTyped
  <2>4. Rows
    BY <1>2, <2>2 DEF AppendRequest, ClientStep, rowVars, envVars, historyVars
  <2>7. DLQMatchesStatus'
    BY <1>2 DEF AppendRequest, DLQMatchesStatus, WorkerView, rowVars, dlqVars
  <2> QED BY <1>0, <2>4, <2>7
<1>3. ASSUME NEW p \in Producers, MarkAccepted(p) PROVE Kept
  <2>1. Rows
    <3>1. request[p].d \in Deliveries
      BY <1>3, JobFields DEF MarkAccepted, ClientsTyped
    <3>2. ClientStep
      <4>1. status' = [status EXCEPT ![request[p].d] =
                         IF status[request[p].d] = "pending_enqueue" THEN "accepted"
                         ELSE status[request[p].d]]
        BY <1>3, <3>1 DEF MarkAccepted, RowsTyped
      <4>2. CASE status[request[p].d] = "pending_enqueue"
        <5>1. status' = [status EXCEPT ![request[p].d] = "accepted"]
          BY <4>1, <4>2
        <5>2. "accepted" \in Status /\ <<status[request[p].d], "accepted">> \in ClientMoves
          BY <4>2 DEF Status, ClientMoves
        <5> QED BY <3>1, <5>1, <5>2, OneRow DEF RowsTyped
      <4>3. CASE status[request[p].d] # "pending_enqueue"
        BY <3>1, <4>1, <4>3 DEF ClientStep, RowsTyped
      <4> QED BY <4>2, <4>3
    <3> QED BY <1>3, <1>a, <3>2 DEF MarkAccepted, envVars
  <2>3. DLQMatchesStatus'
    BY <1>3 DEF MarkAccepted, DLQMatchesStatus, WorkerView, dlqVars
  <2> QED BY <1>0, <2>1, <2>3
<1>4. ASSUME NEW d \in ServiceDeliveries, AcceptService(d) PROVE Kept
  <2>1. Rows
    <3>1. ClientStep
      BY <1>4, OneRow DEF AcceptService, RowsTyped, ClientMoves, Deliveries
    <3> QED BY <1>4, <1>a, <3>1 DEF AcceptService, envVars
  <2>3. DLQMatchesStatus'
    BY <1>4 DEF AcceptService, DLQMatchesStatus, WorkerView
  <2> QED BY <1>0, <2>1, <2>3
<1>5. CASE FetchOutbox
  <2>1. Rows
    BY <1>5, <1>a DEF FetchOutbox, ClientStep, rowVars, envVars, historyVars
  <2>3. DLQMatchesStatus'
    BY <1>5 DEF FetchOutbox, DLQMatchesStatus, WorkerView, rowVars, dlqVars
  <2> QED BY <1>0, <2>1, <2>3
<1>6. CASE Enqueue
  <2>1. enqueuer.d \in Deliveries /\ enqueuer.gen \in Nat /\ enqueuer # Idle
    BY <1>6, JobFields DEF Enqueue, ClientsTyped
  <2>2. Grows(redis, redis') /\ AddsOnly(redis, redis', enqueuer.d)
    BY <1>6, <2>1, AppendOnceType, ReplayFromDLQType DEF Enqueue, WorkersTyped
  <2>4. Rows
    BY <1>6, <2>2 DEF Enqueue, ClientStep, rowVars, envVars, historyVars
  <2>7. DLQMatchesStatus'
    BY <1>6 DEF Enqueue, DLQMatchesStatus, WorkerView, rowVars, dlqVars
  <2> QED BY <1>0, <2>4, <2>7
<1>7. CASE CompleteEnqueue
  <2>1. Rows
    <3>1. enqueuer.d \in Deliveries
      BY <1>7, JobFields DEF CompleteEnqueue, ClientsTyped
    <3>2. ClientStep
      BY <1>7, <3>1, OneRow DEF CompleteEnqueue, Status, ClientMoves, ClientStep
    <3> QED BY <1>7, <1>a, <3>2 DEF CompleteEnqueue, envVars, historyVars
  <2>3. DLQMatchesStatus'
    BY <1>7 DEF CompleteEnqueue, DLQMatchesStatus, WorkerView
  <2> QED BY <1>0, <2>1, <2>3
<1>8. ASSUME NEW o \in Operators, PrepareReplay(o) PROVE Kept
  <2>0. PICK d \in Deliveries : PrepareReplayOf(o, d)
    BY <1>8 DEF PrepareReplay
  <2>3. CASE dlq[d] = "active"
    <3>1. /\ dlq' = [dlq EXCEPT ![d] = "replay_pending"]
          /\ status' = [status EXCEPT ![d] = "replay_pending"]
                BY <2>0, <2>3 DEF PrepareReplayOf
    <3>2. status[d] = "dead-lettered"
      BY <2>3 DEF WorkerView, DLQMatchesStatus
    <3>3. Rows
      BY <1>8, <1>a, <3>1, <3>2 DEF PrepareReplay, ClientStep, ClientMoves,
         RowsTyped, envVars, historyVars
    <3>6. DLQMatchesStatus'
      BY <3>1 DEF DLQMatchesStatus, WorkerView, RowsTyped
    <3> QED BY <1>0, <3>3, <3>6
  <2>4. CASE dlq[d] = "replay_pending"
    <3>1. UNCHANGED <<status, waiting, dlqVars>>
      BY <2>0, <2>4 DEF PrepareReplayOf
    <3>2. Rows
      BY <1>8, <1>a, <3>1 DEF PrepareReplay, ClientStep, envVars, historyVars
    <3>5. DLQMatchesStatus'
      BY <3>1 DEF DLQMatchesStatus, WorkerView, dlqVars
    <3> QED BY <1>0, <3>2, <3>5
  <2> QED BY <2>0, <2>3, <2>4 DEF PrepareReplayOf
<1>9. ASSUME NEW o \in Operators, Replay(o) PROVE Kept
  <2>1. action[o].d \in Deliveries /\ action[o].gen \in Nat /\ action[o] # Idle
    BY <1>9, JobFields DEF Replay, ClientsTyped
  <2>2. Grows(redis, redis') /\ AddsOnly(redis, redis', action[o].d)
    BY <1>9, <2>1, ReplayFromDLQType DEF Replay, WorkersTyped
  <2>4. Rows
    BY <1>9, <2>2 DEF Replay, ClientStep, rowVars, envVars, historyVars
  <2>7. DLQMatchesStatus'
    BY <1>9 DEF Replay, DLQMatchesStatus, WorkerView, rowVars, dlqVars
  <2> QED BY <1>0, <2>4, <2>7
<1>10. ASSUME NEW o \in Operators, CompleteReplay(o) PROVE Kept
  <2>1. Rows
    <3>1. action[o].d \in Deliveries
      BY <1>10, JobFields DEF CompleteReplay, ClientsTyped
    <3>2. ClientStep
      <4>1. status' = [status EXCEPT ![action[o].d] =
                         IF status[action[o].d] = "replay_pending" THEN "accepted"
                         ELSE status[action[o].d]]
        BY <1>10, <3>1 DEF CompleteReplay, RowsTyped
      <4>2. CASE status[action[o].d] = "replay_pending"
        <5>1. status' = [status EXCEPT ![action[o].d] = "accepted"]
          BY <4>1, <4>2
        <5>2. "accepted" \in Status /\ <<status[action[o].d], "accepted">> \in ClientMoves
          BY <4>2 DEF Status, ClientMoves
        <5> QED BY <3>1, <5>1, <5>2, OneRow DEF RowsTyped
      <4>3. CASE status[action[o].d] # "replay_pending"
        BY <3>1, <4>1, <4>3 DEF ClientStep, RowsTyped
      <4> QED BY <4>2, <4>3
    <3> QED BY <1>10, <1>a, <3>2 DEF CompleteReplay, envVars, historyVars
  <2>3. DLQMatchesStatus'
    BY <1>10 DEF CompleteReplay, DLQMatchesStatus, WorkerView
  <2> QED BY <1>0, <2>1, <2>3
<1>11. ASSUME NEW d \in Deliveries, Discard(d) PROVE Kept
  <2>1. Rows
    BY <1>11, <1>a DEF Discard, ClientStep, ClientMoves, RowsTyped, envVars,
       historyVars
  <2>3. DLQMatchesStatus'
    BY <1>11 DEF Discard, DLQMatchesStatus, WorkerView, RowsTyped
  <2> QED BY <1>0, <2>1, <2>3
<1>12. ASSUME NEW d \in Deliveries, RetryDue(d) PROVE Kept
  <2>1. Rows
    BY <1>12, <1>a DEF RetryDue, ClientStep, envVars, historyVars
  <2>3. DLQMatchesStatus'
    BY <1>12 DEF RetryDue, DLQMatchesStatus, WorkerView, dlqVars
  <2> QED BY <1>0, <2>1, <2>3
<1>13. CASE GateOpens
  <2>1. Rows
    BY <1>13, <1>a DEF GateOpens, ClientStep, rowVars, historyVars
  <2>3. DLQMatchesStatus'
    BY <1>13 DEF GateOpens, DLQMatchesStatus, WorkerView, rowVars, dlqVars
  <2> QED BY <1>0, <2>1, <2>3
<1>14. CASE Abandon
  <2>1. Rows
    BY <1>14, <1>a DEF Abandon, ClientStep, rowVars, envVars, historyVars
  <2>3. DLQMatchesStatus'
    BY <1>14 DEF Abandon, DLQMatchesStatus, WorkerView, rowVars, dlqVars
  <2> QED BY <1>0, <2>1, <2>3
<1>15. CASE ChangeTarget
  <2>1. Rows
    BY <1>15, <1>a DEF ChangeTarget, ClientStep, rowVars, historyVars
  <2>3. DLQMatchesStatus'
    BY <1>15 DEF ChangeTarget, DLQMatchesStatus, WorkerView, rowVars, dlqVars
  <2> QED BY <1>0, <2>1, <2>3
<1> QED
  BY <1>1, <1>2, <1>3, <1>4, <1>5, <1>6, <1>7, <1>8, <1>9, <1>10, <1>11, <1>12,
     <1>13, <1>14, <1>15 DEF EnqueuerStep

\* Every step of the one worker keeps WorkerView.
LEMMA WorkerKeepsView ==
  ASSUME SingleWorker, TypeOK, TypeOK', WorkerView, NEW w \in Workers,
         \/ ReadNew(w) \/ WorkerStep(w) \/ Interrupt(w)
         \/ \E e \in redis.pel : ClaimStale(w, e)
  PROVE  WorkerView'
<1> DEFINE d == Current(w)
<1>s. Stored'
  BY StoredKept DEF WorkerView, Next
<1>a. DLQMatchesStatus' /\ TakenOnce' /\ WorkerKnows(w)' => WorkerView'
  BY <1>s DEF SingleWorker, WorkerView
<1> USE DEF TypeOK
<1>b. Stored /\ DLQMatchesStatus /\ TakenOnce /\ WorkerKnows(w)
  BY DEF WorkerView
<1>c. ASSUME UNCHANGED <<status, dlq>>
      PROVE  DLQMatchesStatus'
  BY <1>b, <1>c DEF DLQMatchesStatus
<1>d. pc'[w] \in {"idle", "ack", "move"} => WorkerKnows(w)'
  BY DEF WorkerKnows
<1>e. ASSUME pc[w] # "idle", UNCHANGED <<redis, entry>>
      PROVE  d \in Deliveries /\ d' = d
  BY <1>e, GrowsReflexive, CurrentStays
<1>1. CASE ReadNew(w)
  <2>2. DLQMatchesStatus'
    BY <1>1, <1>c DEF ReadNew, rowVars, dlqVars
  <2>3. TakenOnce'
    BY <1>1, <1>b DEF ReadNew, TakenOnce, rowVars, historyVars
  <2>4. WorkerKnows(w)'
    BY <1>1, <1>d DEF ReadNew, WorkersTyped
  <2> QED BY <1>a, <2>2, <2>3, <2>4
<1>2. ASSUME NEW e \in redis.pel, ClaimStale(w, e) PROVE WorkerView'
  <2>1. DLQMatchesStatus'
    BY <1>2, <1>c DEF ClaimStale, rowVars, dlqVars
  <2>2. TakenOnce'
    BY <1>2, <1>b DEF ClaimStale, TakenOnce, rowVars, historyVars
  <2>3. WorkerKnows(w)'
    BY <1>2, <1>d DEF ClaimStale, WorkersTyped
  <2> QED BY <1>a, <2>1, <2>2, <2>3
<1>3. CASE Load(w)
  <2>1. DLQMatchesStatus'
    BY <1>3, <1>c DEF Load, rowVars, dlqVars, envVars, clientVars, historyVars
  <2>2. TakenOnce'
    BY <1>3, <1>b DEF Load, TakenOnce, rowVars, historyVars
  <2>3. WorkerKnows(w)'
    <3>1. PICK e \in batch[w] : entry'[w] = e /\ pc'[w] = AfterLoad(redis.stream[e])
      BY <1>3 DEF Load, WorkersTyped
    <3>2. redis.stream[e] \in Deliveries /\ Current(w)' = redis.stream[e]
      BY <1>3, <3>1, QueueFields DEF Load, WorkersTyped, Current
    <3>3. CASE pc'[w] = "resolve"
      <4>1. status[redis.stream[e]] \notin Settled \cup {"processing", "dead-lettered"}
        BY <3>1, <3>3 DEF AfterLoad, Settled
      <4> QED BY <1>3, <3>2, <3>3, <4>1 DEF Load, WorkerKnows, rowVars
    <3>4. CASE pc'[w] = "reconcile"
      <4>1. status[redis.stream[e]] = "processing"
        BY <3>1, <3>4 DEF AfterLoad
      <4> QED BY <1>3, <3>2, <3>4, <4>1 DEF Load, WorkerKnows, rowVars
    <3>5. pc'[w] \in {"idle", "ack", "move", "resolve", "reconcile"}
      BY <3>1 DEF AfterLoad
    <3> QED BY <1>d, <3>3, <3>4, <3>5
  <2> QED BY <1>a, <2>1, <2>2, <2>3
<1>4. CASE Resolve(w)
  <2>0. d \in Deliveries /\ d' = d
    BY <1>4, <1>e DEF Resolve
  <2> HIDE DEF d
  <2>1. DLQMatchesStatus'
    BY <1>4, <1>c DEF Resolve, rowVars, dlqVars
  <2>2. TakenOnce'
    BY <1>4, <1>b, <2>0 DEF Resolve, TakenOnce, rowVars, historyVars
  <2>3. WorkerKnows(w)'
    BY <1>4, <1>b, <2>0 DEF Resolve, WorkerKnows, TakenOnce, rowVars, envVars,
       historyVars, d
  <2> QED BY <1>a, <2>1, <2>2, <2>3
<1>5. CASE Begin(w)
  <2>0. d \in Deliveries /\ d' = d
    BY <1>5, <1>e DEF Begin
  <2> HIDE DEF d
  <2>2. DLQMatchesStatus'
    BY <1>5, <1>b, <2>0 DEF Begin, DLQMatchesStatus, RowsTyped, dlqVars
  <2>3. TakenOnce'
    BY <1>5, <1>b, <2>0 DEF Begin, TakenOnce, RowsTyped, historyVars
  <2>4. WorkerKnows(w)'
    BY <1>5, <1>b, <1>d, <2>0 DEF Begin, WorkerKnows, TakenOnce, RowsTyped,
       historyVars, WorkersTyped, d
  <2> QED BY <1>a, <2>2, <2>3, <2>4
<1>6. CASE Send(w)
  <2>0. d \in Deliveries /\ d' = d
    BY <1>6, <1>e DEF Send
  <2> HIDE DEF d
  <2>1. DLQMatchesStatus'
    BY <1>6, <1>c DEF Send, rowVars, dlqVars, envVars, clientVars, historyVars
  <2>2. TakenOnce'
    BY <1>6, <1>b, <2>0 DEF Send, TakenOnce, WorkerKnows, rowVars, RestTyped
  <2>3. WorkerKnows(w)'
    BY <1>6, <1>b, <2>0 DEF Send, WorkerKnows, rowVars, WorkersTyped,
       RestTyped, Settled, d
  <2> QED BY <1>a, <2>1, <2>2, <2>3
<1>7. CASE SetGate(w)
  <2>0. d \in Deliveries /\ d' = d
    BY <1>7, <1>e DEF SetGate
  <2> HIDE DEF d
  <2>1. DLQMatchesStatus'
    BY <1>7, <1>c DEF SetGate, rowVars, dlqVars
  <2>2. TakenOnce'
    BY <1>7, <1>b, <2>0 DEF SetGate, TakenOnce, rowVars, historyVars
  <2>3. WorkerKnows(w)'
    BY <1>7, <1>b, <2>0 DEF SetGate, WorkerKnows, rowVars, historyVars,
       Settled, d
  <2> QED BY <1>a, <2>1, <2>2, <2>3
<1>8. CASE Retry(w)
  <2>0. d \in Deliveries /\ d' = d
    BY <1>8, <1>e DEF Retry
  <2> HIDE DEF d
  <2>2. DLQMatchesStatus'
    BY <1>8, <1>b, <2>0 DEF Retry, DLQMatchesStatus, WorkerKnows, dlqVars
  <2>3. TakenOnce'
    BY <1>8, <1>b, <2>0 DEF Retry, TakenOnce, WorkerKnows, historyVars
  <2>4. WorkerKnows(w)'
    BY <1>8, <1>b, <1>d, <2>0 DEF Retry, WorkersTyped
  <2> QED BY <1>a, <2>2, <2>3, <2>4
<1>9. CASE Succeed(w)
  <2>0. d \in Deliveries /\ d' = d
    BY <1>9, <1>e DEF Succeed
  <2> HIDE DEF d
  <2>2. DLQMatchesStatus'
    BY <1>9, <1>b, <2>0 DEF Succeed, DLQMatchesStatus, WorkerKnows, dlqVars
  <2>3. TakenOnce'
    BY <1>9, <1>b, <2>0 DEF Succeed, TakenOnce, historyVars, Settled
  <2>4. WorkerKnows(w)'
    BY <1>9, <1>b, <1>d, <2>0 DEF Succeed, WorkersTyped
  <2> QED BY <1>a, <2>2, <2>3, <2>4
<1>10. CASE Reconcile(w)
  <2>0. d \in Deliveries /\ d' = d
    BY <1>10, <1>e DEF Reconcile
  <2> HIDE DEF d
  <2>2. DLQMatchesStatus'
    BY <1>10, <1>b, <2>0 DEF Reconcile, DLQMatchesStatus, WorkerKnows, dlqVars
  <2>3. TakenOnce'
    BY <1>10, <1>b, <2>0 DEF Reconcile, TakenOnce, historyVars, Settled
  <2>4. WorkerKnows(w)'
    BY <1>10, <1>b, <1>d, <2>0 DEF Reconcile, WorkersTyped
  <2> QED BY <1>a, <2>2, <2>3, <2>4
<1>11. CASE DeadLetter(w)
  <2>0. d \in Deliveries /\ d' = d
    BY <1>11, <1>e DEF DeadLetter
  <2> HIDE DEF d
  <2>2. DLQMatchesStatus'
    BY <1>11, <1>b, <2>0 DEF DeadLetter, DLQMatchesStatus, RowsTyped
  <2>3. TakenOnce'
    BY <1>11, <1>b, <2>0 DEF DeadLetter, TakenOnce, WorkerKnows, historyVars
  <2>4. WorkerKnows(w)'
    BY <1>11, <1>b, <1>d, <2>0 DEF DeadLetter, WorkersTyped
  <2> QED BY <1>a, <2>2, <2>3, <2>4
<1>12. CASE Ack(w)
  <2>2. DLQMatchesStatus'
    BY <1>12, <1>c DEF Ack, rowVars, dlqVars
  <2>3. TakenOnce'
    BY <1>12, <1>b DEF Ack, TakenOnce, rowVars, historyVars
  <2>4. WorkerKnows(w)'
    BY <1>12, <1>d DEF Ack, WorkersTyped
  <2> QED BY <1>a, <2>2, <2>3, <2>4
<1>13. CASE Move(w)
  <2>0. Current(w) \in Deliveries
    BY <1>13, QueueFields DEF Move, Current, WorkersTyped
  <2>2. DLQMatchesStatus'
    BY <1>13, <1>c DEF Move, rowVars, dlqVars
  <2>3. TakenOnce'
    BY <1>13, <1>b DEF Move, TakenOnce, rowVars, historyVars
  <2>4. WorkerKnows(w)'
    BY <1>13, <1>d DEF Move, WorkersTyped
  <2> QED BY <1>a, <2>2, <2>3, <2>4
<1>14. CASE Interrupt(w)
  <2>1. DLQMatchesStatus'
    BY <1>14, <1>c DEF Interrupt, rowVars, dlqVars
  <2>2. TakenOnce'
    BY <1>14, <1>b DEF Interrupt, TakenOnce, rowVars, historyVars
  <2>3. WorkerKnows(w)'
    BY <1>14, <1>d DEF Interrupt, WorkersTyped
  <2> QED BY <1>a, <2>1, <2>2, <2>3
<1> QED
  BY <1>1, <1>2, <1>3, <1>4, <1>5, <1>6, <1>7, <1>8, <1>9, <1>10, <1>11, <1>12,
     <1>13, <1>14 DEF WorkerStep

\* An empty gateway has WorkerView.
LEMMA InitView == Init => WorkerView
BY DEF Init, WorkerView, Stored, DLQMatchesStatus, TakenOnce, WorkerKnows,
       Entries, EmptyQueue, ClientsTyped

\* One worker: every step keeps WorkerView.
LEMMA NextView ==
  ASSUME SingleWorker, TypeOK, TypeOK', WorkerView, [Next]_vars
  PROVE  WorkerView'
<1>1. CASE UNCHANGED vars
  BY <1>1 DEF vars, rowVars, dlqVars, envVars, workerVars, clientVars,
     historyVars,
     WorkerView, Stored, DLQMatchesStatus, TakenOnce, WorkerKnows, Current
<1>2. CASE Next
  BY <1>2, OthersKeepView, WorkerKeepsView DEF Next
<1> QED BY <1>1, <1>2

\* With one worker, WorkerView holds throughout.
THEOREM ViewHolds ==
  ASSUME SingleWorker
  PROVE  Spec => []WorkerView
<1>1. Init => TypeOK /\ WorkerView
  BY InitType, InitView
<1>2. TypeOK /\ WorkerView /\ [Next]_vars => (TypeOK /\ WorkerView)'
  BY NextType, NextView
<1> QED BY <1>1, <1>2, PTL DEF Spec

------------------------------------------------------------------------------
(* What follows *)

\* Whatever crashes, lost answers, retries and operator replays happen, the
\* chat gets a delivery's message at most once, for any number of deliveries,
\* producers, operators, attempts, replays and faults (processOutbound parks
\* what it finds in processing and never sends it again).
THEOREM AtMostOnce ==
  ASSUME SingleWorker
  PROVE  Spec => []AtMostOneDelivery
<1>1. WorkerView => AtMostOneDelivery
  BY DEF WorkerView, TakenOnce, AtMostOneDelivery
<1> QED BY <1>1, ViewHolds, PTL

\* The dead letters an operator sees as active are the dead-lettered
\* deliveries (MarkGatewayDeliveryDeadLettered, PrepareGatewayDLQReplay and
\* DiscardGatewayDLQ write both tables in one transaction).
THEOREM DLQIsTrue ==
  ASSUME SingleWorker
  PROVE  Spec => []DLQMatchesStatus
<1>1. WorkerView => DLQMatchesStatus
  BY DEF WorkerView
<1> QED BY <1>1, ViewHolds, PTL

\* No attempt begins before the bot's stored deadline (botGate, setBotGate).
THEOREM GateHolds ==
  ASSUME SingleWorker
  PROVE  Spec => RateLimitHolds
<1>1. WorkerView =>
        [\A w \in Workers : pc[w] = "begin" /\ pc'[w] = "send" => ~gated]_vars
  BY DEF WorkerView, WorkerKnows
<1> QED BY <1>1, ViewHolds, PTL DEF RateLimitHolds

------------------------------------------------------------------------------
(* Steps of the worker, seen from outside *)

WorkerMay(d, s) ==
  \/ status[d] \in {"accepted", "retrying"} /\ s = "processing"
  \/ status[d] = "processing" /\ sent[d] = 1 /\ s = "succeeded"
  \/ status[d] = "processing" /\ s = "reconciling"
  \/ /\ status[d] \notin Settled \cup {"none", "dead-lettered"}
     /\ sent[d] = 0 /\ s \in {"retrying", "dead-lettered"}

WorkerEffect ==
  \/ UNCHANGED <<status, sent>>
  \/ \E d \in Deliveries :
       /\ status[d] = "processing" /\ sent[d] = 0
       /\ sent' = [sent EXCEPT ![d] = 1] /\ UNCHANGED status
  \/ \E d \in Deliveries, s \in Status :
       WorkerMay(d, s) /\ status' = [status EXCEPT ![d] = s] /\ UNCHANGED sent

\* A worker's step takes one row along a legal move, or the chat takes the
\* message of a dispatched delivery, or nothing is seen.
LEMMA WorkerSteps ==
  ASSUME TypeOK, WorkerView, NEW w \in Workers,
         \/ ReadNew(w) \/ WorkerStep(w) \/ Interrupt(w)
         \/ \E e \in redis.pel : ClaimStale(w, e)
  PROVE  WorkerEffect
<1> DEFINE d == Current(w)
<1> USE DEF TypeOK
<1>a. WorkerKnows(w) /\ Stored
  BY DEF WorkerView
<1>b. ASSUME pc[w] # "idle" PROVE d \in Deliveries /\ status[d] # "none"
  BY <1>a, <1>b, QueueFields DEF WorkersTyped, Current, Stored
<1>c. ASSUME NEW s \in Status, d \in Deliveries, WorkerMay(d, s),
             status' = [status EXCEPT ![d] = s], UNCHANGED sent
      PROVE  WorkerEffect
  BY <1>c DEF WorkerEffect
<1>1. CASE ReadNew(w) \/ Load(w) \/ Resolve(w) \/ SetGate(w) \/ Ack(w) \/ Move(w) \/ Interrupt(w)
  BY <1>1 DEF ReadNew, Load, Resolve, SetGate, Ack, Move, Interrupt,
     WorkerEffect,
     rowVars, historyVars
<1>2. CASE \E e \in redis.pel : ClaimStale(w, e)
  BY <1>2 DEF ClaimStale, WorkerEffect, rowVars, historyVars
<1>3. CASE Begin(w)
  <2>1. d \in Deliveries /\ status[d] # "none"
    BY <1>3, <1>b DEF Begin
  <2>2. CASE status[d] \in {"accepted", "retrying"}
    <3>1. WorkerMay(d, "processing") /\ status' = [status EXCEPT ![d] = "processing"] /\ UNCHANGED sent
      BY <1>3, <2>2 DEF Begin, WorkerMay, historyVars
    <3> QED BY <1>c, <2>1, <3>1 DEF Status
  <2>3. CASE status[d] \notin {"accepted", "retrying"}
    BY <1>3, <2>3 DEF Begin, WorkerEffect, historyVars
  <2> QED BY <2>2, <2>3
<1>4. CASE Retry(w)
  <2>1. d \in Deliveries /\ status[d] # "none"
    BY <1>4, <1>b DEF Retry
  <2>2. WorkerMay(d, "retrying")
    BY <1>4, <1>a, <2>1 DEF Retry, WorkerKnows, WorkerMay
  <2>3. status' = [status EXCEPT ![d] = "retrying"] /\ UNCHANGED sent
    BY <1>4 DEF Retry, historyVars
  <2> QED BY <1>c, <2>1, <2>2, <2>3 DEF Status
<1>5. CASE Succeed(w)
  <2>1. d \in Deliveries /\ status[d] # "none"
    BY <1>5, <1>b DEF Succeed
  <2>2. WorkerMay(d, "succeeded")
    BY <1>5, <1>a, <2>1 DEF Succeed, WorkerKnows, WorkerMay
  <2>3. status' = [status EXCEPT ![d] = "succeeded"] /\ UNCHANGED sent
    BY <1>5 DEF Succeed, historyVars
  <2> QED BY <1>c, <2>1, <2>2, <2>3 DEF Status
<1>6. CASE Reconcile(w)
  <2>1. d \in Deliveries /\ status[d] # "none"
    BY <1>6, <1>b DEF Reconcile
  <2>2. WorkerMay(d, "reconciling")
    BY <1>6, <1>a, <2>1 DEF Reconcile, WorkerKnows, WorkerMay
  <2>3. status' = [status EXCEPT ![d] = "reconciling"] /\ UNCHANGED sent
    BY <1>6 DEF Reconcile, historyVars
  <2> QED BY <1>c, <2>1, <2>2, <2>3 DEF Status
<1>7. CASE DeadLetter(w)
  <2>1. d \in Deliveries /\ status[d] # "none"
    BY <1>7, <1>b DEF DeadLetter
  <2>2. WorkerMay(d, "dead-lettered")
    BY <1>7, <1>a, <2>1 DEF DeadLetter, WorkerKnows, WorkerMay
  <2>3. status' = [status EXCEPT ![d] = "dead-lettered"] /\ UNCHANGED sent
    BY <1>7 DEF DeadLetter, historyVars
  <2> QED BY <1>c, <2>1, <2>2, <2>3 DEF Status
<1>8. CASE Send(w)
  <2>1. d \in Deliveries /\ status[d] = "processing" /\ sent[d] = 0
    BY <1>8, <1>a, <1>b DEF Send, WorkerKnows
  <2>2. UNCHANGED sent \/ sent' = [sent EXCEPT ![d] = 1]
    BY <1>8, <2>1 DEF Send, RestTyped
  <2>3. UNCHANGED status
    BY <1>8 DEF Send, rowVars
  <2> QED BY <2>1, <2>2, <2>3 DEF WorkerEffect
<1> QED BY <1>1, <1>2, <1>3, <1>4, <1>5, <1>6, <1>7, <1>8 DEF WorkerStep

\* Every step of the gateway is a client's or a worker's.
LEMMA Effects ==
  ASSUME TypeOK, TypeOK', WorkerView, [Next]_vars
  PROVE  WorkerEffect \/ (ClientStep /\ UNCHANGED sent)
<1>1. CASE UNCHANGED vars
  BY <1>1 DEF vars, rowVars, historyVars, ClientStep
<1>2. CASE Next
  BY <1>2, OthersKeepView, WorkerSteps DEF Next
<1> QED BY <1>1, <1>2

\* No worker, operator or client moves a delivery that is confirmed or parked
\* for reconciliation (MarkGatewayDeliverySucceeded and
\* MarkGatewayDeliveryReconciling are final).
THEOREM SettledStays ==
  ASSUME SingleWorker
  PROVE  Spec => SettledIsFinal
<1>1. TypeOK /\ TypeOK' /\ WorkerView /\ [Next]_vars =>
        [\A d \in Deliveries :
           status[d] \in {"succeeded", "reconciling"} => status'[d] = status[d]]_vars
  BY Effects DEF WorkerEffect, WorkerMay, ClientStep, ClientMoves, Settled,
     TypeOK, RowsTyped
<1> QED BY <1>1, TypeCorrect, ViewHolds, PTL DEF SettledIsFinal, Spec

------------------------------------------------------------------------------
(* The gateway implements the lifecycle *)

Phases == [d \in Deliveries |-> PhaseOf(status[d])]

\* A row taken to a new status takes its delivery to the phase of that status.
LEMMA RowStep ==
  ASSUME RowsTyped, NEW d \in Deliveries, NEW s \in Status,
         status' = [status EXCEPT ![d] = s]
  PROVE  Phases[d] = PhaseOf(status[d]) /\ Phases' = [Phases EXCEPT ![d] = PhaseOf(s)]
BY DEF Phases, RowsTyped

\* Or of none, if the phase stays.
LEMMA RowStutter ==
  ASSUME RowsTyped, NEW d \in Deliveries, NEW s \in Status,
         status' = [status EXCEPT ![d] = s], UNCHANGED sent,
         PhaseOf(status[d]) = PhaseOf(s)
  PROVE  UNCHANGED Lifecycle!vars
<1>1. \A x \in Deliveries : PhaseOf(status'[x]) = PhaseOf(status[x])
  BY DEF RowsTyped
<1> QED BY <1>1 DEF Lifecycle!vars

\* Handlers, the outbox loop and operators take steps of the lifecycle.
LEMMA ClientStepRefines ==
  ASSUME RowsTyped, ClientStep, UNCHANGED sent
  PROVE  [Lifecycle!Next]_(Lifecycle!vars)
<1>1. CASE UNCHANGED status
  BY <1>1 DEF Lifecycle!vars
<1>2. ASSUME NEW d \in Deliveries, NEW s \in Status,
             <<status[d], s>> \in ClientMoves, status' = [status EXCEPT ![d] = s]
      PROVE  [Lifecycle!Next]_(Lifecycle!vars)
  <2>1. CASE status[d] = "none" /\ s = "pending_enqueue"
    <3>1. Lifecycle!Move(d, {"absent"}, {"queued"})
      <4>1. PhaseOf(status[d]) \in {"absent"} /\ PhaseOf(s) \in {"queued"}
        BY <1>2, <2>1 DEF PhaseOf
      <4> QED BY <1>2, <4>1, RowStep DEF Lifecycle!Move, Phases
    <3> QED BY <3>1 DEF Lifecycle!Next, Lifecycle!Accept
  <2>2. CASE status[d] \in {"pending_enqueue", "replay_pending"} /\ s = "accepted"
    BY <1>2, <2>2, RowStutter DEF PhaseOf
  <2>3. CASE status[d] = "dead-lettered" /\ s = "replay_pending"
    <3>1. Lifecycle!Move(d, {"dead"}, {"queued"})
      <4>1. PhaseOf(status[d]) \in {"dead"} /\ PhaseOf(s) \in {"queued"}
        BY <1>2, <2>3 DEF PhaseOf
      <4> QED BY <1>2, <4>1, RowStep DEF Lifecycle!Move, Phases
    <3> QED BY <3>1 DEF Lifecycle!Next, Lifecycle!Replay
  <2>4. CASE status[d] = "dead-lettered" /\ s = "discarded"
    <3>1. Lifecycle!Move(d, {"dead"}, {"discarded"})
      <4>1. PhaseOf(status[d]) \in {"dead"} /\ PhaseOf(s) \in {"discarded"}
        BY <1>2, <2>4 DEF PhaseOf
      <4> QED BY <1>2, <4>1, RowStep DEF Lifecycle!Move, Phases
    <3> QED BY <3>1 DEF Lifecycle!Next, Lifecycle!Discard
  <2> QED BY <1>2, <2>1, <2>2, <2>3, <2>4 DEF ClientMoves
<1> QED BY <1>1, <1>2 DEF ClientStep

\* So does the worker, by what it does to a row and to the chat.
LEMMA WorkerEffectRefines ==
  ASSUME RowsTyped, sent \in [Deliveries -> Nat], WorkerEffect
  PROVE  [Lifecycle!Next]_(Lifecycle!vars)
<1>1. CASE UNCHANGED <<status, sent>>
  BY <1>1 DEF Lifecycle!vars
<1>2. ASSUME NEW d \in Deliveries, status[d] = "processing", sent[d] = 0,
             sent' = [sent EXCEPT ![d] = 1], UNCHANGED status
      PROVE  [Lifecycle!Next]_(Lifecycle!vars)
  <2>1. Lifecycle!Take(d)
    BY <1>2 DEF Lifecycle!Take, PhaseOf
  <2> QED BY <2>1 DEF Lifecycle!Next
<1>3. ASSUME NEW d \in Deliveries, NEW s \in Status, WorkerMay(d, s),
             status' = [status EXCEPT ![d] = s], UNCHANGED sent
      PROVE  [Lifecycle!Next]_(Lifecycle!vars)
  <2>1. CASE status[d] \in {"accepted", "retrying"} /\ s = "processing"
    <3>1. Lifecycle!Move(d, {"queued"}, {"dispatched"})
      <4>1. PhaseOf(status[d]) \in {"queued"} /\ PhaseOf(s) \in {"dispatched"}
        BY <1>3, <2>1 DEF PhaseOf
      <4> QED BY <1>3, <4>1, RowStep DEF Lifecycle!Move, Phases
    <3> QED BY <3>1 DEF Lifecycle!Next, Lifecycle!Dispatch
  <2>2. CASE status[d] = "processing" /\ sent[d] = 1 /\ s = "succeeded"
    <3>1. Lifecycle!Move(d, {"dispatched"}, {"delivered"})
      <4>1. PhaseOf(status[d]) \in {"dispatched"} /\ PhaseOf(s) \in {"delivered"}
        BY <1>3, <2>2 DEF PhaseOf
      <4> QED BY <1>3, <4>1, RowStep DEF Lifecycle!Move, Phases
    <3> QED BY <2>2, <3>1 DEF Lifecycle!Next, Lifecycle!Confirm
  <2>3. CASE status[d] = "processing" /\ s = "reconciling"
    <3>1. Lifecycle!Move(d, {"dispatched"}, {"uncertain"})
      <4>1. PhaseOf(status[d]) \in {"dispatched"} /\ PhaseOf(s) \in {"uncertain"}
        BY <1>3, <2>3 DEF PhaseOf
      <4> QED BY <1>3, <4>1, RowStep DEF Lifecycle!Move, Phases
    <3> QED BY <3>1 DEF Lifecycle!Next, Lifecycle!Park
  <2>4. CASE /\ status[d] \notin Settled \cup {"none", "dead-lettered"}
             /\ sent[d] = 0 /\ s \in {"retrying", "dead-lettered"}
    <3>0. PhaseOf(s) \in {"queued", "dead"}
      BY <2>4 DEF PhaseOf
    <3>1. CASE status[d] = "processing"
      <4>1. Lifecycle!Move(d, {"dispatched"}, {"queued", "dead"})
        <5>1. PhaseOf(status[d]) \in {"dispatched"} /\ PhaseOf(s) \in {"queued", "dead"}
          BY <1>3, <3>0, <3>1 DEF PhaseOf
        <5> QED BY <1>3, <5>1, RowStep DEF Lifecycle!Move, Phases
      <4> QED BY <2>4, <4>1 DEF Lifecycle!Next, Lifecycle!Fail
    <3>2. CASE status[d] = "discarded"
      <4>1. Lifecycle!Move(d, {"discarded"}, {"queued", "dead"})
        <5>1. PhaseOf(status[d]) \in {"discarded"} /\ PhaseOf(s) \in {"queued", "dead"}
          BY <1>3, <3>0, <3>2 DEF PhaseOf
        <5> QED BY <1>3, <5>1, RowStep DEF Lifecycle!Move, Phases
      <4> QED BY <4>1 DEF Lifecycle!Next, Lifecycle!Revive
    <3>3. CASE status[d] \in {"pending_enqueue", "accepted", "retrying", "replay_pending"}
      <4>1. CASE s = "retrying"
        BY <1>3, <3>3, <4>1, RowStutter DEF PhaseOf
      <4>2. CASE s = "dead-lettered"
        <5>1. Lifecycle!Move(d, {"queued"}, {"dead"})
          <6>1. PhaseOf(status[d]) \in {"queued"} /\ PhaseOf(s) \in {"dead"}
            BY <1>3, <3>3, <4>2 DEF PhaseOf
          <6> QED BY <1>3, <6>1, RowStep DEF Lifecycle!Move, Phases
        <5> QED BY <5>1 DEF Lifecycle!Next, Lifecycle!Drop
      <4> QED BY <2>4, <4>1, <4>2
    <3> QED BY <2>4, <3>1, <3>2, <3>3 DEF RowsTyped, Status, Settled
  <2> QED BY <1>3, <2>1, <2>2, <2>3, <2>4 DEF WorkerMay
<1> QED BY <1>1, <1>2, <1>3 DEF WorkerEffect

\* The gateway implements the lifecycle it promises of every delivery: what is
\* dispatched ends delivered, parked, or, only if the chat did not get it,
\* queued again or dead.
THEOREM Implements ==
  ASSUME SingleWorker
  PROVE  Spec => ImplementsLifecycle
<1>1. Init => Lifecycle!Init
  BY DEF Init, Lifecycle!Init, PhaseOf
<1>2. TypeOK /\ TypeOK' /\ WorkerView /\ [Next]_vars => [Lifecycle!Next]_(Lifecycle!vars)
  BY Effects, ClientStepRefines, WorkerEffectRefines DEF TypeOK, RestTyped
<1> QED BY <1>1, <1>2, TypeCorrect, ViewHolds, PTL DEF Spec,
   ImplementsLifecycle, Lifecycle!Spec

------------------------------------------------------------------------------
(* Dead letters reach the Redis DLQ *)

\* What the worker holds is pending for it: nobody else acknowledges it, and
\* what it acknowledges is settled.
Holds ==
  \A w \in Workers :
    /\ batch[w] \subseteq redis.pel
    /\ pc[w] # "idle" => entry[w] \in redis.pel \ batch[w]
    /\ pc[w] = "ack" => status[Current(w)] \in Settled

\* An entry stays live until a worker is done with it.
LEMMA LiveKept ==
  ASSUME TypeOK, [Next]_vars, NEW e \in Entries(redis),
         \A w \in Workers : Ack(w) \/ Move(w) => e # entry[w]
  PROVE  /\ e \in Entries(redis') /\ redis'.stream[e] = redis.stream[e]
         /\ e \in redis.pel => e \in redis'.pel
         /\ e \in Live(redis) => e \in Live(redis')
<1>0. /\ redis \in Queue(Deliveries) /\ BatchSize \in Nat
      /\ e \in Entries(redis') /\ redis'.stream[e] = redis.stream[e]
  BY Scripts, ConstantsAssumption DEF Grows
<1> DEFINE Stays == /\ e \in redis.pel => e \in redis'.pel
                    /\ e \in Live(redis) => e \in Live(redis')
<1>1. ASSUME redis'.stream = redis.stream, redis' = redis PROVE Stays
  BY <1>1
<1>2. ASSUME NEW d \in Deliveries, redis' = AppendOnce(redis, d) PROVE Stays
  BY <1>0, <1>2, StaysLive
<1>3. ASSUME NEW d \in Deliveries, NEW g \in Nat, redis' = ReplayFromDLQ(redis, d, g) PROVE Stays
  BY <1>0, <1>3, StaysLive
<1>4. ASSUME NEW w \in Workers, ReadNew(w) PROVE Stays
  BY <1>0, <1>4, StaysLive DEF ReadNew
<1>5. ASSUME NEW w \in Workers, Ack(w) PROVE Stays
  <2>1. entry[w] # e /\ redis' = Acknowledge(redis, entry[w])
    BY <1>5 DEF Ack
  <2> QED BY <1>0, <2>1, StaysLive
<1>6. ASSUME NEW w \in Workers, Move(w) PROVE Stays
  <2>1. entry[w] # e /\ redis' = MoveToDLQ(redis, entry[w], Current(w))
    BY <1>6 DEF Move
  <2> QED BY <1>0, <2>1, StaysLive
<1>7. ASSUME (\E p \in Producers : AppendRequest(p)) \/ Enqueue \/ (\E o \in Operators : Replay(o))
      PROVE  Stays
  <2>1. ClientsTyped
    BY DEF TypeOK
  <2>2. ASSUME NEW p \in Producers, AppendRequest(p) PROVE Stays
    <3>1. request[p].d \in Deliveries
      BY <2>1, <2>2, JobFields DEF AppendRequest, ClientsTyped
    <3> QED BY <1>2, <2>2, <3>1 DEF AppendRequest
  <2>3. CASE Enqueue
    <3>1. enqueuer.d \in Deliveries /\ enqueuer.gen \in Nat
      BY <2>1, <2>3, JobFields DEF Enqueue, ClientsTyped
    <3> QED BY <1>2, <1>3, <2>3, <3>1 DEF Enqueue
  <2>4. ASSUME NEW o \in Operators, Replay(o) PROVE Stays
    <3>1. action[o].d \in Deliveries /\ action[o].gen \in Nat
      BY <2>1, <2>4, JobFields DEF Replay, ClientsTyped
    <3> QED BY <1>3, <2>4, <3>1 DEF Replay
  <2> QED BY <1>7, <2>2, <2>3, <2>4
<1> HIDE DEF Stays
<1>8. Stays
  BY <1>1, <1>4, <1>5, <1>6, <1>7, QueueSteps
<1> QED BY <1>0, <1>8 DEF Stays

\* What is settled stays settled.
LEMMA SettledStep ==
  ASSUME TypeOK, WorkerView, [Next]_vars, NEW d \in Deliveries, status[d] \in Settled
  PROVE  status'[d] = status[d]
<1>1. TypeOK'
  BY NextType
<1>2. WorkerEffect \/ ClientStep
  BY <1>1, Effects
<1> QED BY <1>2 DEF WorkerEffect, WorkerMay, ClientStep, ClientMoves, Settled, TypeOK, RowsTyped

\* One worker holds what is pending.
LEMMA HoldsKept ==
  ASSUME SingleWorker, TypeOK, WorkerView, Holds, [Next]_vars
  PROVE  Holds'
<1> SUFFICES ASSUME NEW w \in Workers
             PROVE  /\ batch'[w] \subseteq redis'.pel
                    /\ pc'[w] # "idle" => entry'[w] \in redis'.pel \ batch'[w]
                    /\ pc'[w] = "ack" => status'[Current(w)'] \in Settled
  BY DEF Holds
<1>0. /\ WorkersTyped /\ redis \in Queue(Deliveries) /\ BatchSize \in Nat
      /\ redis.pel \subseteq Entries(redis)
      /\ status \in [Deliveries -> Status]
      /\ pc \in [Workers -> WorkerPC] /\ entry \in [Workers -> Nat]
      /\ batch \in [Workers -> SUBSET Entries(redis)]
      /\ \A v \in Workers : v = w
  BY ConstantsAssumption, QueueFields DEF TypeOK, WorkersTyped, RowsTyped, SingleWorker
<1>1. /\ batch[w] \subseteq redis.pel
      /\ pc[w] # "idle" => entry[w] \in redis.pel \ batch[w]
      /\ pc[w] = "ack" => status[Current(w)] \in Settled
  BY DEF Holds
<1>2. ~(Ack(w) \/ Move(w)) => redis.pel \subseteq redis'.pel
  BY <1>0, LiveKept
<1>3. CASE UNCHANGED workerVars
  <2>1. ~(Ack(w) \/ Move(w))
    <3>1. pc'[w] = pc[w]
      BY <1>3 DEF workerVars
    <3> QED BY <1>0, <3>1 DEF Ack, Move
  <2>2. pc[w] = "ack" => status'[Current(w)'] \in Settled
    <3>1. SUFFICES ASSUME pc[w] = "ack" PROVE status'[Current(w)'] \in Settled
      OBVIOUS
    <3>2. Current(w)' = Current(w) /\ Current(w) \in Deliveries
      BY <1>0, <1>3, <3>1, CurrentStays, Scripts DEF workerVars
    <3> QED BY <1>1, <3>1, <3>2, SettledStep
  <2> QED BY <1>1, <1>2, <1>3, <2>1, <2>2 DEF workerVars
<1>4. CASE ReadNew(w)
  <2>1. redis' = ReadGroup(redis, BatchSize) /\ batch'[w] = Unread(redis, BatchSize) /\ pc'[w] = "idle"
    BY <1>0, <1>4 DEF ReadNew
  <2> QED BY <1>0, <2>1, ReadGroupEffect
<1>5. ASSUME NEW e \in redis.pel, ClaimStale(w, e)
      PROVE  batch'[w] \subseteq redis'.pel /\ pc'[w] = "idle"
  BY <1>0, <1>5 DEF ClaimStale
<1>6. CASE Load(w)
  <2>1. PICK e \in batch[w] : /\ entry' = [entry EXCEPT ![w] = e]
                              /\ batch' = [batch EXCEPT ![w] = batch[w] \ {e}]
                              /\ pc' = [pc EXCEPT ![w] = AfterLoad(redis.stream[e])]
    BY <1>6 DEF Load
  <2>2. redis' = redis /\ status' = status
    BY <1>6 DEF Load, rowVars
  <2>3. pc'[w] = AfterLoad(redis.stream[e]) /\ entry'[w] = e /\ batch'[w] = batch[w] \ {e}
    BY <1>0, <2>1
  <2>4. AfterLoad(redis.stream[e]) = "ack" => status[redis.stream[e]] \in Settled
    BY DEF AfterLoad, Settled
  <2> QED BY <1>1, <2>2, <2>3, <2>4 DEF Current
<1>7. CASE Resolve(w) \/ Begin(w) \/ Send(w) \/ SetGate(w) \/ Retry(w) \/ DeadLetter(w)
  <2>1. pc'[w] # "ack" /\ pc[w] # "idle" /\ UNCHANGED <<redis, batch, entry>>
    BY <1>0, <1>7 DEF Resolve, Begin, Send, SetGate, Retry, DeadLetter
  <2> QED BY <1>1, <2>1
<1>8. CASE Succeed(w) \/ Reconcile(w)
  <2>1. pc[w] # "idle" /\ UNCHANGED <<redis, batch, entry>>
    BY <1>8 DEF Succeed, Reconcile
  <2>2. Current(w)' = Current(w) /\ Current(w) \in Deliveries
    BY <2>1, CurrentType DEF Current
  <2>3. status'[Current(w)] \in Settled
    BY <1>0, <1>8, <2>2 DEF Succeed, Reconcile, Settled
  <2> QED BY <1>1, <2>1, <2>2, <2>3
<1>9. CASE Ack(w) \/ Move(w)
  <2>1. pc'[w] = "idle" /\ pc[w] # "idle" /\ UNCHANGED batch
    BY <1>0, <1>9 DEF Ack, Move
  <2>2. redis'.pel = redis.pel \ {entry[w]}
    <3>1. CASE Ack(w)
      BY <1>0, <3>1, AcknowledgeEffect DEF Ack
    <3>2. CASE Move(w)
      BY <1>0, <2>1, <3>2, CurrentType, MoveToDLQEffect DEF Move
    <3> QED BY <1>9, <3>1, <3>2
  <2> QED BY <1>1, <2>1, <2>2
<1>10. CASE Interrupt(w)
  <2>1. pc'[w] = "idle" /\ redis' = redis /\ batch'[w] \subseteq batch[w]
    BY <1>0, <1>10 DEF Interrupt
  <2> QED BY <1>1, <2>1
<1>11. UNCHANGED workerVars \/ ReadNew(w) \/ WorkerStep(w) \/ Interrupt(w) \/ \E e \in redis.pel : ClaimStale(w, e)
  BY <1>0, WorkerMoves
<1> QED BY <1>3, <1>4, <1>5, <1>6, <1>7, <1>8, <1>9, <1>10, <1>11 DEF WorkerStep

\* Only the worker dead-letters, and only what it holds.
LEMMA DeadLetterSteps ==
  ASSUME TypeOK, [Next]_vars, NEW d \in Deliveries,
         status[d] # "dead-lettered", status'[d] = "dead-lettered"
  PROVE  \E w \in Workers : DeadLetter(w) /\ Current(w) = d
BY StatusSteps

\* A dead letter leaves the Redis DLQ by a replay, which makes an entry, and
\* loses its entry by the move, which puts it into the Redis DLQ.
LEMMA ReachKept ==
  ASSUME SingleWorker, TypeOK, WorkerView, Holds, DeadLetterReachesRedis, [Next]_vars
  PROVE  DeadLetterReachesRedis'
<1>0. /\ redis \in Queue(Deliveries) /\ redis.pel \subseteq Entries(redis) /\ BatchSize \in Nat
      /\ Live(redis) \subseteq Entries(redis)
  BY QueueFields, ConstantsAssumption DEF TypeOK, WorkersTyped, Live
<1> SUFFICES ASSUME NEW d \in Deliveries, status'[d] = "dead-lettered"
             PROVE  d \in redis'.dlqIndex \/ InStream(redis', d)
  BY DEF DeadLetterReachesRedis, InStream
<1>1. ASSUME status[d] # "dead-lettered" PROVE InStream(redis', d)
  <2>1. PICK w \in Workers : DeadLetter(w) /\ Current(w) = d
    BY <1>1, DeadLetterSteps
  <2>2. pc[w] # "idle" /\ redis' = redis
    BY <2>1 DEF DeadLetter
  <2>3. entry[w] \in Live(redis)
    BY <1>0, <2>2 DEF Holds, Live
  <2> QED BY <2>1, <2>2, <2>3 DEF InStream, Current
<1>2. ASSUME status[d] = "dead-lettered", d \in redis.dlqIndex
      PROVE  d \in redis'.dlqIndex \/ InStream(redis', d)
  <2>1. CASE UNCHANGED redis
    BY <1>2, <2>1
  <2>2. ASSUME NEW x \in Deliveries, redis' = AppendOnce(redis, x) PROVE d \in redis'.dlqIndex
    BY <1>0, <1>2, <2>2, AppendFields
  <2>3. ASSUME NEW x \in Deliveries, NEW g \in Nat, redis' = ReplayFromDLQ(redis, x, g)
        PROVE  d \in redis'.dlqIndex \/ InStream(redis', d)
    <3>1. CASE <<x, g>> \in redis.replayIndex
      BY <1>2, <2>3, <3>1 DEF ReplayFromDLQ
    <3>2. CASE <<x, g>> \notin redis.replayIndex
      <4>1. redis'.dlqIndex = redis.dlqIndex \ {x} /\ InStream(redis', x)
        BY <1>0, <2>3, <3>2, ReplayFields, ReplayEffect
      <4> QED BY <1>2, <4>1
    <3> QED BY <3>1, <3>2
  <2>4. ASSUME NEW w \in Workers, ReadNew(w) PROVE d \in redis'.dlqIndex
    BY <1>0, <1>2, <2>4, ReadGroupEffect DEF ReadNew
  <2>5. ASSUME NEW w \in Workers, Ack(w) PROVE d \in redis'.dlqIndex
    BY <1>0, <1>2, <2>5, AcknowledgeEffect DEF Ack
  <2>6. ASSUME NEW w \in Workers, Move(w) PROVE d \in redis'.dlqIndex
    <3>1. Current(w) \in Deliveries /\ redis' = MoveToDLQ(redis, entry[w], Current(w))
      BY <2>6, CurrentType DEF Move
    <3> QED BY <1>0, <1>2, <3>1, MoveToDLQEffect
  <2>7. ASSUME \/ \E p \in Producers : AppendRequest(p)
               \/ Enqueue
               \/ \E o \in Operators : Replay(o)
        PROVE  \/ \E x \in Deliveries : redis' = AppendOnce(redis, x)
               \/ \E x \in Deliveries, g \in Nat : redis' = ReplayFromDLQ(redis, x, g)
    <3>1. ClientsTyped
      BY DEF TypeOK
    <3>2. ASSUME NEW p \in Producers, AppendRequest(p)
          PROVE  \E x \in Deliveries : redis' = AppendOnce(redis, x)
      BY <3>1, <3>2, JobFields DEF AppendRequest, ClientsTyped
    <3>3. CASE Enqueue
      BY <3>1, <3>3, JobFields DEF Enqueue, ClientsTyped
    <3>4. ASSUME NEW o \in Operators, Replay(o)
          PROVE  \E x \in Deliveries, g \in Nat : redis' = ReplayFromDLQ(redis, x, g)
      BY <3>1, <3>4, JobFields DEF Replay, ClientsTyped
    <3> QED BY <2>7, <3>2, <3>3, <3>4
  <2> QED BY <2>1, <2>2, <2>3, <2>4, <2>5, <2>6, <2>7, QueueSteps
<1>3. ASSUME status[d] = "dead-lettered", InStream(redis, d)
      PROVE  d \in redis'.dlqIndex \/ InStream(redis', d)
  <2>1. PICK e \in Live(redis) : redis.stream[e] = d
    BY <1>3 DEF InStream
  <2>2. CASE \A w \in Workers : Ack(w) \/ Move(w) => e # entry[w]
    BY <1>0, <2>1, <2>2, LiveKept DEF InStream
  <2>3. ASSUME NEW w \in Workers, Ack(w), e = entry[w] PROVE FALSE
    BY <1>3, <2>1, <2>3 DEF Ack, Holds, Current, Settled
  <2>4. ASSUME NEW w \in Workers, Move(w), e = entry[w] PROVE d \in redis'.dlqIndex
    <3>1. Current(w) = d /\ redis' = MoveToDLQ(redis, entry[w], d)
      BY <2>1, <2>4 DEF Move, Current
    <3> QED BY <1>0, <3>1, MoveToDLQEffect
  <2> QED BY <2>2, <2>3, <2>4
<1>4. status[d] = "dead-lettered" => d \in redis.dlqIndex \/ InStream(redis, d)
  BY DEF DeadLetterReachesRedis, InStream
<1> QED BY <1>1, <1>2, <1>3, <1>4

\* With one worker, what the worker holds stays where it was.
LEMMA HoldsAlways ==
  ASSUME SingleWorker
  PROVE  Spec => [](TypeOK /\ WorkerView /\ Holds)
<1>1. Init => TypeOK /\ WorkerView /\ Holds
  BY InitType, InitView DEF Init, Holds
<1>2. TypeOK /\ WorkerView /\ Holds /\ [Next]_vars => (TypeOK /\ WorkerView /\ Holds)'
  BY NextType, NextView, HoldsKept
<1> QED BY <1>1, <1>2, PTL DEF Spec

\* The two-step dead-lettering completes (deadLetter, moveOutboundToDLQ): a
\* row SQLite calls dead-lettered is in the Redis DLQ, or its entry is still
\* pending and the reclaim moves it.
THEOREM DeadLettersReachRedis ==
  ASSUME SingleWorker
  PROVE  Spec => []DeadLetterReachesRedis
<1>1. Init => DeadLetterReachesRedis
  BY DEF Init, DeadLetterReachesRedis
<1>2. TypeOK /\ WorkerView /\ Holds /\ DeadLetterReachesRedis /\ [Next]_vars
        => DeadLetterReachesRedis'
  BY ReachKept
<1> QED BY <1>1, <1>2, HoldsAlways, PTL DEF Spec

------------------------------------------------------------------------------
(* What is in flight has an entry *)

OneOperator == \A o, p \in Operators : o = p

Early == {"pending_enqueue", "replay_pending"}
InFlight == {"accepted", "processing", "retrying"}

InOutbox(d) == \E row \in outbox : row[1] = d

\* The entry of a generation was added; the first is in the index.
Added(d, g) == IF g = 0 THEN redis.index[d] # 0 ELSE <<d, g>> \in redis.replayIndex

\* d has an entry that stays live: one that is being moved to the DLQ does not.
Waits(d) ==
  \E e \in Live(redis) :
    redis.stream[e] = d /\ ~\E w \in Workers : pc[w] = "move" /\ entry[w] = e

\* d is to be sent, and nothing that is still to come adds an entry for it.
Due(d) ==
  \/ status[d] \in InFlight /\ ~InOutbox(d)
  \/ status[d] \in InFlight \cup Early /\ Added(d, replays[d])

Kept == \A d \in Deliveries : Due(d) => Waits(d)

\* A row comes before its entry, and dead-lettering before its replays.
First ==
  \A d \in Deliveries :
    /\ status[d] \in {"none", "pending_enqueue"} => replays[d] = 0
    /\ redis.index[d] # 0 => status[d] # "none"

\* The outbox has the newest generation of what it is to enqueue, and whoever
\* is about to complete an append has made it.
Underway ==
  /\ \A row \in outbox : row[2] = replays[row[1]]
  /\ \A d \in ServiceDeliveries : status[d] \in Early => InOutbox(d)
  /\ enqueuer.pc = "complete" => Added(enqueuer.d, enqueuer.gen)
  /\ \A p \in Producers : request[p] # Idle => request[p].d \in WorkloadDeliveries
  /\ \A p \in Producers : request[p].pc = "mark" => redis.index[request[p].d] # 0

\* An operator replays the newest generation of what has no outbox row, and
\* completes what was replayed.
Newest ==
  \A o \in Operators : action[o] # Idle /\ action[o].d \in WorkloadDeliveries =>
    /\ action[o].gen = replays[action[o].d]
    /\ action[o].pc = "complete" => <<action[o].d, action[o].gen>> \in redis.replayIndex

\* What was added stays known, and what is added waits for the worker.
LEMMA AddedKept ==
  ASSUME TypeOK, Stored, [Next]_vars, NEW d \in Deliveries, NEW g \in Nat
  PROVE  /\ Added(d, g) => Added(d, g)'
         /\ Added(d, g)' => Added(d, g) \/ (status[d] # "none" /\ Waits(d)')
         /\ redis.index[d] # 0 => redis'.index[d] # 0
         /\ redis'.index[d] # 0 => redis.index[d] # 0 \/ status[d] # "none"
<1>0. redis \in Queue(Deliveries) /\ WorkersTyped
  BY DEF TypeOK, WorkersTyped
<1> DEFINE Goal == /\ Added(d, g) => Added(d, g)'
                   /\ Added(d, g)' => Added(d, g) \/ (status[d] # "none" /\ Waits(d)')
                   /\ redis.index[d] # 0 => redis'.index[d] # 0
                   /\ redis'.index[d] # 0 => redis.index[d] # 0 \/ status[d] # "none"
<1>1. ASSUME redis'.index = redis.index, redis'.replayIndex = redis.replayIndex PROVE Goal
  BY <1>1 DEF Added
<1>2. ASSUME UNCHANGED workerVars, \E e \in Live(redis') : redis'.stream[e] = d /\ e \notin Entries(redis)
      PROVE  Waits(d)'
  <2>1. PICK e \in Live(redis') : redis'.stream[e] = d /\ e \notin Entries(redis)
    BY <1>2
  <2>2. ASSUME NEW w \in Workers, pc'[w] = "move", entry'[w] = e PROVE FALSE
    BY <1>0, <1>2, <2>1, <2>2 DEF workerVars, WorkersTyped
  <2> QED BY <2>1, <2>2 DEF Waits
<1>3. ASSUME NEW v \in Deliveries, Appends(v), redis' = AppendOnce(redis, v)
      PROVE  Goal
  <2>1. UNCHANGED workerVars /\ status[v] # "none"
    BY <1>3 DEF Appends, AppendRequest, Enqueue, Stored, Idle, Job
  <2>2. /\ redis'.index[d] # 0 <=> redis.index[d] # 0 \/ d = v
        /\ redis'.replayIndex = redis.replayIndex
    BY <1>0, <1>3, AppendFields
  <2>3. redis.index[d] = 0 /\ d = v => Waits(d)'
    <3>1. SUFFICES ASSUME redis.index[d] = 0, d = v PROVE Waits(d)'
      OBVIOUS
    <3>2. redis' = Add(redis, d)
      BY <1>3, <3>1 DEF AppendOnce
    <3> QED BY <1>0, <1>2, <2>1, <3>2, NewEntry
  <2> QED BY <2>1, <2>2, <2>3 DEF Added
<1>4. ASSUME NEW v \in Deliveries, NEW n \in Nat, Replays(v, n), redis' = ReplayFromDLQ(redis, v, n)
      PROVE  Goal
  <2>1. UNCHANGED workerVars /\ status[v] # "none"
    BY <1>4 DEF Replays, Replay, Enqueue, Stored, Idle, Job
  <2>2. CASE <<v, n>> \in redis.replayIndex
    BY <1>1, <1>4, <2>2 DEF ReplayFromDLQ
  <2>3. CASE <<v, n>> \notin redis.replayIndex
    <3>1. /\ redis'.index[d] # 0 <=> redis.index[d] # 0 \/ d = v
          /\ redis'.replayIndex = redis.replayIndex \cup {<<v, n>>}
      BY <1>0, <1>4, <2>3, ReplayFields
    <3>2. d = v => Waits(d)'
      BY <1>0, <1>2, <1>4, <2>1, <2>3, NewEntry
    <3> QED BY <2>1, <3>1, <3>2 DEF Added
  <2> QED BY <2>2, <2>3
<1> HIDE DEF Goal
<1>5. Goal
  BY <1>1, <1>3, <1>4, Scripts
<1> QED BY <1>5 DEF Goal

\* A row comes before its entry.
LEMMA FirstKept ==
  ASSUME TypeOK, Stored, First, [Next]_vars
  PROVE  First'
<1>0. /\ status \in [Deliveries -> Status] /\ replays \in [Deliveries -> Nat]
  BY DEF TypeOK, RowsTyped
<1>1. ASSUME NEW d \in Deliveries, status'[d] \in {"none", "pending_enqueue"} PROVE replays'[d] = 0
  <2>1. replays[d] = 0
    BY <1>1, RowsStay, PendingSteps DEF First
  <2>2. CASE UNCHANGED replays
    BY <2>1, <2>2
  <2>3. ASSUME NEW o \in Operators, NEW x \in Deliveries, PrepareReplayOf(o, x), dlq[x] = "active",
               replays' = [replays EXCEPT ![x] = replays[x] + 1]
        PROVE  replays'[d] = 0
    <3>1. status' = [status EXCEPT ![x] = "replay_pending"]
      BY <2>3 DEF PrepareReplayOf
    <3>2. d # x
      BY <1>0, <1>1, <3>1
    <3> QED BY <1>0, <2>1, <2>3, <3>2
  <2> QED BY <2>2, <2>3, ReplaysGrow
<1>2. ASSUME NEW d \in Deliveries, redis'.index[d] # 0 PROVE status'[d] # "none"
  <2>1. 0 \in Nat
    OBVIOUS
  <2> QED BY <1>2, <2>1, AddedKept, RowsStay DEF First
<1> QED BY <1>1, <1>2 DEF First

\* The outbox rows of a delivery: they stay until it is enqueued, and a replay
\* replaces them.
LEMMA OutboxRows ==
  ASSUME TypeOK, [Next]_vars, NEW d \in Deliveries, InOutbox(d)
  PROVE  \/ InOutbox(d)'
         \/ /\ CompleteEnqueue /\ enqueuer.d = d /\ <<d, enqueuer.gen>> \in outbox
            /\ status' = IF status[d] \in Early THEN [status EXCEPT ![d] = "accepted"] ELSE status
<1>0. outbox \in SUBSET (ServiceDeliveries \X Nat)
  BY DEF TypeOK, RowsTyped
<1>1. PICK row \in outbox : row[1] = d
  BY DEF InOutbox
<1>2. CASE row \in outbox'
  BY <1>1, <1>2 DEF InOutbox
<1>3. ASSUME NEW x \in ServiceDeliveries, AcceptService(x) PROVE row \in outbox'
  BY <1>1, <1>3 DEF AcceptService
<1>4. ASSUME CompleteEnqueue, row \notin outbox'
      PROVE  /\ enqueuer.d = d /\ <<d, enqueuer.gen>> \in outbox
             /\ status' = IF status[d] \in Early THEN [status EXCEPT ![d] = "accepted"] ELSE status
  <2>1. row = <<enqueuer.d, enqueuer.gen>>
    BY <1>1, <1>4 DEF CompleteEnqueue
  <2> QED BY <1>1, <1>4, <2>1 DEF CompleteEnqueue, Early
<1>5. ASSUME NEW o \in Operators, PrepareReplay(o) PROVE InOutbox(d)'
  <2>1. PICK x \in Deliveries : PrepareReplayOf(o, x)
    BY <1>5 DEF PrepareReplay
  <2>2. CASE dlq[x] = "active" /\ x = d
    <3>1. d \in ServiceDeliveries
      BY <1>0, <1>1
    <3>2. <<d, replays[d] + 1>> \in outbox'
      BY <2>1, <2>2, <3>1 DEF PrepareReplayOf
    <3> QED BY <3>2 DEF InOutbox
  <2>3. CASE dlq[x] = "active" /\ x # d
    <3>1. row \in outbox'
      BY <1>1, <2>1, <2>3 DEF PrepareReplayOf
    <3> QED BY <1>1, <3>1 DEF InOutbox
  <2>4. CASE dlq[x] # "active"
    <3>1. row \in outbox'
      BY <1>1, <2>1, <2>4 DEF PrepareReplayOf, dlqVars
    <3> QED BY <1>1, <3>1 DEF InOutbox
  <2> QED BY <2>2, <2>3, <2>4
<1>6. ASSUME NEW p \in Producers, Submit(p) \/ MarkAccepted(p) PROVE row \in outbox'
  BY <1>1, <1>6 DEF Submit, MarkAccepted, dlqVars
<1>7. ASSUME NEW w \in Workers, Begin(w) \/ Retry(w) \/ Succeed(w) \/ Reconcile(w) \/ DeadLetter(w)
      PROVE  row \in outbox'
  BY <1>1, <1>7 DEF Begin, Retry, Succeed, Reconcile, DeadLetter, dlqVars
<1>8. ASSUME NEW o \in Operators, CompleteReplay(o) PROVE row \in outbox'
  BY <1>1, <1>8 DEF CompleteReplay
<1>9. ASSUME NEW x \in Deliveries, Discard(x) PROVE row \in outbox'
  BY <1>1, <1>9 DEF Discard
<1> QED BY <1>1, <1>2, <1>3, <1>4, <1>5, <1>6, <1>7, <1>8, <1>9, RowSteps DEF dlqVars

\* The outbox and whoever enqueues stay with the newest generation.
LEMMA UnderwayKept ==
  ASSUME TypeOK, Stored, First, Underway, [Next]_vars
  PROVE  Underway'
<1>0. /\ status \in [Deliveries -> Status] /\ replays \in [Deliveries -> Nat]
      /\ outbox \in SUBSET (ServiceDeliveries \X Nat) /\ redis \in Queue(Deliveries)
      /\ ClientsTyped /\ ClientsTyped' /\ WorkloadDeliveries \cap ServiceDeliveries = {}
  BY NextType, ConstantsAssumption DEF TypeOK, RowsTyped, WorkersTyped
<1>1. ASSUME NEW row \in outbox' PROVE row[2] = replays'[row[1]]
  <2>1. CASE row \in outbox
    <3>1. row[1] \in ServiceDeliveries /\ row[2] = replays[row[1]]
      BY <1>0, <2>1 DEF Underway
    <3>2. CASE UNCHANGED replays
      BY <3>1, <3>2
    <3>3. ASSUME NEW o \in Operators, NEW x \in Deliveries, PrepareReplayOf(o, x), dlq[x] = "active",
                 replays' = [replays EXCEPT ![x] = replays[x] + 1]
          PROVE  row[2] = replays'[row[1]]
      <4>1. CASE x = row[1]
        <5>1. outbox' = { r \in outbox : r[1] # x } \cup {<<x, replays[x] + 1>>}
          BY <3>1, <3>3, <4>1 DEF PrepareReplayOf
        <5> QED BY <1>0, <3>3, <4>1, <5>1
      <4>2. CASE x # row[1]
        BY <1>0, <3>1, <3>3, <4>2
      <4> QED BY <4>1, <4>2
    <3> QED BY <3>2, <3>3, ReplaysGrow
  <2>2. ASSUME NEW d \in ServiceDeliveries, AcceptService(d), row = <<d, 0>>
        PROVE  row[2] = replays'[row[1]]
    <3>1. d \in Deliveries /\ replays[d] = 0 /\ UNCHANGED replays
      BY <2>2 DEF AcceptService, First, Deliveries
    <3> QED BY <2>2, <3>1
  <2>3. ASSUME NEW d \in Deliveries, row = <<d, replays[d] + 1>>,
               replays' = [replays EXCEPT ![d] = replays[d] + 1]
        PROVE  row[2] = replays'[row[1]]
    BY <1>0, <2>3
  <2> QED BY <2>1, <2>2, <2>3, OutboxSteps
<1>2. ASSUME NEW d \in ServiceDeliveries, status'[d] \in Early PROVE InOutbox(d)'
  <2>0. d \in Deliveries
    BY DEF Deliveries
  <2>1. CASE status'[d] = status[d]
    <3>1. InOutbox(d)
      BY <1>2, <2>1 DEF Underway
    <3>2. ASSUME status' = IF status[d] \in Early THEN [status EXCEPT ![d] = "accepted"] ELSE status
          PROVE  FALSE
      BY <1>0, <1>2, <2>0, <2>1, <3>2 DEF Early
    <3> QED BY <2>0, <3>1, <3>2, OutboxRows
  <2>2. CASE AcceptService(d)
    <3>1. <<d, 0>> \in outbox'
      BY <2>2 DEF AcceptService
    <3> QED BY <3>1 DEF InOutbox
  <2>3. ASSUME NEW o \in Operators, PrepareReplayOf(o, d), dlq[d] = "active" PROVE InOutbox(d)'
    <3>1. <<d, replays[d] + 1>> \in outbox'
      BY <2>3 DEF PrepareReplayOf
    <3> QED BY <3>1 DEF InOutbox
  <2>4. d \notin WorkloadDeliveries
    BY <1>0
  <2> QED BY <1>2, <2>0, <2>1, <2>2, <2>3, <2>4, StatusSteps DEF Early
<1>3. ASSUME enqueuer'.pc = "complete" PROVE Added(enqueuer.d, enqueuer.gen)'
  <2>1. CASE Enqueue
    <3>1. enqueuer.d \in Deliveries /\ enqueuer.gen \in Nat
      BY <1>0, <2>1, JobFields DEF Enqueue, ClientsTyped
    <3>2. enqueuer'.d = enqueuer.d /\ enqueuer'.gen = enqueuer.gen
      BY <2>1 DEF Enqueue, Job
    <3>3. CASE enqueuer.gen = 0
      <4>1. redis' = AppendOnce(redis, enqueuer.d)
        BY <2>1, <3>3 DEF Enqueue
      <4>2. redis'.index[enqueuer.d] # 0
        BY <1>0, <3>1, <4>1, AppendFields
      <4> QED BY <3>2, <3>3, <4>2 DEF Added
    <3>4. CASE enqueuer.gen # 0
      <4>1. redis' = ReplayFromDLQ(redis, enqueuer.d, enqueuer.gen)
        BY <2>1, <3>4 DEF Enqueue
      <4>2. <<enqueuer.d, enqueuer.gen>> \in redis'.replayIndex
        <5>1. CASE <<enqueuer.d, enqueuer.gen>> \in redis.replayIndex
          BY <4>1, <5>1 DEF ReplayFromDLQ
        <5>2. CASE <<enqueuer.d, enqueuer.gen>> \notin redis.replayIndex
          BY <1>0, <3>1, <4>1, <5>2, ReplayFields
        <5> QED BY <5>1, <5>2
      <4> QED BY <3>2, <3>4, <4>2 DEF Added
    <3> QED BY <3>3, <3>4
  <2>2. CASE enqueuer # Idle /\ enqueuer'.d = enqueuer.d /\ enqueuer'.gen = enqueuer.gen /\ enqueuer'.pc = enqueuer.pc
    <3>1. enqueuer.d \in Deliveries /\ enqueuer.gen \in Nat
      BY <1>0, <2>2, JobFields DEF ClientsTyped
    <3>2. Added(enqueuer.d, enqueuer.gen)
      BY <1>3, <2>2 DEF Underway
    <3>3. Added(enqueuer.d, enqueuer.gen)'
          <=> IF enqueuer'.gen = 0 THEN redis'.index[enqueuer'.d] # 0
              ELSE <<enqueuer'.d, enqueuer'.gen>> \in redis'.replayIndex
      BY DEF Added
    <3>4. \A d \in Deliveries, g \in Nat : Added(d, g) => Added(d, g)'
      BY AddedKept
    <3> QED BY <2>2, <3>1, <3>2, <3>4 DEF Added
  <2>3. ASSUME NEW row \in outbox, enqueuer' = Job("enqueue", row[1], row[2]) PROVE FALSE
    BY <1>3, <2>3 DEF Job
  <2>4. enqueuer' # Idle
    BY <1>3 DEF Idle, Job
  <2>5. \/ \E row \in outbox : enqueuer' = Job("enqueue", row[1], row[2])
        \/ /\ enqueuer # Idle /\ enqueuer'.d = enqueuer.d /\ enqueuer'.gen = enqueuer.gen
           /\ enqueuer'.pc = enqueuer.pc \/ Enqueue
    BY <2>4, JobSteps
  <2> QED BY <2>1, <2>2, <2>3, <2>5
<1>4. ASSUME NEW p \in Producers, request'[p] # Idle PROVE request'[p].d \in WorkloadDeliveries
  <2>1. \/ \E d \in WorkloadDeliveries : request'[p] = Job("append", d, 0)
        \/ request[p] # Idle /\ request'[p].d = request[p].d
    BY <1>4, JobSteps
  <2>2. ASSUME NEW d \in WorkloadDeliveries, request'[p] = Job("append", d, 0)
        PROVE  request'[p].d \in WorkloadDeliveries
    BY <2>2 DEF Job
  <2>3. CASE request[p] # Idle /\ request'[p].d = request[p].d
    BY <2>3 DEF Underway
  <2> QED BY <2>1, <2>2, <2>3
<1>5. ASSUME NEW p \in Producers, request'[p].pc = "mark" PROVE redis'.index[request'[p].d] # 0
  <2>1. ASSUME AppendRequest(p) PROVE redis'.index[request'[p].d] # 0
    <3>1. request[p].d \in Deliveries
      BY <1>0, <2>1, JobFields DEF AppendRequest, ClientsTyped
    <3>2. request'[p].d = request[p].d /\ redis' = AppendOnce(redis, request[p].d)
      BY <1>0, <2>1 DEF AppendRequest, ClientsTyped, Job
    <3> QED BY <1>0, <3>1, <3>2, AppendFields
  <2>2. CASE request[p] # Idle /\ request'[p].d = request[p].d /\ request'[p].pc = request[p].pc
    <3>1. request[p].d \in Deliveries /\ 0 \in Nat
      BY <1>0, <2>2, JobFields DEF ClientsTyped
    <3>2. redis.index[request[p].d] # 0
      BY <1>5, <2>2 DEF Underway
    <3> QED BY <2>2, <3>1, <3>2, AddedKept
  <2>3. ASSUME NEW d, request'[p] = Job("append", d, 0) PROVE FALSE
    BY <1>5, <2>3 DEF Job
  <2>4. request'[p] # Idle
    BY <1>5 DEF Idle, Job
  <2>5. \/ \E d \in WorkloadDeliveries : request'[p] = Job("append", d, 0)
        \/ /\ request[p] # Idle /\ request'[p].d = request[p].d
           /\ request'[p].pc = request[p].pc \/ AppendRequest(p)
    BY <2>4, JobSteps
  <2> QED BY <2>1, <2>2, <2>3, <2>5
<1> QED BY <1>1, <1>2, <1>3, <1>4, <1>5 DEF Underway

\* One operator has the newest generation of what it replays.
LEMMA NewestKept ==
  ASSUME OneOperator, TypeOK, Stored, Numbered, Newest, [Next]_vars
  PROVE  Newest'
<1>0. /\ replays \in [Deliveries -> Nat] /\ ClientsTyped /\ redis \in Queue(Deliveries)
  BY DEF TypeOK, RowsTyped, WorkersTyped
<1> SUFFICES ASSUME NEW o \in Operators, action'[o] # Idle, action'[o].d \in WorkloadDeliveries
             PROVE  /\ action'[o].gen = replays'[action'[o].d]
                    /\ action'[o].pc = "complete"
                         => <<action'[o].d, action'[o].gen>> \in redis'.replayIndex
  BY DEF Newest
<1>1. ASSUME NEW d \in Deliveries, action'[o] = Job("replay", d, replays'[d])
      PROVE  /\ action'[o].gen = replays'[action'[o].d]
             /\ action'[o].pc # "complete"
  BY <1>1 DEF Job
<1>2. ASSUME action[o] # Idle, action'[o].d = action[o].d, action'[o].gen = action[o].gen,
             action'[o].pc = action[o].pc \/ Replay(o)
      PROVE  /\ action'[o].gen = replays'[action'[o].d]
             /\ action'[o].pc = "complete"
                  => <<action'[o].d, action'[o].gen>> \in redis'.replayIndex
  <2>1. action[o].d \in Deliveries /\ action[o].gen \in Nat
    BY <1>0, <1>2, JobFields DEF ClientsTyped
  <2>2. action[o].gen # 0
    BY <1>0, <1>2, <2>1 DEF Numbered
  <2>3. UNCHANGED replays
    <3>1. ASSUME NEW p \in Operators, PrepareReplay(p) PROVE FALSE
      BY <1>2, <3>1 DEF PrepareReplay, OneOperator
    <3> QED BY <3>1, ReplaysGrow
  <2>4. ASSUME Replay(o) PROVE <<action[o].d, action[o].gen>> \in redis'.replayIndex
    <3>1. redis' = ReplayFromDLQ(redis, action[o].d, action[o].gen)
      BY <2>4 DEF Replay
    <3>2. CASE <<action[o].d, action[o].gen>> \in redis.replayIndex
      BY <3>1, <3>2 DEF ReplayFromDLQ
    <3>3. CASE <<action[o].d, action[o].gen>> \notin redis.replayIndex
      BY <1>0, <2>1, <3>1, <3>3, ReplayFields
    <3> QED BY <3>2, <3>3
  <2>5. <<action[o].d, action[o].gen>> \in redis.replayIndex
          => <<action[o].d, action[o].gen>> \in redis'.replayIndex
    BY <2>1, <2>2, AddedKept DEF Added
  <2>6. action[o].gen = replays[action[o].d]
    BY <1>2 DEF Newest
  <2>7. action[o].pc = "complete" => <<action[o].d, action[o].gen>> \in redis.replayIndex
    BY <1>2 DEF Newest
  <2> QED BY <1>2, <2>3, <2>4, <2>5, <2>6, <2>7
<1> QED BY <1>1, <1>2, JobSteps

\* A delivery waits on, unless it is one the worker acknowledges or dead-letters.
LEMMA WaitsOn ==
  ASSUME TypeOK, [Next]_vars, NEW d \in Deliveries, Waits(d),
         \A w \in Workers :
           /\ Ack(w) \/ DeadLetter(w) => d # Current(w)
           /\ Load(w) /\ pc'[w] = "move" => d # redis.stream[entry'[w]]
  PROVE  Waits(d)'
<1>0. /\ pc \in [Workers -> WorkerPC] /\ entry \in [Workers -> Nat]
  BY DEF TypeOK, WorkersTyped
<1>1. PICK e \in Live(redis) : redis.stream[e] = d /\ ~\E w \in Workers : pc[w] = "move" /\ entry[w] = e
  BY DEF Waits
<1>2. \A w \in Workers : Ack(w) \/ Move(w) => e # entry[w]
  BY <1>1 DEF Ack, Move, Current
<1>3. e \in Live(redis') /\ redis'.stream[e] = d
  <2>1. e \in Entries(redis)
    BY DEF Live
  <2> QED BY <1>1, <1>2, <2>1, LiveKept
<1>4. ASSUME NEW w \in Workers, pc'[w] = "move", entry'[w] = e PROVE FALSE
  <2>1. CASE pc[w] = "move" /\ entry'[w] = entry[w]
    BY <1>1, <1>4, <2>1
  <2>2. CASE UNCHANGED workerVars
    BY <1>4, <2>1, <2>2 DEF workerVars
  <2>3. ASSUME NEW v \in Workers, ReadNew(v) \/ \E f \in redis.pel : ClaimStale(v, f)
        PROVE  UNCHANGED <<pc, entry>>
    BY <2>3 DEF ReadNew, ClaimStale
  <2>4. ASSUME NEW v \in Workers, \/ Resolve(v) \/ Begin(v) \/ Send(v) \/ SetGate(v) \/ Retry(v)
                                  \/ Succeed(v) \/ Reconcile(v) \/ Ack(v) \/ Move(v) \/ Interrupt(v)
        PROVE  entry' = entry /\ (pc'[w] = "move" => pc[w] = "move")
    BY <1>0, <2>4 DEF Resolve, Begin, Send, SetGate, Retry, Succeed, Reconcile, Ack, Move, Interrupt
  <2>5. ASSUME NEW v \in Workers, Load(v) PROVE FALSE
    <3>1. CASE v = w
      BY <1>1, <1>4, <2>5, <3>1
    <3>2. CASE v # w
      <4>1. pc'[w] = pc[w] /\ entry'[w] = entry[w]
        BY <1>0, <2>5, <3>2 DEF Load
      <4> QED BY <1>4, <2>1, <4>1
    <3> QED BY <3>1, <3>2
  <2>6. ASSUME NEW v \in Workers, DeadLetter(v) PROVE FALSE
    <3>1. entry' = entry /\ (v # w => pc'[w] = pc[w])
      BY <1>0, <2>6 DEF DeadLetter
    <3>2. v = w => redis.stream[e] # redis.stream[entry[w]]
      BY <1>1, <2>6 DEF Current
    <3> QED BY <1>4, <2>1, <3>1, <3>2
  <2>7. UNCHANGED workerVars \/ (\E v \in Workers :
           ReadNew(v) \/ WorkerStep(v) \/ Interrupt(v) \/ \E f \in redis.pel : ClaimStale(v, f))
    BY WorkerMoves
  <2> QED BY <1>4, <2>1, <2>2, <2>3, <2>4, <2>5, <2>6, <2>7 DEF WorkerStep
<1> QED BY <1>3, <1>4 DEF Waits

\* What is due is due until it is sent, settled or dead, and waits meanwhile:
\* an entry is acknowledged for a settled delivery and moved for a dead one, a
\* replay makes an entry before the row is in flight again.
LEMMA KeptKept ==
  ASSUME SingleWorker, OneOperator \/ WorkloadDeliveries = {},
         TypeOK, WorkerView, Holds, Numbered, Counted, First, Underway,
         OneOperator => Newest, Kept, [Next]_vars
  PROVE  Kept'
<1>0. /\ status \in [Deliveries -> Status] /\ replays \in [Deliveries -> Nat]
      /\ redis \in Queue(Deliveries) /\ redis.pel \subseteq Entries(redis)
      /\ Stored /\ ClientsTyped /\ WorkersTyped
  BY QueueFields DEF TypeOK, RowsTyped, WorkersTyped, WorkerView
<1> SUFFICES ASSUME NEW d \in Deliveries, Due(d)' PROVE Waits(d)'
  BY DEF Kept
<1>1. ASSUME replays'[d] = replays[d], Added(d, replays[d])'
      PROVE  Added(d, replays[d]) \/ (status[d] # "none" /\ Waits(d)')
  <2>1. PICK g \in Nat : g = replays[d]
    BY <1>0
  <2>2. Added(d, g)' => Added(d, g) \/ (status[d] # "none" /\ Waits(d)')
    BY <1>0, AddedKept
  <2> QED BY <1>1, <2>1, <2>2 DEF Added
\* What was due waited, and waits on.
<1>2. ASSUME Due(d) PROVE Waits(d)'
  <2>1. Waits(d) /\ status[d] \in InFlight \cup Early
    BY <1>2 DEF Kept, Due
  <2>2. ASSUME NEW w \in Workers, Ack(w) PROVE d # Current(w)
    BY <2>1, <2>2 DEF Ack, Holds, Settled, InFlight, Early
  <2>3. ASSUME NEW w \in Workers, DeadLetter(w) PROVE d # Current(w)
    BY <1>0, <2>3 DEF DeadLetter, Due, InFlight, Early
  <2>4. ASSUME NEW w \in Workers, Load(w), pc'[w] = "move" PROVE d # redis.stream[entry'[w]]
    BY <1>0, <2>1, <2>4 DEF Load, AfterLoad, InFlight, Early, WorkersTyped
  <2> QED BY <2>1, <2>2, <2>3, <2>4, WaitsOn
\* A new generation has no entry yet.
<1>3. CASE replays'[d] # replays[d]
  <2>1. PICK o \in Operators, x \in Deliveries :
          /\ PrepareReplay(o) /\ PrepareReplayOf(o, x) /\ dlq[x] = "active"
          /\ replays' = [replays EXCEPT ![x] = replays[x] + 1]
    BY <1>3, ReplaysGrow
  <2>2. x = d /\ replays'[d] = replays[d] + 1 /\ replays[d] \in Nat /\ UNCHANGED redis
    BY <1>0, <1>3, <2>1 DEF PrepareReplay
  <2>3. status'[d] = "replay_pending"
    BY <1>0, <2>1, <2>2 DEF PrepareReplayOf
  <2>4. <<d, replays[d] + 1>> \notin redis.replayIndex
    <3>1. Generations(redis, d) \subseteq 1 .. replays[d]
      BY DEF Counted, CountedBy
    <3> QED BY <2>2, <3>1 DEF Generations
  <2>5. ~Added(d, replays[d])'
    BY <2>2, <2>4 DEF Added
  <2> QED BY <2>3, <2>5 DEF Due, InFlight
\* What is in flight leaves the outbox when it was added.
<1>4. CASE replays'[d] = replays[d] /\ status'[d] = status[d]
  <2>1. CASE Added(d, replays[d])'
    <3>1. status[d] \in InFlight \cup Early
      BY <1>4 DEF Due
    <3> QED BY <1>1, <1>2, <1>4, <2>1, <3>1 DEF Due
  <2>2. CASE ~Added(d, replays[d])'
    <3>1. status[d] \in InFlight /\ ~InOutbox(d)'
      BY <1>4, <2>2 DEF Due
    <3>2. CASE InOutbox(d)
      <4>1. enqueuer.pc = "complete" /\ enqueuer.d = d /\ <<d, enqueuer.gen>> \in outbox
        BY <3>1, <3>2, OutboxRows DEF CompleteEnqueue
      <4>2. Added(d, replays[d])
        BY <4>1 DEF Underway
      <4> QED BY <1>2, <3>1, <4>2 DEF Due
    <3> QED BY <1>2, <3>1, <3>2 DEF Due
  <2> QED BY <2>1, <2>2
\* What becomes early or in flight otherwise was due, or is what the worker holds.
<1>5. CASE replays'[d] = replays[d] /\ status'[d] # status[d]
  <2>1. CASE status[d] = "none" /\ status'[d] = "pending_enqueue"
    <3>1. ~Added(d, replays[d])
      BY <2>1 DEF First, Added
    <3>2. Added(d, replays[d])'
      BY <2>1 DEF Due, InFlight
    <3> QED BY <1>1, <1>5, <2>1, <3>1, <3>2
  <2>2. ASSUME NEW p \in Producers, MarkAccepted(p), request[p].d = d, status[d] = "pending_enqueue"
        PROVE  Waits(d)'
    <3>1. Added(d, replays[d])
      BY <2>2 DEF MarkAccepted, Underway, First, Added
    <3> QED BY <1>2, <2>2, <3>1 DEF Due, Early
  <2>3. ASSUME CompleteEnqueue, enqueuer.d = d, <<d, enqueuer.gen>> \in outbox, status[d] \in Early
        PROVE  Waits(d)'
    <3>1. Added(d, replays[d])
      BY <2>3 DEF CompleteEnqueue, Underway
    <3> QED BY <1>2, <2>3, <3>1 DEF Due
  <2>4. ASSUME NEW w \in Workers, Begin(w) \/ Retry(w), Current(w) = d PROVE Waits(d)'
    <3>1. entry[w] \in Live(redis) /\ redis' = redis /\ entry' = entry
      BY <1>0, <2>4 DEF Begin, Retry, Holds, Live
    <3>2. \A v \in Workers : pc'[v] # "move"
      BY <1>0, <2>4 DEF Begin, Retry, SingleWorker, WorkersTyped
    <3> QED BY <2>4, <3>1, <3>2 DEF Waits, Current
  <2>5. CASE status'[d] \in {"succeeded", "reconciling", "dead-lettered", "discarded"}
    BY <2>5 DEF Due, InFlight, Early
  <2>6. ASSUME NEW o \in Operators, PrepareReplayOf(o, d), dlq[d] = "active" PROVE FALSE
    BY <1>0, <1>5, <2>6 DEF PrepareReplayOf
  <2>7. ASSUME NEW o \in Operators, CompleteReplay(o), action[o].d = d,
               status[d] = "replay_pending", status'[d] = "accepted"
        PROVE  Waits(d)'
    <3>1. CASE d \in ServiceDeliveries
      <4>1. InOutbox(d)
        BY <2>7, <3>1 DEF Underway, Early
      <4>2. InOutbox(d)' /\ UNCHANGED redis
        BY <2>7, <4>1 DEF CompleteReplay, InOutbox
      <4>3. Added(d, replays[d])' /\ redis' = redis
        BY <4>2 DEF Due
      <4>4. Added(d, replays[d])
        BY <1>5, <4>3 DEF Added
      <4> QED BY <1>2, <2>7, <4>4 DEF Due, Early
    <3>2. CASE d \in WorkloadDeliveries
      <4>1. action[o] # Idle /\ action[o].pc = "complete"
        BY <2>7 DEF CompleteReplay, Idle, Job
      <4>2. action[o].gen = replays[d] /\ <<d, replays[d]>> \in redis.replayIndex
        BY <2>7, <3>2, <4>1 DEF Newest
      <4>3. replays[d] # 0
        BY <1>0, <2>7, <4>1, <4>2 DEF Numbered
      <4> QED BY <1>2, <2>7, <4>2, <4>3 DEF Due, Early, Added
    <3> QED BY <3>1, <3>2 DEF Deliveries
  <2> QED BY <1>5, <2>1, <2>2, <2>3, <2>4, <2>5, <2>6, <2>7, StatusSteps DEF Early
<1> QED BY <1>3, <1>4, <1>5

\* The invariant behind InFlightHasEntry.
FlightInv ==
  /\ TypeOK /\ WorkerView /\ Holds /\ Numbered /\ Counted
  /\ First /\ Underway /\ Kept
  /\ OneOperator => Newest

\* Nothing is in flight at first.
LEMMA FlightInit == Init => FlightInv
<1> SUFFICES ASSUME Init PROVE FlightInv
  OBVIOUS
<1>1. TypeOK /\ WorkerView
  BY InitType, InitView
<1>2. Numbered /\ Counted
  BY CountInit
<1>3. Holds
  BY DEF Init, Holds
<1>4. First
  BY DEF Init, First, EmptyQueue
<1>5. Underway
  BY DEF Init, Underway, Early, Idle, Job, Deliveries
<1>6. Kept
  BY DEF Init, Kept, Due, InFlight, Early
<1>7. Newest
  BY DEF Init, Newest
<1> QED BY <1>1, <1>2, <1>3, <1>4, <1>5, <1>6, <1>7 DEF FlightInv

\* Every step keeps what is in flight in the stream, or on its way there.
LEMMA FlightNext ==
  ASSUME SingleWorker, OneOperator \/ WorkloadDeliveries = {}, FlightInv, [Next]_vars
  PROVE  FlightInv'
<1>0. /\ TypeOK /\ WorkerView /\ Stored /\ Holds /\ Numbered /\ Counted
      /\ First /\ Underway /\ Kept /\ (OneOperator => Newest)
  BY DEF FlightInv, WorkerView
<1>1. TypeOK' /\ WorkerView' /\ Holds'
  BY <1>0, NextType, NextView, HoldsKept
<1>2. Numbered' /\ Counted'
  BY <1>0, NumberedKept, CountKept
<1>3. First' /\ Underway'
  BY <1>0, FirstKept, UnderwayKept
<1>4. OneOperator => Newest'
  BY <1>0, NewestKept
<1>5. Kept'
  BY <1>0, KeptKept
<1> QED BY <1>1, <1>2, <1>3, <1>4, <1>5 DEF FlightInv, OneOperator

\* Nothing that is to be sent is stranded: what the rows call accepted,
\* retrying or in dispatch has a stream entry the worker gets, or an outbox row
\* that makes one.  With two operators this holds for service deliveries only:
\* CompleteGatewayDLQReplay checks the state and not the generation, so a late
\* completion accepts a generation that is not on the stream yet.
THEOREM InFlightKept ==
  ASSUME SingleWorker, OneOperator \/ WorkloadDeliveries = {}
  PROVE  Spec => []InFlightHasEntry
<1>1. FlightInv => InFlightHasEntry
  <2> SUFFICES ASSUME FlightInv, NEW d \in Deliveries, status[d] \in InFlight, ~InOutbox(d)
               PROVE  \E e \in Live(redis) : redis.stream[e] = d
    BY DEF InFlightHasEntry, InFlight, InOutbox
  <2>1. Waits(d)
    BY DEF FlightInv, Kept, Due
  <2> QED BY <2>1 DEF Waits
<1>2. FlightInv /\ [Next]_vars => FlightInv'
  BY FlightNext
<1> QED BY <1>1, <1>2, FlightInit, PTL DEF Spec

\* A 202 is kept: the row has the promised payload, and the delivery waits on
\* the stream or in the outbox, is settled, or is listed to the operators as
\* dead, discarded or to be replayed.  Two operators may strand a delivery of
\* a workload, as said above.
THEOREM PromiseStays ==
  ASSUME SingleWorker, OneOperator \/ WorkloadDeliveries = {}
  PROVE  Spec => []PromiseKept
<1>1. TypeOK /\ Promising /\ ReplayShown /\ InFlightHasEntry => PromiseKept
  <2> SUFFICES ASSUME TypeOK, Promising, ReplayShown, InFlightHasEntry, NEW p \in promised
               PROVE  LET d == p[1] IN
                      /\ payload[d] = p[2]
                      /\ \/ \E e \in Live(redis) : redis.stream[e] = d
                         \/ \E row \in outbox : row[1] = d
                         \/ status[d] \in {"succeeded", "reconciling", "dead-lettered", "discarded"}
                         \/ status[d] = "replay_pending" /\ dlq[d] = "replay_pending"
    BY DEF PromiseKept
  <2>1. PICK d \in Deliveries : d = p[1]
    BY DEF TypeOK, RestTyped
  <2>2. status[d] \in Status \ {"none"} /\ payload[d] = p[2]
    BY <2>1 DEF TypeOK, RowsTyped, Promising
  <2>3. CASE status[d] = "pending_enqueue"
    <3>1. <<d, 0>> \in outbox
      BY <2>1, <2>3 DEF Promising
    <3> QED BY <2>1, <2>2, <3>1
  <2>4. CASE status[d] \in {"accepted", "processing", "retrying"}
    BY <2>1, <2>2, <2>4 DEF InFlightHasEntry
  <2>5. CASE status[d] = "replay_pending"
    BY <2>1, <2>2, <2>5 DEF ReplayShown
  <2> QED BY <2>1, <2>2, <2>3, <2>4, <2>5 DEF Status
<1>2. Init => ReplayShown
  BY DEF Init, ReplayShown
<1>3. TypeOK /\ ReplayShown /\ [Next]_vars => ReplayShown'
  BY ReplayShownKept
<1> QED BY <1>1, <1>2, <1>3, PromisingAlways, InFlightKept, PTL DEF Spec
==============================================================================
