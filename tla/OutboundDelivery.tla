--------------------------- MODULE OutboundDelivery ---------------------------
(***************************************************************************)
(* The outbound gateway: a workload's request is stored in SQLite, put on  *)
(* a Redis stream, and sent to Telegram by a worker that retries, parks    *)
(* uncertain results for reconciliation and dead-letters the rest; an      *)
(* operator replays or discards what was dead-lettered.                    *)
(*                                                                         *)
(* SQLite transactions and Redis scripts are atomic; between two of them   *)
(* any other actor may run, and any actor may stop (an error, a cancelled  *)
(* request, a crash).  A delivery stands for one idempotency key: its id   *)
(* is created with the row and the row is unique per key.                  *)
(***************************************************************************)
EXTENDS RedisStream, FiniteSets

CONSTANTS
  WorkloadDeliveries,  \* deliveries requested over the route API
  ServiceDeliveries,   \* deliveries fanned out from a service notification
  Payloads,            \* what a request may carry
  Workers,             \* outbound services, one consumer each (main starts one)
  Producers,           \* concurrent request handlers
  Operators,           \* concurrent DLQ handlers
  BatchSize,           \* OutboundConfig.BatchSize
  MaxAttempts,         \* OutboundConfig.MaxAttempts
  MaxReplays,          \* bound: operator replays of one delivery
  MaxFaults            \* bound: store errors, Redis errors and crashes of workers

Deliveries == WorkloadDeliveries \cup ServiceDeliveries

NoPayload == "no_payload"
NoDelivery == "no_delivery"

ASSUME ConstantsAssumption ==
  /\ WorkloadDeliveries \cap ServiceDeliveries = {}
  /\ BatchSize \in Nat \ {0}
  /\ MaxAttempts \in Nat \ {0}
  /\ MaxReplays \in Nat
  /\ MaxFaults \in Nat
  /\ NoPayload \notin Payloads
  /\ NoDelivery \notin Deliveries

VARIABLES
  status, payload, attempts,   \* gateway_deliveries
  waiting,                     \* next_attempt_at is in the future
  dlq, replays,                \* gateway_dlq: state and replay_count
  outbox,                      \* gateway_service_outbox: <<delivery, generation>>
  redis,                       \* the outbound stream
  targetUsable,                \* the target resolves, enabled, same bot
  gated,                       \* the bot's blocked_until is in the future
  pc, batch, entry, attempt,   \* per worker
  request,                     \* per producer: [pc, d]
  action,                      \* per operator: [pc, d, gen]
  enqueuer,                    \* runServiceEnqueues: [pc, d, gen]
  faults,
  sent,                        \* history: times Telegram took the message
  promised                     \* history: <<delivery, payload>> answered 202

rowVars     == <<status, payload, attempts, waiting>>
dlqVars     == <<dlq, replays, outbox>>
envVars     == <<targetUsable, gated>>
workerVars  == <<pc, batch, entry, attempt>>
clientVars  == <<request, action, enqueuer>>
historyVars == <<sent, promised>>
vars == <<rowVars, dlqVars, redis, envVars, workerVars, clientVars, faults,
          historyVars>>

------------------------------------------------------------------------------
(* Types *)

Status == {"none", "pending_enqueue", "accepted", "processing", "retrying",
           "succeeded", "reconciling", "dead-lettered", "replay_pending",
           "discarded"}

DLQState == {"none", "active", "replay_pending", "replayed", "discarded"}

WorkerPC == {"idle", "resolve", "begin", "send", "setgate", "retry",
             "succeed", "reconcile", "deadletter", "ack", "move"}

Job(p, d, gen) == [pc |-> p, d |-> d, gen |-> gen]
Idle == Job("idle", NoDelivery, 0)
Jobs(PCs) == {Idle} \cup [pc : PCs, d : Deliveries, gen : Nat]

RowsTyped ==
  /\ status \in [Deliveries -> Status]
  /\ payload \in [Deliveries -> Payloads \cup {NoPayload}]
  /\ attempts \in [Deliveries -> Nat]
  /\ waiting \in [Deliveries -> BOOLEAN]
  /\ dlq \in [Deliveries -> DLQState]
  /\ replays \in [Deliveries -> Nat]
  /\ outbox \in SUBSET (ServiceDeliveries \X Nat)

WorkersTyped ==
  /\ redis \in Queue(Deliveries)
  /\ pc \in [Workers -> WorkerPC]
  /\ batch \in [Workers -> SUBSET Entries(redis)]
  /\ entry \in [Workers -> Nat]
  /\ \A w \in Workers : pc[w] # "idle" => entry[w] \in Entries(redis)
  /\ attempt \in [Workers -> Nat]

ClientsTyped ==
  /\ request \in [Producers -> Jobs({"append", "mark"})]
  /\ action \in [Operators -> Jobs({"replay", "complete"})]
  /\ enqueuer \in Jobs({"enqueue", "complete"})

RestTyped ==
  /\ targetUsable \in BOOLEAN
  /\ gated \in BOOLEAN
  /\ faults \in 0 .. MaxFaults
  /\ sent \in [Deliveries -> Nat]
  /\ promised \in SUBSET (Deliveries \X (Payloads \cup {NoPayload}))

TypeOK == RowsTyped /\ WorkersTyped /\ ClientsTyped /\ RestTyped

Init ==
  /\ status = [d \in Deliveries |-> "none"]
  /\ payload = [d \in Deliveries |-> NoPayload]
  /\ attempts = [d \in Deliveries |-> 0]
  /\ waiting = [d \in Deliveries |-> FALSE]
  /\ dlq = [d \in Deliveries |-> "none"]
  /\ replays = [d \in Deliveries |-> 0]
  /\ outbox = {}
  /\ redis = EmptyQueue(Deliveries)
  /\ targetUsable = TRUE
  /\ gated = FALSE
  /\ pc = [w \in Workers |-> "idle"]
  /\ batch = [w \in Workers |-> {}]
  /\ entry = [w \in Workers |-> 0]
  /\ attempt = [w \in Workers |-> 0]
  /\ request = [p \in Producers |-> Idle]
  /\ action = [o \in Operators |-> Idle]
  /\ enqueuer = Idle
  /\ faults = 0
  /\ sent = [d \in Deliveries |-> 0]
  /\ promised = {}

------------------------------------------------------------------------------
(* Accepting a request: accept, AcceptServiceNotification *)

\* Mutant: the payload hash of an existing row is not compared.
SubmitOverwrites(p) ==
  /\ request[p] = Idle
  /\ targetUsable
  /\ \E d \in WorkloadDeliveries, body \in Payloads :
       /\ request' = [request EXCEPT ![p] = Job("append", d, 0)]
       /\ payload' = [payload EXCEPT ![d] = body]
       /\ status' = [status EXCEPT ![d] = IF @ = "none" THEN "pending_enqueue" ELSE @]
  /\ UNCHANGED <<attempts, waiting, dlqVars, redis, envVars, workerVars,
                 action, enqueuer, faults, historyVars>>

\* CreateGatewayOutboundDelivery: a new row, or the row the same request made
\* before.  A different payload under the same key is refused (no step).
Submit(p) ==
  /\ request[p] = Idle
  /\ targetUsable
  /\ \E d \in WorkloadDeliveries, body \in Payloads :
       /\ payload[d] \in {NoPayload, body}
       /\ request' = [request EXCEPT ![p] = Job("append", d, 0)]
       /\ payload' = [payload EXCEPT ![d] = body]
       /\ status' = [status EXCEPT ![d] = IF @ = "none" THEN "pending_enqueue" ELSE @]
  /\ UNCHANGED <<attempts, waiting, dlqVars, redis, envVars, workerVars,
                 action, enqueuer, faults, historyVars>>

AppendRequest(p) ==
  /\ request[p].pc = "append"
  /\ redis' = AppendOnce(redis, request[p].d)
  /\ request' = [request EXCEPT ![p] = Job("mark", @.d, 0)]
  /\ UNCHANGED <<rowVars, dlqVars, envVars, workerVars, action, enqueuer,
                 faults, historyVars>>

\* Mutant: the update does not look at the status the row has.
MarkAcceptedAlways(p) ==
  LET d == request[p].d IN
  /\ request[p].pc = "mark"
  /\ status' = [status EXCEPT ![d] = "accepted"]
  /\ promised' = promised \cup {<<d, payload[d]>>}
  /\ request' = [request EXCEPT ![p] = Idle]
  /\ UNCHANGED <<payload, attempts, waiting, dlqVars, redis, envVars,
                 workerVars, action, enqueuer, faults, sent>>

\* MarkGatewayDeliveryAccepted, then the 202 answer.
MarkAccepted(p) ==
  LET d == request[p].d IN
  /\ request[p].pc = "mark"
  /\ status' = [status EXCEPT ![d] = IF @ = "pending_enqueue" THEN "accepted" ELSE @]
  /\ promised' = promised \cup {<<d, payload[d]>>}
  /\ request' = [request EXCEPT ![p] = Idle]
  /\ UNCHANGED <<payload, attempts, waiting, dlqVars, redis, envVars,
                 workerVars, action, enqueuer, faults, sent>>

\* One recipient of AcceptServiceNotification: the row and its outbox row are
\* one commit, and the caller is answered 202 before anything is enqueued.
AcceptService(d) ==
  /\ status[d] = "none"
  /\ \E body \in Payloads :
       /\ payload' = [payload EXCEPT ![d] = body]
       /\ promised' = promised \cup {<<d, body>>}
  /\ status' = [status EXCEPT ![d] = "pending_enqueue"]
  /\ outbox' = outbox \cup {<<d, 0>>}
  /\ UNCHANGED <<attempts, waiting, dlq, replays, redis, envVars, workerVars,
                 clientVars, faults, sent>>

------------------------------------------------------------------------------
(* The service outbox: runServiceEnqueues, CompleteServiceEnqueue *)

\* Mutant: the rows of replays are not looked at.
FetchOutboxFresh ==
  /\ enqueuer = Idle
  /\ \E row \in outbox :
       row[2] = 0 /\ enqueuer' = Job("enqueue", row[1], row[2])
  /\ UNCHANGED <<rowVars, dlqVars, redis, envVars, workerVars, request,
                 action, faults, historyVars>>

\* PendingServiceEnqueues: any row may come first.
FetchOutbox ==
  /\ enqueuer = Idle
  /\ \E row \in outbox :
       enqueuer' = Job("enqueue", row[1], row[2])
  /\ UNCHANGED <<rowVars, dlqVars, redis, envVars, workerVars, request,
                 action, faults, historyVars>>

Enqueue ==
  /\ enqueuer.pc = "enqueue"
  /\ redis' = IF enqueuer.gen = 0
              THEN AppendOnce(redis, enqueuer.d)
              ELSE ReplayFromDLQ(redis, enqueuer.d, enqueuer.gen)
  /\ enqueuer' = Job("complete", enqueuer.d, enqueuer.gen)
  /\ UNCHANGED <<rowVars, dlqVars, envVars, workerVars, request, action,
                 faults, historyVars>>

\* A row replaced by a later generation meanwhile is left for the next round.
CompleteEnqueue ==
  LET d == enqueuer.d
      row == <<d, enqueuer.gen>>
      current == row \in outbox
  IN
  /\ enqueuer.pc = "complete"
  /\ status' = IF current /\ status[d] \in {"pending_enqueue", "replay_pending"}
               THEN [status EXCEPT ![d] = "accepted"] ELSE status
  /\ dlq' = IF /\ current /\ enqueuer.gen > 0
               /\ dlq[d] = "replay_pending" /\ replays[d] = enqueuer.gen
            THEN [dlq EXCEPT ![d] = "replayed"] ELSE dlq
  /\ outbox' = outbox \ {row}
  /\ enqueuer' = Idle
  /\ UNCHANGED <<payload, attempts, waiting, replays, redis, envVars,
                 workerVars, request, action, faults, historyVars>>

------------------------------------------------------------------------------
(* The worker: runOutbound, processOutbound *)

Current(w) == redis.stream[entry[w]]

ReadNew(w) ==
  /\ pc[w] = "idle" /\ batch[w] = {}
  /\ Unread(redis, BatchSize) # {}
  /\ batch' = [batch EXCEPT ![w] = Unread(redis, BatchSize)]
  /\ redis' = ReadGroup(redis, BatchSize)
  /\ UNCHANGED <<rowVars, dlqVars, envVars, pc, entry, attempt, clientVars,
                 faults, historyVars>>

\* Mutant: every claim starts over at the oldest pending entry.
ClaimOldest(w, e) ==
  /\ pc[w] = "idle" /\ batch[w] = {}
  /\ e \in redis.pel /\ \A f \in redis.pel : e <= f
  /\ batch' = [batch EXCEPT ![w] = {e}]
  /\ UNCHANGED <<rowVars, dlqVars, redis, envVars, pc, entry, attempt,
                 clientVars, faults, historyVars>>

\* XAUTOCLAIM: which of the pending entries have been idle for long enough,
\* and where the cursor stands, is left open.
ClaimStale(w, e) ==
  /\ pc[w] = "idle" /\ batch[w] = {}
  /\ e \in redis.pel
  /\ \E more \in SUBSET (redis.pel \ {e}) :
       /\ Cardinality(more) < BatchSize
       /\ batch' = [batch EXCEPT ![w] = more \cup {e}]
  /\ UNCHANGED <<rowVars, dlqVars, redis, envVars, pc, entry, attempt,
                 clientVars, faults, historyVars>>

\* Mutant: a dead-lettered row is acknowledged and not moved.
AfterLoadDropsDead(d) ==
  CASE status[d] = "pending_enqueue" -> "idle"
    [] status[d] \in {"succeeded", "reconciling", "dead-lettered"} -> "ack"
    [] status[d] = "processing" -> "reconcile"
    [] OTHER -> IF waiting[d] THEN "idle" ELSE "resolve"

\* What the loaded row makes of the entry.  "idle" leaves it pending: the
\* request is still being accepted, or the retry is not due.
AfterLoad(d) ==
  CASE status[d] = "pending_enqueue" -> "idle"
    [] status[d] \in {"succeeded", "reconciling"} -> "ack"
    [] status[d] = "dead-lettered" -> "move"
    [] status[d] = "processing" -> "reconcile"
    [] OTHER -> IF waiting[d] THEN "idle" ELSE "resolve"

\* The next entry of the batch, oldest first; GetGatewayDeliveryForWorker.
Load(w) ==
  /\ pc[w] = "idle"
  /\ \E e \in batch[w] :
       /\ \A f \in batch[w] : e <= f
       /\ entry' = [entry EXCEPT ![w] = e]
       /\ batch' = [batch EXCEPT ![w] = @ \ {e}]
       /\ pc' = [pc EXCEPT ![w] = AfterLoad(redis.stream[e])]
  /\ UNCHANGED <<rowVars, dlqVars, redis, envVars, attempt, clientVars,
                 faults, historyVars>>

\* Mutant: the stored deadline of the bot is not looked at.
ResolveUngated(w) ==
  /\ pc[w] = "resolve"
  /\ pc' = [pc EXCEPT ![w] = IF targetUsable THEN "begin" ELSE "deadletter"]
  /\ UNCHANGED <<rowVars, dlqVars, redis, envVars, batch, entry, attempt,
                 clientVars, faults, historyVars>>

\* Resolve the target and read the bot's gate.
Resolve(w) ==
  /\ pc[w] = "resolve"
  /\ pc' = [pc EXCEPT ![w] = IF ~targetUsable THEN "deadletter"
                             ELSE IF gated THEN "retry" ELSE "begin"]
  /\ UNCHANGED <<rowVars, dlqVars, redis, envVars, batch, entry, attempt,
                 clientVars, faults, historyVars>>

\* BeginGatewayDeliveryAttempt.
Begin(w) ==
  LET d == Current(w) IN
  /\ pc[w] = "begin"
  /\ IF status[d] \in {"accepted", "retrying"}
     THEN /\ status' = [status EXCEPT ![d] = "processing"]
          /\ attempts' = [attempts EXCEPT ![d] = @ + 1]
          /\ waiting' = [waiting EXCEPT ![d] = FALSE]
          /\ attempt' = [attempt EXCEPT ![w] = attempts[d] + 1]
          /\ pc' = [pc EXCEPT ![w] = "send"]
     ELSE /\ pc' = [pc EXCEPT ![w] = "idle"]
          /\ UNCHANGED <<status, attempts, waiting, attempt>>
  /\ UNCHANGED <<payload, dlqVars, redis, envVars, batch, entry, clientVars,
                 faults, historyVars>>

\* Mutants: an unknown outcome is taken for a failure, to be retried or buried.
SendAs(w, unknown) ==
  /\ pc[w] = "send"
  /\ \/ /\ pc' = [pc EXCEPT ![w] = "succeed"]
        /\ sent' = [sent EXCEPT ![Current(w)] = @ + 1]
     \/ /\ pc' = [pc EXCEPT ![w] = unknown]
        /\ \E taken \in {0, 1} : sent' = [sent EXCEPT ![Current(w)] = @ + taken]
  /\ UNCHANGED <<rowVars, dlqVars, redis, envVars, batch, entry, attempt,
                 clientVars, faults, promised>>
SendRetriesUnknown(w) == SendAs(w, "retry")
SendBuriesUnknown(w)  == SendAs(w, "deadletter")

\* The call to Telegram: taken; not known (taken or not); refused for good
\* or an unreadable payload; refused for now; rate limited.  Every 5xx answer
\* is refused for now although the request was written: that Telegram, or a
\* proxy before it, has not taken such a message is assumed, as the code does.
Send(w) ==
  LET d == Current(w)
      next == IF attempt[w] < MaxAttempts THEN "retry" ELSE "deadletter"
  IN
  /\ pc[w] = "send"
  /\ \/ /\ pc' = [pc EXCEPT ![w] = "succeed"]
        /\ sent' = [sent EXCEPT ![d] = @ + 1]
     \/ /\ pc' = [pc EXCEPT ![w] = "reconcile"]
        /\ \E taken \in {0, 1} : sent' = [sent EXCEPT ![d] = @ + taken]
     \/ /\ \E p \in {"deadletter", next, "setgate"} : pc' = [pc EXCEPT ![w] = p]
        /\ UNCHANGED sent
  /\ UNCHANGED <<rowVars, dlqVars, redis, envVars, batch, entry, attempt,
                 clientVars, faults, promised>>

\* setBotGate: stored before the delivery is rescheduled or dead-lettered.
SetGate(w) ==
  /\ pc[w] = "setgate"
  /\ gated' = TRUE
  /\ pc' = [pc EXCEPT ![w] = IF attempt[w] < MaxAttempts THEN "retry" ELSE "deadletter"]
  /\ UNCHANGED <<rowVars, dlqVars, redis, targetUsable, batch, entry, attempt,
                 clientVars, faults, historyVars>>

\* Mutant: the entry of a rescheduled delivery is acknowledged.
RetryAcks(w) ==
  LET d == Current(w) IN
  /\ pc[w] = "retry"
  /\ status' = [status EXCEPT ![d] = "retrying"]
  /\ waiting' = [waiting EXCEPT ![d] = TRUE]
  /\ redis' = Acknowledge(redis, entry[w])
  /\ pc' = [pc EXCEPT ![w] = "idle"]
  /\ UNCHANGED <<payload, attempts, dlqVars, envVars, batch, entry, attempt,
                 clientVars, faults, historyVars>>

\* MarkGatewayDeliveryRetrying: whatever the row says by now.
Retry(w) ==
  LET d == Current(w) IN
  /\ pc[w] = "retry"
  /\ status' = [status EXCEPT ![d] = "retrying"]
  /\ waiting' = [waiting EXCEPT ![d] = TRUE]
  /\ pc' = [pc EXCEPT ![w] = "idle"]
  /\ UNCHANGED <<payload, attempts, dlqVars, redis, envVars, batch, entry,
                 attempt, clientVars, faults, historyVars>>

\* CompleteGatewayDeliveryAttempt and MarkGatewayDeliverySucceeded.
Succeed(w) ==
  LET d == Current(w) IN
  /\ pc[w] = "succeed"
  /\ status' = [status EXCEPT ![d] = "succeeded"]
  /\ waiting' = [waiting EXCEPT ![d] = FALSE]
  /\ pc' = [pc EXCEPT ![w] = "ack"]
  /\ UNCHANGED <<payload, attempts, dlqVars, redis, envVars, batch, entry,
                 attempt, clientVars, faults, historyVars>>

\* MarkGatewayDeliveryReconciling.
Reconcile(w) ==
  LET d == Current(w) IN
  /\ pc[w] = "reconcile"
  /\ status' = [status EXCEPT ![d] = "reconciling"]
  /\ waiting' = [waiting EXCEPT ![d] = FALSE]
  /\ pc' = [pc EXCEPT ![w] = "ack"]
  /\ UNCHANGED <<payload, attempts, dlqVars, redis, envVars, batch, entry,
                 attempt, clientVars, faults, historyVars>>

\* Mutant: the delivery row without the DLQ row.
DeadLetterNoRow(w) ==
  LET d == Current(w) IN
  /\ pc[w] = "deadletter"
  /\ status' = [status EXCEPT ![d] = "dead-lettered"]
  /\ waiting' = [waiting EXCEPT ![d] = FALSE]
  /\ pc' = [pc EXCEPT ![w] = "move"]
  /\ UNCHANGED <<payload, attempts, dlqVars, redis, envVars, batch, entry,
                 attempt, clientVars, faults, historyVars>>

\* deadLetter, MarkGatewayDeliveryDeadLettered: whatever the row says by now.
DeadLetter(w) ==
  LET d == Current(w) IN
  /\ pc[w] = "deadletter"
  /\ status' = [status EXCEPT ![d] = "dead-lettered"]
  /\ waiting' = [waiting EXCEPT ![d] = FALSE]
  /\ dlq' = [dlq EXCEPT ![d] = "active"]
  /\ pc' = [pc EXCEPT ![w] = "move"]
  /\ UNCHANGED <<payload, attempts, replays, outbox, redis, envVars, batch,
                 entry, attempt, clientVars, faults, historyVars>>

Ack(w) ==
  /\ pc[w] = "ack"
  /\ redis' = Acknowledge(redis, entry[w])
  /\ pc' = [pc EXCEPT ![w] = "idle"]
  /\ UNCHANGED <<rowVars, dlqVars, envVars, batch, entry, attempt, clientVars,
                 faults, historyVars>>

Move(w) ==
  /\ pc[w] = "move"
  /\ redis' = MoveToDLQ(redis, entry[w], Current(w))
  /\ pc' = [pc EXCEPT ![w] = "idle"]
  /\ UNCHANGED <<rowVars, dlqVars, envVars, batch, entry, attempt, clientVars,
                 faults, historyVars>>

\* A store or Redis call of processOutbound fails: it returns and the entry
\* stays pending.  A crash loses the rest of the batch as well.
Interrupt(w) ==
  /\ faults < MaxFaults
  /\ faults' = faults + 1
  /\ \/ /\ pc[w] \notin {"idle", "send"}
        /\ UNCHANGED batch
     \/ /\ pc[w] # "idle" \/ batch[w] # {}
        /\ batch' = [batch EXCEPT ![w] = {}]
  /\ pc' = [pc EXCEPT ![w] = "idle"]
  /\ UNCHANGED <<rowVars, dlqVars, redis, envVars, entry, attempt, clientVars,
                 historyVars>>

------------------------------------------------------------------------------
(* Operators: ReplayDLQ and DiscardDLQ *)

\* PrepareGatewayDLQReplay: a new generation, or the one still pending.
PrepareReplayOf(o, d) ==
  \/ /\ dlq[d] = "active"
     /\ replays[d] < MaxReplays
     /\ replays' = [replays EXCEPT ![d] = @ + 1]
     /\ dlq' = [dlq EXCEPT ![d] = "replay_pending"]
     /\ status' = [status EXCEPT ![d] = "replay_pending"]
     /\ waiting' = [waiting EXCEPT ![d] = FALSE]
     /\ outbox' = IF d \in ServiceDeliveries
                  THEN { row \in outbox : row[1] # d } \cup {<<d, replays[d] + 1>>}
                  ELSE outbox
     /\ action' = [action EXCEPT ![o] = Job("replay", d, replays[d] + 1)]
  \/ /\ dlq[d] = "replay_pending"
     /\ action' = [action EXCEPT ![o] = Job("replay", d, replays[d])]
     /\ UNCHANGED <<status, waiting, dlqVars>>

PrepareReplay(o) ==
  /\ action[o] = Idle
  /\ \E d \in Deliveries : PrepareReplayOf(o, d)
  /\ UNCHANGED <<payload, attempts, redis, envVars, workerVars, request,
                 enqueuer, faults, historyVars>>

Replay(o) ==
  /\ action[o].pc = "replay"
  /\ redis' = ReplayFromDLQ(redis, action[o].d, action[o].gen)
  /\ action' = [action EXCEPT ![o] = Job("complete", @.d, @.gen)]
  /\ UNCHANGED <<rowVars, dlqVars, envVars, workerVars, request, enqueuer,
                 faults, historyVars>>

\* CompleteGatewayDLQReplay: it checks the state, not the generation.
CompleteReplay(o) ==
  LET d == action[o].d IN
  /\ action[o].pc = "complete"
  /\ status' = [status EXCEPT ![d] = IF @ = "replay_pending" THEN "accepted" ELSE @]
  /\ dlq' = [dlq EXCEPT ![d] = IF @ = "replay_pending" THEN "replayed" ELSE @]
  /\ action' = [action EXCEPT ![o] = Idle]
  /\ UNCHANGED <<payload, attempts, waiting, replays, outbox, redis, envVars,
                 workerVars, request, enqueuer, faults, historyVars>>

\* DiscardGatewayDLQ.
Discard(d) ==
  /\ dlq[d] = "active"
  /\ dlq' = [dlq EXCEPT ![d] = "discarded"]
  /\ status' = [status EXCEPT ![d] = IF @ = "dead-lettered" THEN "discarded" ELSE @]
  /\ UNCHANGED <<payload, attempts, waiting, replays, outbox, redis, envVars,
                 workerVars, clientVars, faults, historyVars>>

------------------------------------------------------------------------------
(* The surroundings *)

\* A request, a replay or a round of the outbox stops half way: the client
\* went away, Redis or SQLite failed (before or after taking effect), a crash.
Abandon ==
  /\ \/ \E p \in Producers :
          /\ request[p] # Idle
          /\ request' = [request EXCEPT ![p] = Idle]
          /\ UNCHANGED <<action, enqueuer>>
     \/ \E o \in Operators :
          /\ action[o] # Idle
          /\ action' = [action EXCEPT ![o] = Idle]
          /\ UNCHANGED <<request, enqueuer>>
     \/ /\ enqueuer # Idle
        /\ enqueuer' = Idle
        /\ UNCHANGED <<request, action>>
  /\ UNCHANGED <<rowVars, dlqVars, redis, envVars, workerVars, faults,
                 historyVars>>

\* An administrator disables or enables the route, or rotates the bot account
\* to another bot or back.
ChangeTarget ==
  /\ targetUsable' = ~targetUsable
  /\ UNCHANGED <<rowVars, dlqVars, redis, gated, workerVars, clientVars,
                 faults, historyVars>>

\* next_attempt_at passes.
RetryDue(d) ==
  /\ waiting[d]
  /\ waiting' = [waiting EXCEPT ![d] = FALSE]
  /\ UNCHANGED <<status, payload, attempts, dlqVars, redis, envVars,
                 workerVars, clientVars, faults, historyVars>>

\* The bot's blocked_until passes.
GateOpens ==
  /\ gated
  /\ gated' = FALSE
  /\ UNCHANGED <<rowVars, dlqVars, redis, targetUsable, workerVars, clientVars,
                 faults, historyVars>>

------------------------------------------------------------------------------
WorkerStep(w) ==
  \/ Load(w) \/ Resolve(w) \/ Begin(w) \/ Send(w) \/ SetGate(w) \/ Retry(w)
  \/ Succeed(w) \/ Reconcile(w) \/ DeadLetter(w) \/ Ack(w) \/ Move(w)

EnqueuerStep == FetchOutbox \/ Enqueue \/ CompleteEnqueue

Next ==
  \/ \E p \in Producers : Submit(p) \/ AppendRequest(p) \/ MarkAccepted(p)
  \/ \E d \in ServiceDeliveries : AcceptService(d)
  \/ EnqueuerStep
  \/ \E w \in Workers :
       \/ ReadNew(w)
       \/ \E e \in redis.pel : ClaimStale(w, e)
       \/ WorkerStep(w)
       \/ Interrupt(w)
  \/ \E o \in Operators : PrepareReplay(o) \/ Replay(o) \/ CompleteReplay(o)
  \/ \E d \in Deliveries : Discard(d) \/ RetryDue(d)
  \/ GateOpens
  \/ Abandon
  \/ ChangeTarget

Spec == Init /\ [][Next]_vars

------------------------------------------------------------------------------
(* Safety *)

\* One outbound service consumes the stream, as in main.go.
SingleWorker == \A v, w \in Workers : v = w

\* Telegram takes a delivery's message at most once, whatever crashes, lost
\* answers, retries and operator replays happen in between (processOutbound:
\* "never blindly send it again").
AtMostOneDelivery == \A d \in Deliveries : sent[d] <= 1

\* A delivery that is to be sent, or is being sent, still has an entry some
\* worker will get, or an outbox row that makes one: acknowledging, dead-
\* lettering and replaying never strand it.
InFlightHasEntry ==
  \A d \in Deliveries :
    status[d] \in {"accepted", "processing", "retrying"}
      => \/ \E e \in Live(redis) : redis.stream[e] = d
         \/ \E row \in outbox : row[1] = d

\* The two-step dead-lettering completes: a delivery that SQLite calls
\* dead-lettered is in the Redis DLQ or has an entry whose reclaim moves it.
DeadLetterReachesRedis ==
  \A d \in Deliveries :
    status[d] = "dead-lettered"
      => \/ d \in redis.dlqIndex
         \/ \E e \in Live(redis) : redis.stream[e] = d

\* However often requests, outbox rounds and replays are retried, a delivery
\* gets one stream entry, and one more per replay an operator asked for.
OneEntryPerGeneration ==
  \A d \in Deliveries :
    Cardinality({ e \in Entries(redis) : redis.stream[e] = d }) <= 1 + replays[d]

\* The operator's list of active dead letters is exactly the dead-lettered
\* deliveries: no replay or discard button for anything in flight or settled.
DLQMatchesStatus ==
  \A d \in Deliveries : dlq[d] = "active" <=> status[d] = "dead-lettered"

\* A 202 is kept: the delivery carries the payload the caller was answered
\* for, and is never forgotten.  It has an entry some worker will get, or an
\* outbox row that makes one, or it is settled, or it is where an operator
\* finds it: dead-lettered, discarded, or with a replay to be taken up again.
PromiseKept ==
  \A p \in promised :
    LET d == p[1] IN
    /\ payload[d] = p[2]
    /\ \/ \E e \in Live(redis) : redis.stream[e] = d
       \/ \E row \in outbox : row[1] = d
       \/ status[d] \in {"succeeded", "reconciling", "dead-lettered", "discarded"}
       \/ status[d] = "replay_pending" /\ dlq[d] = "replay_pending"

\* A confirmed or an uncertain send is final for the worker: nothing automatic
\* and no operator puts the delivery back on its way.  ImplementsLifecycle says so too.
SettledIsFinal ==
  [][\A d \in Deliveries :
       status[d] \in {"succeeded", "reconciling"} => status'[d] = status[d]]_vars

\* A 429 holds every delivery of the bot, whoever got it: no attempt begins
\* before the stored deadline.
RateLimitHolds ==
  [][\A w \in Workers : pc[w] = "begin" /\ pc'[w] = "send" => ~gated]_vars

\* A discarded dead letter "cannot be replayed later" (gateway_discard_confirm).
DiscardIsFinal ==
  [][\A d \in Deliveries : dlq[d] = "discarded" => dlq'[d] = "discarded"]_vars

------------------------------------------------------------------------------
(* Why it is safe: what one worker knows about the delivery it holds *)

Settled == {"succeeded", "reconciling"}

WorkerKnows(w) ==
  LET d == Current(w) IN
  /\ pc[w] \in {"resolve", "begin"}
       => status[d] \notin Settled \cup {"processing", "dead-lettered"}
  /\ pc[w] = "begin" => ~gated
  /\ pc[w] \in {"send", "setgate"} => status[d] = "processing" /\ sent[d] = 0
  /\ pc[w] \in {"retry", "deadletter"}
       => status[d] \notin Settled \cup {"dead-lettered"} /\ sent[d] = 0
  /\ pc[w] = "succeed" => status[d] = "processing" /\ sent[d] = 1
  /\ pc[w] = "reconcile" => status[d] = "processing"

\* Whoever holds a delivery holds one that was stored.
Stored ==
  /\ \A e \in Entries(redis) : status[redis.stream[e]] # "none"
  /\ \A p \in Producers : request[p] # Idle => status[request[p].d] # "none"
  /\ \A o \in Operators : action[o] # Idle => status[action[o].d] # "none"
  /\ enqueuer # Idle => status[enqueuer.d] # "none"
  /\ \A row \in outbox : status[row[1]] # "none"
  /\ \A d \in Deliveries : dlq[d] # "none" => status[d] # "none"

\* A message that may have reached the chat belongs to a delivery that is
\* being dispatched or is settled.
TakenOnce ==
  \A d \in Deliveries :
    sent[d] \in {0, 1} /\ (sent[d] = 1 => status[d] \in Settled \cup {"processing"})

\* The inductive invariant behind AtMostOneDelivery, SettledIsFinal,
\* RateLimitHolds, DLQMatchesStatus and ImplementsLifecycle, for one worker:
\* every step of the worker is taken in the state it saw when it loaded the
\* row, and whoever else changes rows leaves that state alone.
WorkerView ==
  /\ Stored
  /\ DLQMatchesStatus
  /\ TakenOnce
  /\ \A w \in Workers : WorkerKnows(w)

------------------------------------------------------------------------------
(* Liveness *)

\* Every round of runOutbound reads, then claims, and finishes what it
\* holds; the claim cursor goes round the pending entries, so an entry that
\* stays pending is claimed again and again; the outbox ticker runs, and does
\* not fail at the same step for ever; time passes.  Nothing is assumed of
\* clients, operators and administrators.
Fairness ==
  /\ \A w \in Workers :
       /\ WF_vars(WorkerStep(w))
       /\ SF_vars(ReadNew(w))
       /\ \A e \in 1 .. Cardinality(Deliveries) * (1 + MaxReplays) :
            SF_vars(ClaimStale(w, e))
  /\ WF_vars(FetchOutbox) /\ SF_vars(Enqueue) /\ SF_vars(CompleteEnqueue)
  /\ \A d \in Deliveries : WF_vars(RetryDue(d))
  /\ WF_vars(GateOpens)

FairSpec == Spec /\ Fairness

\* What was accepted is eventually sent, parked for reconciliation, or dead-
\* lettered, with no further request by the workload.
AcceptedSettles ==
  \A d \in Deliveries :
    status[d] = "accepted"
      ~> status[d] \in {"succeeded", "reconciling", "dead-lettered", "discarded"}

\* A service delivery leaves the outbox, and a replay asked for leaves
\* replay_pending, even when the handler that should enqueue it stops.
OutboxDrains ==
  \A d \in ServiceDeliveries :
    status[d] \in {"pending_enqueue", "replay_pending"}
      ~> status[d] \notin {"pending_enqueue", "replay_pending"}

------------------------------------------------------------------------------
(* Refinement *)

\* What a status means to the users of the gateway.
PhaseOf(s) ==
  CASE s = "none" -> "absent"
    [] s \in {"pending_enqueue", "accepted", "retrying", "replay_pending"} -> "queued"
    [] s = "processing" -> "dispatched"
    [] s = "succeeded" -> "delivered"
    [] s = "reconciling" -> "uncertain"
    [] s = "dead-lettered" -> "dead"
    [] s = "discarded" -> "discarded"

Lifecycle == INSTANCE DeliveryLifecycle
  WITH phase <- [d \in Deliveries |-> PhaseOf(status[d])], got <- sent

\* The gateway implements the lifecycle of every delivery.
ImplementsLifecycle == Lifecycle!Spec
==============================================================================
