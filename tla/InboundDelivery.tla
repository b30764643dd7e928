--------------------------- MODULE InboundDelivery ---------------------------
(***************************************************************************)
(* The inbound gateway: an update from Telegram is stored in SQLite with   *)
(* the route it resolves to, put on a Redis stream, and only then may      *)
(* Telegram forget it; a worker posts it to the route's backend, or hands  *)
(* it to the embedded adapter, retries and dead-letters it.                *)
(*                                                                         *)
(* An update comes from the poll loop (getUpdates with an offset) or from  *)
(* a webhook.  The row of a delivery is named by the update that created   *)
(* it; another update of the same callback query finds that row.           *)
(***************************************************************************)
EXTENDS RedisStream, FiniteSets

CONSTANTS
  NumUpdates,      \* Telegram has the updates 1 .. NumUpdates for the bot
  CallbackOf,      \* the callback query of each update, or NoCallback
  Routes,          \* what the chat of an update may resolve to
  Pollers,         \* poll loops of the bot: one, or none in webhook mode
  Hooks,           \* concurrent webhook requests
  Operators,       \* concurrent DLQ handlers
  AdapterOptional, \* a process may be started without the adapter's configuration
  BatchSize,       \* InboundConfig.BatchSize
  MaxAttempts,     \* InboundConfig.MaxAttempts
  MaxReplays,      \* bound: operator replays of one delivery
  MaxFaults        \* bound: failed calls and crashes, forwarding included

Updates == 1 .. NumUpdates
NoCallback == "no_callback"
Ingesters == Pollers \cup Hooks

ASSUME ConstantsAssumption ==
  /\ NumUpdates \in Nat
  /\ DOMAIN CallbackOf = Updates
  /\ Routes \subseteq {"unknown", "disabled", "backend", "adapter"}
  /\ Pollers \cap Hooks = {}
  /\ AdapterOptional \in BOOLEAN
  /\ BatchSize \in Nat \ {0}
  /\ MaxAttempts \in Nat \ {0}
  /\ MaxReplays \in Nat
  /\ MaxFaults \in Nat

VARIABLES
  status, target, attempts,  \* gateway_inbound_deliveries; the pinned route
  waiting,                   \* next_attempt_at is in the future
  streamed,                  \* stream_id is set
  dlq, replays,              \* gateway_inbound_dlq: state and replay_count
  redis,                     \* the inbound stream
  offset,                    \* bots.offset_id
  acknowledged,              \* updates Telegram will not send again
  ingest,                    \* per ingester: [pc, u, last, row]
  pc, batch, entry,          \* the worker
  executed,                  \* adapter execution: how far, and its outcome
  action,                    \* per operator: [pc, d, gen]
  faults

rowVars    == <<status, target, attempts, waiting, streamed>>
dlqVars    == <<dlq, replays>>
ingestVars == <<offset, acknowledged, ingest>>
workerVars == <<pc, batch, entry, executed>>
vars == <<rowVars, dlqVars, redis, ingestVars, workerVars, action, faults>>

------------------------------------------------------------------------------
(* Types *)

Rejected == {"REJECTED_UNKNOWN_ROUTE", "REJECTED_ROUTE_DISABLED"}

Status == {"none", "PENDING", "RETRYING", "SUCCEEDED", "DLQ", "REPLAY_PENDING",
           "DISCARDED"} \cup Rejected

DLQState == {"none", "active", "replay_pending", "replayed", "discarded"}

IngestPC == {"prepare", "append", "record", "confirm"}
NotIngesting == [pc |-> "idle", u |-> 0, last |-> 0, row |-> 0]

Job(p, d, gen) == [pc |-> p, d |-> d, gen |-> gen]
Idle == Job("idle", 0, 0)

TypeOK ==
  /\ status \in [Updates -> Status]
  /\ target \in [Updates -> Routes \cup {"none"}]
  /\ attempts \in [Updates -> Nat]
  /\ waiting \in [Updates -> BOOLEAN]
  /\ streamed \in [Updates -> BOOLEAN]
  /\ dlq \in [Updates -> DLQState]
  /\ replays \in [Updates -> Nat]
  /\ redis \in Queue(Updates)
  /\ offset \in 1 .. NumUpdates + 1
  /\ acknowledged \subseteq Updates
  /\ ingest \in [Ingesters -> {NotIngesting} \cup
                   [pc : IngestPC, u : Updates, last : Updates, row : 0 .. NumUpdates]]
  /\ pc \in {"idle", "adapter", "begin", "deliver", "complete", "fail",
             "deadletter", "ack", "move"}
  /\ batch \subseteq Entries(redis)
  /\ pc # "idle" => entry \in Entries(redis)
  /\ executed \in [Updates -> {"running", "done", "failed"}]
  /\ action \in [Operators ->
                   {Idle} \cup [pc : {"replay", "complete"}, d : Updates, gen : Nat]]
  /\ faults \in 0 .. MaxFaults

Init ==
  /\ status = [u \in Updates |-> "none"]
  /\ target = [u \in Updates |-> "none"]
  /\ attempts = [u \in Updates |-> 0]
  /\ waiting = [u \in Updates |-> FALSE]
  /\ streamed = [u \in Updates |-> FALSE]
  /\ dlq = [u \in Updates |-> "none"]
  /\ replays = [u \in Updates |-> 0]
  /\ redis = EmptyQueue(Updates)
  /\ offset = 1
  /\ acknowledged = {}
  /\ ingest = [a \in Ingesters |-> NotIngesting]
  /\ pc = "idle" /\ batch = {} /\ entry = 0
  /\ executed = [u \in Updates |-> "running"]
  /\ action = [o \in Operators |-> Idle]
  /\ faults = 0

------------------------------------------------------------------------------
(* Taking updates: pollLoop, WebhookHandler, ProcessUpdate, IngestUpdate *)

\* Mutant: the callback query is not looked at.
RowsOfUpdate(u) == { v \in Updates : v = u /\ status[v] # "none" }

\* The row an update resolves to: its own, or that of its callback query.
Rows(u) ==
  { v \in Updates :
      /\ status[v] # "none"
      /\ v = u \/ (CallbackOf[u] # NoCallback /\ CallbackOf[v] = CallbackOf[u]) }

Ingesting(p, u, last, row) == [pc |-> p, u |-> u, last |-> last, row |-> row]

\* getUpdates(offset): Telegram forgets what is below the offset and answers
\* with what it has from there on, in order.
Fetch(p) ==
  /\ ingest[p] = NotIngesting
  /\ acknowledged' = acknowledged \cup { u \in Updates : u < offset }
  /\ \/ /\ acknowledged' # acknowledged
        /\ UNCHANGED ingest
     \/ \E last \in offset .. NumUpdates :
          ingest' = [ingest EXCEPT ![p] = Ingesting("prepare", offset, last, 0)]
  /\ UNCHANGED <<rowVars, dlqVars, redis, offset, workerVars, action, faults>>

\* A webhook request; Telegram repeats what was not answered with 200.
Receive(h) ==
  /\ ingest[h] = NotIngesting
  /\ \E u \in Updates \ acknowledged :
       ingest' = [ingest EXCEPT ![h] = Ingesting("prepare", u, u, 0)]
  /\ UNCHANGED <<rowVars, dlqVars, redis, offset, acknowledged, workerVars,
                 action, faults>>

StatusFor(route) ==
  CASE route = "unknown" -> "REJECTED_UNKNOWN_ROUTE"
    [] route = "disabled" -> "REJECTED_ROUTE_DISABLED"
    [] OTHER -> "PENDING"

\* What PrepareInboundDelivery returned needs no entry any more, or has one.
NeedsEntry(v) ==
  status'[v] \notin Rejected \cup {"SUCCEEDED", "DLQ"} /\ ~streamed[v]

\* PrepareInboundDelivery: the row there is, or a new one with its route.
Prepare(a) ==
  LET u == ingest[a].u IN
  /\ ingest[a].pc = "prepare"
  /\ \/ /\ Rows(u) = {}
        /\ \E route \in Routes :
             /\ status' = [status EXCEPT ![u] = StatusFor(route)]
             /\ target' = [target EXCEPT ![u] = route]
     \/ /\ Rows(u) # {}
        /\ UNCHANGED <<status, target>>
  /\ LET v == IF Rows(u) = {} THEN u ELSE CHOOSE v \in Rows(u) : TRUE IN
       ingest' = [ingest EXCEPT ![a] =
                    Ingesting(IF NeedsEntry(v) THEN "append" ELSE "confirm",
                              u, @.last, v)]
  /\ UNCHANGED <<attempts, waiting, streamed, dlqVars, redis, offset,
                 acknowledged, workerVars, action, faults>>

AppendUpdate(a) ==
  /\ ingest[a].pc = "append"
  /\ redis' = AppendOnce(redis, ingest[a].row)
  /\ ingest' = [ingest EXCEPT ![a].pc = "record"]
  /\ UNCHANGED <<rowVars, dlqVars, offset, acknowledged, workerVars, action, faults>>

\* SetInboundStreamID.
Record(a) ==
  /\ ingest[a].pc = "record"
  /\ streamed' = [streamed EXCEPT ![ingest[a].row] = TRUE]
  /\ ingest' = [ingest EXCEPT ![a].pc = "confirm"]
  /\ UNCHANGED <<status, target, attempts, waiting, dlqVars, redis, offset,
                 acknowledged, workerVars, action, faults>>

\* Mutant: the offset is that of the update, not of the next one.
ConfirmSame(a) ==
  LET u == ingest[a].u
      last == ingest[a].last
  IN
  /\ ingest[a].pc = "confirm"
  /\ offset' = u
  /\ acknowledged' = IF a \in Hooks THEN acknowledged \cup {u} ELSE acknowledged
  /\ ingest' = [ingest EXCEPT ![a] = IF u < last THEN Ingesting("prepare", u + 1, last, 0)
                                     ELSE NotIngesting]
  /\ UNCHANGED <<rowVars, dlqVars, redis, workerVars, action, faults>>

\* The rest of ProcessUpdate went well: the offset passes the update, unless
\* its write fails, which nobody looks at.  A webhook is answered; the poll
\* loop goes on to the next of its batch.
Confirm(a) ==
  LET u == ingest[a].u
      last == ingest[a].last
  IN
  /\ ingest[a].pc = "confirm"
  /\ \/ offset' = u + 1 /\ UNCHANGED faults
     \/ /\ faults < MaxFaults
        /\ faults' = faults + 1
        /\ UNCHANGED offset
  /\ acknowledged' = IF a \in Hooks THEN acknowledged \cup {u} ELSE acknowledged
  /\ ingest' = [ingest EXCEPT ![a] = IF u < last THEN Ingesting("prepare", u + 1, last, 0)
                                     ELSE NotIngesting]
  /\ UNCHANGED <<rowVars, dlqVars, redis, workerVars, action>>

\* Mutant: the poll loop goes on with its batch after an update that failed.
FailAndGoOn(a) ==
  /\ ingest[a] # NotIngesting
  /\ faults < MaxFaults
  /\ faults' = faults + 1
  /\ acknowledged' = IF a \in Hooks THEN acknowledged \cup {ingest[a].u} ELSE acknowledged
  /\ ingest' = [ingest EXCEPT ![a] = IF @.u < @.last
                                     THEN Ingesting("prepare", @.u + 1, @.last, 0)
                                     ELSE NotIngesting]
  /\ UNCHANGED <<rowVars, dlqVars, redis, offset, workerVars, action>>

\* ProcessUpdate returns false: reading the configuration, storing the update
\* or forwarding it failed.  The poll loop leaves the batch; WebhookHandler
\* answers 200 all the same.
Fail(a) ==
  /\ ingest[a] # NotIngesting
  /\ faults < MaxFaults
  /\ faults' = faults + 1
  /\ acknowledged' = IF a \in Hooks THEN acknowledged \cup {ingest[a].u} ELSE acknowledged
  /\ ingest' = [ingest EXCEPT ![a] = NotIngesting]
  /\ UNCHANGED <<rowVars, dlqVars, redis, offset, workerVars, action>>

\* The process stops, or the bot is restarted.
StopIngest(a) ==
  /\ ingest[a] # NotIngesting
  /\ faults < MaxFaults
  /\ faults' = faults + 1
  /\ ingest' = [ingest EXCEPT ![a] = NotIngesting]
  /\ UNCHANGED <<rowVars, dlqVars, redis, offset, acknowledged, workerVars, action>>

------------------------------------------------------------------------------
(* The worker: Run, process, processAdapter *)

Current == redis.stream[entry]

ReadNew ==
  /\ pc = "idle" /\ batch = {}
  /\ Unread(redis, BatchSize) # {}
  /\ batch' = Unread(redis, BatchSize)
  /\ redis' = ReadGroup(redis, BatchSize)
  /\ UNCHANGED <<rowVars, dlqVars, ingestVars, pc, entry, executed, action, faults>>

\* XAUTOCLAIM from 0-0: the oldest of the entries that are idle for long
\* enough, whichever these are.
ClaimStale(claimed) ==
  /\ pc = "idle" /\ batch = {}
  /\ claimed # {} /\ Cardinality(claimed) <= BatchSize
  /\ batch' = claimed
  /\ UNCHANGED <<rowVars, dlqVars, redis, ingestVars, pc, entry, executed,
                 action, faults>>

\* Mutant: the entry of a dead delivery is acknowledged, not moved.
AfterLoadAcksDead(v) ==
  CASE status[v] \in Rejected \cup {"SUCCEEDED", "DLQ"} -> "ack"
    [] OTHER -> IF waiting[v] THEN "idle"
                ELSE IF target[v] = "adapter" THEN "adapter" ELSE "begin"

\* What the loaded row makes of the entry; "idle" leaves it pending.
AfterLoad(v) ==
  CASE status[v] = "DLQ" -> "move"
    [] status[v] \in Rejected \cup {"SUCCEEDED"} -> "ack"
    [] OTHER -> IF waiting[v] THEN "idle"
                ELSE IF target[v] = "adapter" THEN "adapter" ELSE "begin"

\* The next entry of the batch, oldest first.
Load ==
  /\ pc = "idle"
  /\ \E e \in batch :
       /\ \A f \in batch : e <= f
       /\ entry' = e
       /\ batch' = batch \ {e}
       /\ pc' = AfterLoad(redis.stream[e])
  /\ UNCHANGED <<rowVars, dlqVars, redis, ingestVars, executed, action, faults>>

\* Adapter.Process: the execution is still running, or has an outcome, which
\* is stored with it and is the same ever after.
RunAdapter ==
  /\ pc = "adapter"
  /\ \E outcome \in {"running", "done", "failed"} :
       /\ executed[Current] \in {"running", outcome}
       /\ executed' = [executed EXCEPT ![Current] = outcome]
       /\ pc' = IF outcome = "running" THEN "idle" ELSE "begin"
  /\ UNCHANGED <<rowVars, dlqVars, redis, ingestVars, batch, entry, action, faults>>

\* BeginInboundAttempt: whatever the row says by now.  A process without the
\* adapter does not ask it, and the attempt fails (adapter_not_configured).
Begin ==
  /\ pc = "begin" \/ (AdapterOptional /\ pc = "adapter")
  /\ status' = [status EXCEPT ![Current] = "PENDING"]
  /\ attempts' = [attempts EXCEPT ![Current] = @ + 1]
  /\ pc' = IF target[Current] # "adapter" THEN "deliver"
           ELSE IF pc = "begin" /\ executed[Current] = "done" THEN "complete" ELSE "fail"
  /\ UNCHANGED <<target, waiting, streamed, dlqVars, redis, ingestVars, batch,
                 entry, executed, action, faults>>

\* The POST to the backend: a 2xx answer, or anything else.
Deliver ==
  /\ pc = "deliver"
  /\ pc' \in {"complete", "fail"}
  /\ UNCHANGED <<rowVars, dlqVars, redis, ingestVars, batch, entry, executed,
                 action, faults>>

\* CompleteInboundAttempt.
Complete ==
  /\ pc = "complete"
  /\ status' = [status EXCEPT ![Current] = "SUCCEEDED"]
  /\ waiting' = [waiting EXCEPT ![Current] = FALSE]
  /\ pc' = "ack"
  /\ UNCHANGED <<target, attempts, streamed, dlqVars, redis, ingestVars, batch,
                 entry, executed, action, faults>>

\* Mutant: a backend has one attempt less.
FailAttemptEarly ==
  LET backend == target[Current] # "adapter" IN
  /\ pc = "fail"
  /\ status' = [status EXCEPT ![Current] = "RETRYING"]
  /\ waiting' = [waiting EXCEPT ![Current] = backend]
  /\ pc' = IF backend /\ attempts[Current] + 1 < MaxAttempts THEN "idle" ELSE "deadletter"
  /\ UNCHANGED <<target, attempts, streamed, dlqVars, redis, ingestVars, batch,
                 entry, executed, action, faults>>

\* FailInboundAttempt; a failed execution is not tried again.
FailAttempt ==
  LET backend == target[Current] # "adapter" IN
  /\ pc = "fail"
  /\ status' = [status EXCEPT ![Current] = "RETRYING"]
  /\ waiting' = [waiting EXCEPT ![Current] = backend]
  /\ pc' = IF backend /\ attempts[Current] < MaxAttempts THEN "idle" ELSE "deadletter"
  /\ UNCHANGED <<target, attempts, streamed, dlqVars, redis, ingestVars, batch,
                 entry, executed, action, faults>>

\* MarkInboundDLQ.
DeadLetter ==
  /\ pc = "deadletter"
  /\ status' = [status EXCEPT ![Current] = "DLQ"]
  /\ waiting' = [waiting EXCEPT ![Current] = FALSE]
  /\ dlq' = [dlq EXCEPT ![Current] = "active"]
  /\ pc' = "move"
  /\ UNCHANGED <<target, attempts, streamed, replays, redis, ingestVars, batch,
                 entry, executed, action, faults>>

Ack ==
  /\ pc = "ack"
  /\ redis' = Acknowledge(redis, entry)
  /\ pc' = "idle"
  /\ UNCHANGED <<rowVars, dlqVars, ingestVars, batch, entry, executed, action, faults>>

Move ==
  /\ pc = "move"
  /\ redis' = MoveToDLQ(redis, entry, Current)
  /\ pc' = "idle"
  /\ UNCHANGED <<rowVars, dlqVars, ingestVars, batch, entry, executed, action, faults>>

\* A call of process fails and the entry stays pending; or Run returns, or the
\* process stops, and the rest of the batch is lost as well.
Interrupt ==
  /\ faults < MaxFaults
  /\ faults' = faults + 1
  /\ \/ pc # "idle" /\ UNCHANGED batch
     \/ (pc # "idle" \/ batch # {}) /\ batch' = {}
  /\ pc' = "idle"
  /\ UNCHANGED <<rowVars, dlqVars, redis, ingestVars, entry, executed, action>>

------------------------------------------------------------------------------
(* Operators: ReplayDLQ and DiscardDLQ, inbound direction *)

\* PrepareGatewayDLQReplay: a new generation, or the one still pending.
PrepareReplay(o) ==
  /\ action[o] = Idle
  /\ \E d \in Updates :
       \/ /\ dlq[d] = "active" /\ replays[d] < MaxReplays
          /\ dlq' = [dlq EXCEPT ![d] = "replay_pending"]
          /\ replays' = [replays EXCEPT ![d] = @ + 1]
          /\ status' = [status EXCEPT ![d] = "REPLAY_PENDING"]
          /\ waiting' = [waiting EXCEPT ![d] = FALSE]
          /\ action' = [action EXCEPT ![o] = Job("replay", d, replays[d] + 1)]
       \/ /\ dlq[d] = "replay_pending"
          /\ action' = [action EXCEPT ![o] = Job("replay", d, replays[d])]
          /\ UNCHANGED <<dlqVars, status, waiting>>
  /\ UNCHANGED <<target, attempts, streamed, redis, ingestVars, workerVars, faults>>

Replay(o) ==
  /\ action[o].pc = "replay"
  /\ redis' = ReplayFromDLQ(redis, action[o].d, action[o].gen)
  /\ action' = [action EXCEPT ![o].pc = "complete"]
  /\ UNCHANGED <<rowVars, dlqVars, ingestVars, workerVars, faults>>

\* CompleteGatewayDLQReplay.
CompleteReplay(o) ==
  LET d == action[o].d IN
  /\ action[o].pc = "complete"
  /\ status' = [status EXCEPT ![d] = IF @ = "REPLAY_PENDING" THEN "PENDING" ELSE @]
  /\ streamed' = [streamed EXCEPT ![d] = @ \/ status[d] = "REPLAY_PENDING"]
  /\ dlq' = [dlq EXCEPT ![d] = IF @ = "replay_pending" THEN "replayed" ELSE @]
  /\ action' = [action EXCEPT ![o] = Idle]
  /\ UNCHANGED <<target, attempts, waiting, replays, redis, ingestVars,
                 workerVars, faults>>

\* The handler stops half way.
AbandonReplay(o) ==
  /\ action[o] # Idle
  /\ action' = [action EXCEPT ![o] = Idle]
  /\ UNCHANGED <<rowVars, dlqVars, redis, ingestVars, workerVars, faults>>

\* DiscardGatewayDLQ.
Discard(d) ==
  /\ dlq[d] = "active"
  /\ dlq' = [dlq EXCEPT ![d] = "discarded"]
  /\ status' = [status EXCEPT ![d] = IF @ = "DLQ" THEN "DISCARDED" ELSE @]
  /\ UNCHANGED <<target, attempts, waiting, streamed, replays, redis,
                 ingestVars, workerVars, action, faults>>

\* next_attempt_at passes.
RetryDue(d) ==
  /\ waiting[d]
  /\ waiting' = [waiting EXCEPT ![d] = FALSE]
  /\ UNCHANGED <<status, target, attempts, streamed, dlqVars, redis,
                 ingestVars, workerVars, action, faults>>

------------------------------------------------------------------------------
IngestStep(a) == Prepare(a) \/ AppendUpdate(a) \/ Record(a) \/ Confirm(a)

WorkerStep ==
  \/ Load \/ RunAdapter \/ Begin \/ Deliver \/ Complete \/ FailAttempt
  \/ DeadLetter \/ Ack \/ Move

Next ==
  \/ \E p \in Pollers : Fetch(p)
  \/ \E h \in Hooks : Receive(h)
  \/ \E a \in Ingesters : IngestStep(a) \/ Fail(a) \/ StopIngest(a)
  \/ ReadNew
  \/ \E claimed \in SUBSET redis.pel : ClaimStale(claimed)
  \/ WorkerStep
  \/ Interrupt
  \/ \E o \in Operators :
       PrepareReplay(o) \/ Replay(o) \/ CompleteReplay(o) \/ AbandonReplay(o)
  \/ \E d \in Updates : Discard(d) \/ RetryDue(d)

Spec == Init /\ [][Next]_vars

------------------------------------------------------------------------------
(* Safety *)

Final == Rejected \cup {"SUCCEEDED", "DLQ", "REPLAY_PENDING", "DISCARDED"}

\* Telegram may forget an update only when the gateway will deal with it: it is
\* stored, and rejected, settled or on the stream ("A nil error authorizes the
\* polling owner to advance Telegram's offset").
AcknowledgedIsKept ==
  \A u \in acknowledged :
    \E v \in Rows(u) :
      \/ status[v] \in Final
      \/ \E e \in Live(redis) : redis.stream[e] = v

\* A callback query is delivered as one update, whichever update brought it, and
\* whatever is polled, ingested, replayed or retried again, a delivery gets one
\* entry, and one more per replay an operator asked for.
IngestedOnce ==
  /\ \A u, v \in Updates :
       /\ status[u] # "none" /\ status[v] # "none"
       /\ CallbackOf[u] # NoCallback /\ CallbackOf[u] = CallbackOf[v]
       => u = v
  /\ \A d \in Updates :
       Cardinality({ e \in Entries(redis) : redis.stream[e] = d }) <= 1 + replays[d]

\* The operator's list of active dead letters is exactly the dead deliveries, and
\* each of them is in the Redis DLQ, or has an entry whose reclaim moves it.
DeadLettersAgree ==
  \A d \in Updates :
    /\ dlq[d] = "active" <=> status[d] = "DLQ"
    /\ status[d] = "DLQ"
         => \/ d \in redis.dlqIndex
            \/ \E e \in Live(redis) : redis.stream[e] = d

\* The backend's 2xx settles a delivery for good; ImplementsLifecycle says so too.
SucceededIsFinal ==
  [][\A d \in Updates : status[d] = "SUCCEEDED" => status'[d] = "SUCCEEDED"]_vars

------------------------------------------------------------------------------
(* Refinement *)

PhaseOf == [s \in Status |->
  CASE s = "none" -> "absent"
    [] s \in Rejected -> "rejected"
    [] s \in {"PENDING", "RETRYING", "REPLAY_PENDING"} -> "queued"
    [] s = "SUCCEEDED" -> "delivered"
    [] s = "DLQ" -> "dead"
    [] s = "DISCARDED" -> "discarded"]

Lifecycle == INSTANCE InboundLifecycle
  WITH phase <- [u \in Updates |-> PhaseOf[status[u]]], route <- target, tries <- attempts

\* The gateway implements the lifecycle of every update's delivery: the route is
\* pinned once, a callback query has one delivery, nothing settled is tried again,
\* and nothing dies before its attempts are used up, whatever polls, webhooks,
\* crashes, reclaimed entries and operators do in between.
ImplementsLifecycle == Lifecycle!Spec

------------------------------------------------------------------------------
(* Liveness *)

\* The claim starts at the oldest entry.
ClaimOldest ==
  \E claimed \in SUBSET redis.pel :
    (\E e \in claimed : \A f \in redis.pel : e <= f) /\ ClaimStale(claimed)

\* The poll loop polls and goes through its batch; Run reads, claims and
\* finishes what it holds; an entry that stays pending is idle for long enough
\* in the end, and the claim begins with the oldest; executions end; time
\* passes.  Nothing is assumed of operators.
Fairness ==
  /\ \A p \in Pollers : WF_vars(Fetch(p)) /\ WF_vars(IngestStep(p))
  /\ WF_vars(WorkerStep)
  /\ SF_vars(RunAdapter /\ pc' = "begin")
  /\ SF_vars(ReadNew)
  /\ SF_vars(ClaimOldest)
  /\ \A d \in Updates : WF_vars(RetryDue(d))

FairSpec == Spec /\ Fairness

\* Every update Telegram has is taken in the end, also after failed polls.
UpdatesAreTaken == \A u \in Updates : <>(Rows(u) # {} /\ offset > u)

\* What was taken is delivered or dead-lettered.
TakenSettles ==
  \A d \in Updates :
    status[d] \in {"PENDING", "RETRYING"} ~> status[d] \in Final
==============================================================================
