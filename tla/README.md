# botmux: a TLA+ verification project

botmux is a Telegram bot server written in Go.  It multiplexes bots (polling,
webhooks, long polling for backends), and it runs a *gateway* between business
services and Telegram: services send messages through it, and updates of chats
are handed to services, or to an embedded adapter that turns a chat command
into a Jenkins build.  The gateway keeps its state in SQLite and its queues in
Redis streams, promises its clients not to lose or repeat deliveries, and has
an operator console for dead letters.  That is the core of the program and the
part that is hardest to test, so it is modelled first.

This directory holds TLA+ modules translated from the Go source, TLC
configurations that check them on small instances, theorems with proofs that
TLAPS checks, and `PROJECT.json`, which maps each definition to the source
lines it stands for, lists what each run checks, gives for each property a
mutation of the code that breaks it, and lists the hazards of the code.

To check a module: `tlc -config OutboundWorkload.cfg MCOutboundDelivery.tla`.
To check the proofs: `tlapm OutboundDeliveryTheorems.tla`, and likewise
`RedisStreamTheorems`, `InboundDeliveryTheorems`, `InboundPromiseTheorems`,
`AdapterExecutionTheorems`, `BotRunnersTheorems`, `UpdatePipelineTheorems` and
`ConfigurationTheorems`.

- [1. Inventory](#1-inventory)
- [2. What is hard here](#2-what-is-hard-here)
- [3. The modules](#3-the-modules)
- [4. The runs](#4-the-runs)
- [5. Fairness](#5-fairness)
- [6. The proofs](#6-the-proofs)
- [7. Findings](#7-findings)
- [8. What is not modelled, and limits](#8-what-is-not-modelled-and-limits)
- [9. Plan](#9-plan)


## 1. Inventory

| component | source | state it keeps | operations | here |
|---|---|---|---|---|
| Outbound gateway | `internal/gateway/outbound.go`, `retry.go`, `store/gateway_outbound.go` | `gateway_deliveries` (status, attempts, next attempt), `gateway_dlq`, the bot's `blocked_until` | accept a request, enqueue, worker round (read, claim, process), retry, dead-letter, reconcile | `OutboundDelivery` |
| Redis queues | `internal/gateway/redis_queue.go`, `redis_inbound.go` | one stream and group per direction; hashes delivery → entry, → DLQ entry, → replayed entry | append once, read, claim, acknowledge, move to DLQ, replay from DLQ (Lua scripts) | `RedisStream` |
| Operations | `internal/gateway/ops.go`, `store/gateway_ops.go`, `server/gateway_ops.go` | the two DLQ tables | replay, discard, health, metrics | with the deliveries |
| Service notifications | `store/service_notifications.go`, `service_subscriptions.go`, `service_import.go` | services, subscriptions with a revision, notifications, recipients, `gateway_service_outbox` | subscribe, cancel, import a manifest, publish to all recipients in one transaction; enqueue loop | fan-out in `GatewayConfiguration`, one recipient's delivery in `OutboundDelivery` |
| Inbound gateway | `internal/gateway/inbound.go`, `store/inbound_deliveries.go` | `gateway_inbound_deliveries`, `gateway_inbound_dlq` | ingest, worker round, post to a backend, retry, dead-letter | `InboundDelivery` |
| Embedded adapter | `internal/gateway/adapter*.go`, `store/adapter.go` | `gateway_adapter_executions` (stage, lease, intent), two replies per execution | parse, acknowledge, trigger, reconcile, poll queue and build, report | `AdapterExecution` |
| Telegram client of the gateway | `internal/gateway/telegram.go` | none | send; classify the answer | its classes of outcome, in `Send` |
| Polling owner | `internal/proxy/proxy.go`, handlers in `server/` | runners, managed instances, webhook bots; `bots.offset` | start, stop, restart, poll loop, webhook handler | `BotRunners`; loop body in `UpdatePipeline` and `InboundDelivery` |
| Long-poll queue | `internal/proxy/proxy.go`, `server/server.go` | per bot a bounded queue, the confirmed offset, waiters | enqueue, get, wait, drop | `UpdateQueue`, used by `UpdatePipeline` |
| Routing, reverse routing | `internal/proxy/proxy.go`, `store/store.go`, `internal/llm` | conditional routes, `route_mappings` | answer through a mapping, copy along routes, copy where the model says | `UpdatePipeline` |
| Business routes, bot accounts, destinations | `store/business_routes.go`, `gateway_security.go`, `bot_accounts.go` and their handlers | rows with revisions, `gateway_route_revisions` | create, update with an expected revision, rotate a token, move a destination, set up, delete a bot | `GatewayConfiguration`; the worker sees one flag, `targetUsable` |
| Workload credentials, API | `server/gateway_security.go`, `gateway_outbound.go`, `store/gateway_security.go` | workloads with status, credentials, permissions and a revision | create, disable, rotate, grant, check a request | `GatewayConfiguration`, without the cryptography |
| Bridges | `internal/bridge/` | bridge chats and mappings | in and out, synthetic ids | the way in, in `UpdatePipeline`; its instance, in `BotRunners` |
| Configuration backup | `internal/configbackup/`, `store/config_backup*.go` | receipts of restores | export, validate, restore in a transaction | `ConfigurationBackup` |
| Store | `internal/store/store.go` | bots, chats, messages, users, sessions | CRUD | bots, offsets and mappings with their users; the rest has no interleaving of its own |
| Secrets | `store/secrets.go`, `secret_migration.go` | sealed tokens | seal, open, migrate at start-up | not modelled |
| Web server | `internal/server/`, `internal/auth` | sessions | pages, API proxy, media; bot administration, intercepted webhooks, long polls | the latter three, in `BotRunners` and `UpdatePipeline` |
| Bot | `internal/bot/` | none | chat and message management | not modelled |
| Main | `main.go` | none | wiring, start-up, shutdown order | start and shutdown in `BotRunners`; who runs how many of what |
| LLM, log buffer, version | `internal/llm`, `pkg/logbuf`, `internal/version` | small caches | calls | the model's choice of a route, in `UpdatePipeline` |

How they meet:

- A request handler and the outbound worker share the delivery row and the
  Redis stream, and write them in separate steps: the handler inserts the row,
  appends the entry, marks the row accepted (`accept`, `outbound.go:284`).
- A service notification writes its rows and an outbox row in one transaction;
  a ticker loop moves the outbox to Redis.
- The worker loads the row of an entry, decides, begins an attempt, calls
  Telegram, records the outcome, acknowledges: each is a transaction or a
  command of its own.
- Operators replay and discard dead letters in SQLite first and in Redis
  second, while the worker may still hold the entry.
- The poll loop advances Telegram's offset only past updates whose `IngestUpdate`
  returned; the inbound worker posts to a backend or calls the adapter.
- The adapter answers the chat through the outbound gateway and watches those
  two deliveries.
- `ProcessUpdate` is one function run by poll loops, webhook requests and the
  handlers of bridges at once: it ingests, queues, forwards, answers and routes
  an update, and moves the offset last.  Backends that fetch share the queue
  with it.
- Handlers that change a bot write its row and then tell the polling owner to
  stop and start its loop, in separate steps; the loop reads the row in every
  round.
- Administrators edit accounts, destinations, routes and subscriptions that
  refer to each other; publishing workloads and the restore of a backup read
  and write the same tables.

What makes each component correct, in a sentence: *outbound*: what was
answered 202 is sent, parked or dead-lettered, and no message is sent twice;
*Redis queues*: one entry per delivery and generation, and an entry leaves only
acknowledged; *operations*: the list of dead letters is true and what the
operator asked for stays; *service notifications*: a 202 needs no further
request; *inbound*: Telegram forgets only what is stored and on its way, and
what is taken settles; *adapter*: one build per command, after the
acknowledgment, and a true answer; *polling owner*: one poller per bot, and
none for a disabled bot; *long-poll queue*: a client sees every update it has
not confirmed that the ring still holds; *routing*: a reply comes back to the
message it answers; *routes and revisions*: no lost update, a history without
gaps; *bridges*: ids do not collide; *backup*: all or nothing, and export after
restore is the identity.


## 2. What is hard here

The complete list, with lines and the properties that cover each, is under
`hazards` in `PROJECT.json`.  In short:

- **Two stores, no common transaction.** Every dead-lettering, replay, accept
  and ingest is a SQLite transaction and a Redis script, and a failure or crash
  may fall between them; the next actor meets the half-done state.
- **A send whose outcome is unknown** must not be repeated, although the worker
  is built to retry.
- **A row read before a call and used after it**: the worker decides on what
  it loaded, while operators and handlers change the row.
- **At least once, everywhere**: entries are reclaimed, updates polled again,
  requests repeated, replays pressed twice.
- **Fair use of one worker**: an entry that can never be sent stays pending and
  must not starve the others; a rate limit holds all deliveries of a bot.
- **A lease that runs out under its holder**: two calls of the adapter at once.
- **Restarts with another configuration** in the middle of an execution.
- **A function that many goroutines run**, `ProcessUpdate`, whose last write is
  the acknowledgment: everything before it is repeated when it fails.
- **Look, then wait**: the long poll misses what happens between the two.
- **Stop, wait, start**, by several requests, the shutdown and the loop itself.
- **Validate, then write**: what a handler checked may have changed when its
  transaction begins; revisions catch some of it.
- **One change, many rows**: a rotated token changes accounts, routes, their
  history and what counts as one recipient.


## 3. The modules

| module | models | used by |
|---|---|---|
| `RedisStream` | the stream, the group and the Lua scripts, as functions from a queue to the queue after it | both gateways |
| `OutboundDelivery` | accept, outbox, worker, operators, target, gate | `MCOutboundDelivery`, theorems |
| `DeliveryLifecycle` | the abstract life of one outbound delivery | refined by `OutboundDelivery` |
| `InboundLifecycle` | the abstract life of one inbound delivery | refined by `InboundDelivery` |
| `InboundDelivery` | poll loop, webhook, ingest, worker, backend and adapter seen from outside, operators | `MCInboundDelivery` |
| `BuildRequest` | what the adapter promises about one message: one build, one true verdict | refined by `AdapterExecution` |
| `AdapterExecution` | one execution: lease, stages, replies, Jenkins | `MCAdapterExecution` |
| `UpdateQueue` | the queue of one bot, as operators | `UpdatePipeline` |
| `UpdatePipeline` | `ProcessUpdate` by poll loops and bridges, routing and answering, long polls | `MCUpdatePipeline` |
| `BotRunners` | runners, poll loops, the requests that stop and start them, start-up and shutdown | `MCBotRunners` |
| `GatewayConfiguration` | bots, accounts, destinations, routes, subscriptions, workloads, publishing | `ConfigurationBackup` |
| `ConfigurationBackup` | export, validation and restore, over those edits | `MCConfigurationBackup` |
| `RedisStreamTheorems`, `OutboundDeliveryTheorems`, `InboundDeliveryTheorems`, `InboundPromiseTheorems`, `AdapterExecutionTheorems`, `BotRunnersTheorems`, `UpdatePipelineTheorems`, `ConfigurationTheorems` | proofs | |
| `MC…` | symmetry sets and constant functions for TLC | the runs |

One convention: an operator whose comment starts with "Mutant:" is a plausible
bug in the definition that follows it or that its name starts with; it is not
part of any specification.  `PROJECT.json` says which property it must break.

### RedisStream

A queue is a record: the stream (the delivery id of each entry), how far the
group has read, the pending entries, and the three hashes.  Scripts and
commands are operators.  Redis runs a script atomically, so a state change is
one function application.  The consumer name of a pending entry and idle times
are left out: claiming may take any pending entry, which covers every timing.

### OutboundDelivery

| state | code |
|---|---|
| `status`, `payload`, `attempts`, `waiting` | a row of `gateway_deliveries`; `waiting` is "`next_attempt_at` is in the future" |
| `dlq`, `replays` | a row of `gateway_dlq` |
| `outbox` | `gateway_service_outbox` |
| `redis` | the outbound stream |
| `targetUsable`, `gated` | the route, destination and account resolve; `blocked_until` is in the future |
| `pc`, `batch`, `entry`, `attempt` | the worker: where `processOutbound` is, and its local variables |
| `request`, `action`, `enqueuer` | where each handler, operator call and the outbox loop is |
| `sent`, `promised` | history: what Telegram took; what was answered 202 |

A delivery stands for one idempotency key.  The worker's loop is cut where
another actor can see or change something: `Load` (the row) – `Resolve` (target
and gate) – `Begin` (the transaction that counts the attempt and sets
`processing`) – `Send` (Telegram, all classes of answer) – `SetGate`, `Retry`,
`Succeed`, `Reconcile` or `DeadLetter` – `Ack` or `Move`.  `Interrupt` is an
error or a crash at any of these points; the entry then stays pending.
`Submit`, `AppendRequest` and `MarkAccepted` are the handler, `PrepareReplay`,
`Replay` and `CompleteReplay` the operator, `FetchOutbox`, `Enqueue` and
`CompleteEnqueue` the outbox loop; `Abandon` stops any of them half way, as
often as it likes.

`DeliveryLifecycle` is what clients may rely on: queued, dispatched, and then
delivered, uncertain, dead or queued again; nothing leaves delivered or
uncertain, and a message that the chat got is never queued again.
`ImplementsLifecycle` is that specification under the mapping `PhaseOf`.

### InboundDelivery

| state | code |
|---|---|
| `status`, `target`, `attempts`, `waiting`, `streamed` | a row of `gateway_inbound_deliveries`, with the route pinned when it was stored |
| `dlq`, `replays`, `redis` | as outbound |
| `offset`, `acknowledged` | `bots.offset_id`; what Telegram will not send again |
| `ingest` | where each poll loop or webhook request is in its batch |
| `pc`, `batch`, `entry` | the worker |
| `executed` | what the adapter has come to for a row |

`Fetch` is `getUpdates` with the stored offset, `Receive` a webhook request.
`Prepare`, `AppendUpdate`, `Record`, `Confirm` are `IngestUpdate` and the
advance of the offset after it; `Fail` is any of those calls failing, which
ends a poll batch and which a webhook request ignores.  A row is named by the
update that made it; another update of the same callback query finds that row.
`RunAdapter` stands for a call of the adapter: not done yet, done or failed,
and the same answer at every call once it is done.  `AdapterExecution`'s
`AnswersAreTrue` is what allows that.  With `AdapterOptional` a process may have
been started without the adapter's configuration: it then begins an attempt at
once and fails it (`adapter_not_configured`).

`InboundLifecycle` is what the team behind a backend may rely on: an update is
routed once when it is accepted, a callback query has one delivery, and a
delivery is tried until it is delivered, or until no attempt is left and it is
dead; what is delivered or rejected stays so.  A try counts when it begins, so
it may be lost and there may be more tries than attempts; and a discarded
delivery may be tried again (section 7).  `ImplementsLifecycle` maps a row's
status to its phase (`PhaseOf`), its pinned target to the route, and its
attempts to the tries.

### AdapterExecution

| state | code |
|---|---|
| `exec` | `state_json` and the job fingerprint of the execution row |
| `owner`, `leased` | `lease_owner`, `lease_until` in the future |
| `ack`, `result` | the two outbound deliveries the adapter creates |
| `jenkins`, `onTheWay`, `posts` | what Jenkins did, external |
| `pc`, `local` | each call of `Process` and its copy of the execution |
| `answers` | history: what finished calls told the inbound worker |
| `config`, `changes` | the job the process was started with |

A call claims the lease, takes one step for the stage it finds, and saves if it
still owns the lease (`Save`, the deferred function).  The trigger is saved as
an intent before the POST, so `Trigger` and `Post` are separate.  A stage's
timeout may strike at any look, an uncertain POST is reconciled by looking for
the build, and `ChangeConfig` is a restart with another job.

`BuildRequest` is the same message seen from outside: by the user (the
acknowledgment, what was told), by Jenkins (the build) and by the inbound
worker (the outcome).  It says when each verdict is due.  `INVALID_REQUEST`
needs that nothing was built and excludes that anything will be;
`JENKINS_TRIGGER_FAILED` that what was asked for does not run; the timeouts
that the build was asked for; success and `BUSINESS_FAILED` that it ended so.
Two verdicts say only that nobody knows, and a POST that was under way may
still arrive after them.  A delivery that ends without a verdict (the
acknowledgment never arrived) has no build, then or later.  `KeepsPromise` is
that specification with the fields of the execution row, the two replies and
Jenkins in the place of its variables.  `BUSINESS_FAILED` stands for every code
that a result other than a success carries.

### UpdateQueue and UpdatePipeline

| state | code |
|---|---|
| `config` | managed instances, long polling, backends, conditional routes, the model's choices; picked in `Init`, one of the instance's configurations |
| `inbox`, `lastMsg` | what Telegram holds: updates per bot, message ids per chat |
| `offset` | `bots.offset` |
| `worker` | where each poll loop or bridge handler is in `ProcessUpdate`, with its update |
| `mappings` | `route_mappings` |
| `heap`, `queueOf` | the queues ever made, and `updateQueues`: a request may hold a queue that was dropped |
| `client` | a backend's request: idle, has looked, waits, was woken |
| `sends`, `retried`, `got`, `lost` | history |

Each operation of the queue holds its lock, so it is an operator of
`UpdateQueue` on a record of updates and confirmed offset.  `ProcessUpdate` is
cut at its outside effects: `Dispatch` (queue or backend) –
`ApplyReverseRoutes`, `ApplyRoutes` route by route, `ApplyLLMRoutes`, each
followed by `Save` of the mapping if something was sent – `Confirm` (offset).
`Reject` is an update whose configuration could not be read or whose ingestion
failed.  A long poll is `Ask` (the first look) – `Wait` (registering) – `Wake`
or `TimeOut` (the second look).  `RemoveUpdateQueue` is a webhook set or deleted
with `drop_pending_updates`.  A message of a bridge enters by `HandleIncoming`
under an id above `BridgeBase`, and Telegram refuses what is sent to the chat
the bridge made up.

### BotRunners

| state | code |
|---|---|
| `row`, `hook` | the row of `bots`: there, disabled, modes, token; whether Telegram pushes to a webhook |
| `loop` | per poll loop: where it is, whether its context is cancelled |
| `runner`, `lock` | `runners`, `runnerMu` |
| `managed`, `webhook` | `managedBots`, `webhookBots` |
| `request` | per request the steps it has left, the row it read, the loop it waits for |
| `conflict`, `failed`, `overlap` | history: the newest loop ended with a 409; an instance could not be made; requests overlapped |

A request is a list of steps (`"save"`, `"stop"`, `"prepare"`, ...) that other
requests and the loop may come between; `Begin` gives each handler its list.
`stopBot` and `startBot` are the two sides of one lock: `StopBot` takes it,
unregisters and cancels, `Stopped` or `Started` waits for the loop and gives it
back.  Main's `StopAll` is the same steps by an actor of its own.  `overlap`
says that requests ran at once and that none has since begun alone which makes
the instance and the runner anew (`Renews`); what such requests leave behind
may be wrong until then.

### GatewayConfiguration and ConfigurationBackup

`conf` is a record of the tables; a transaction is one step.  `history` is
`gateway_route_revisions`; `editor` and `publisher` are where each request is,
`notes` the notifications, `unchecked` the routes written after their
destination had moved under the validation.  An administrator's edit is `Open`
(read and validate) and then the transaction of its operation, which refuses
when the revision has changed.  `Synced` is what a changed token does to
accounts and routes, `Migrated` what a moved destination does to its routes.

`ConfigurationBackup` adds `restored`, the receipts, and `Export`, `Valid` and
`Restored` as operators on the tables; `RestoreConfiguration` is the
transaction, on an empty configuration only.


## 4. The runs

| run | instance | shows |
|---|---|---|
| `OutboundWorkload` | 1 workload delivery, 2 handlers, 2 payloads, 2 attempts, 2 replays, 2 faults | sent at most once, dead letters reach Redis, one entry per generation, a 202 is kept (payload, and an entry, an outbox row or an end the operators see), implements the lifecycle, in which settled is final |
| `OutboundService` | 1 service delivery, 2 operators, 2 replays, 2 attempts; operators and the outbox loop stop half way, fair | two operators and the outbox loop race, and the list of dead letters is true and nothing is stranded; the outbox drains, after a replay too |
| `OutboundPair` | a workload delivery that may be abandoned half way, a service delivery, batch of 2, 2 attempts, 1 fault, fair | the gate holds both; the inductive invariant of the proofs; what was accepted settles although the other entry may stay pending for ever |
| `OutboundDiscard` | 1 delivery, 1 fault | **violated**: a discarded dead letter comes back |
| `InboundPolling` | 2 updates, 4 kinds of route, the adapter configured or not, 2 attempts, 2 faults, fair | Telegram forgets only what is kept; every update is taken and settles |
| `InboundReplay` | 2 updates of one callback query, 2 webhook requests at a time, an operator, 2 replays, 2 faults | one row per query and one entry per generation, dead letters agree in both stores, implements the lifecycle, in which 2xx is final |
| `InboundWebhookLoss` | 1 update, 1 fault, webhook | **violated**: an update answered 200 and lost |
| `AdapterOnce` | 2 overlapping calls, 2 jobs, a failure streak of 2, 1 fault, 1 restart with another job, fair | one trigger, after the acknowledgment, with a true and constant answer; late calls undo nothing; keeps the promise of `BuildRequest`; every execution ends |
| `AdapterJobSwitch` | 1 call at a time, 2 restarts, 1 fault, fair | **violated**: the job changed and changed back leaves an execution that never ends |
| `ConfigurationEdits` | 2 administrators, 1 publisher, 2 bots, 3 tokens of 2 Telegram bots, 2 chats, 2 destinations, 1 route, 1 service, 2 backups or none, 4 requests | edits replace what their editor saw, the history explains every route, routes move with their destination, a notification goes to a chat once, a restored backup is exported as it was (400 thousand states) |
| `UpdatePipeline` | 2 bots, a user, a bridge and operators, 3 configurations, a queue of 2, 2 messages and 1 of the bridge, 1 fault, fair | nothing is lost without a named cause, nothing copied twice unless retried, replies return to who they answer, a backend that asks gets its updates (233 thousand states) |
| `RunnerRestarts` | 1 bot, 2 requests at once and the shutdown, 2 requests in all, 1 conflict, 2 tokens, fair | one loop polls, requests that do not overlap leave what the row says, stops take effect (360 thousand states) |

**Bounds.**  Every bound is a constant and counts something the code does not
bound or bounds higher: deliveries, payloads, concurrent handlers, replays,
faults, restarts; `MaxAttempts` and `BatchSize` are parameters of the code.
Rows of different deliveries meet only in the worker, its batch, the bot's gate
and the stream, so one delivery shows the races on a row and two show the
rest (`OutboundPair`, `InboundPolling`).  Two attempts
have a first, a last and a retry between; two replays have a replay of a
replay, where generations matter; one fault is a crash or a failed call at any
point, two have a fault in the recovery from a fault.  Two payloads are what a key reused with another body needs.  A queue of two
overflows with a third update, and a limit of one leaves something to confirm;
two messages are a question and its answer, or two questions that may be mixed
up.  Two requests are one that overtakes another; two loops are the old and
the new one; a third only has to wait until one that has returned is closed.
Two
administrators in four requests can prepare an object, open it twice, and save
it twice.  The proofs of section 6 do not depend on any of these bounds.

A run that also checks liveness cannot use symmetry and is smaller for it.  The
safety properties of `OutboundService` were also checked with two faults and
two attempts (3.1 million states under symmetry), those of `AdapterOnce` with two faults
(645 thousand states under symmetry); both hold.  Two requests of
`RunnerRestarts` leave none to repair, or to leave alone, what two that overlapped
did: `RunnerFollowsRow` was also checked with three, two at once, without
conflicts (3.6 million states), and holds; section 6 proves it for any number.

**Symmetry** is used for handlers, operators and payloads where no liveness
property is checked.  **Deadlock** is checked for the outbound runs; the
other runs say `CHECK_DEADLOCK FALSE`, as there everything may
be settled, or every bound used up, with nothing left to happen (outbound an administrator can always
toggle the target, so the deadlock check says little there; that progress is
made is what the liveness properties are for).

`main.go` starts exactly one outbound worker, so the runs have one, and the
theorems that need it assume `SingleWorker`.  With two, `TypeOK` and
`OneEntryPerGeneration` still hold (proved for any number), but not
`AtMostOneDelivery` and `SettledIsFinal`: nothing in a claim stops two workers
from processing two entries of a delivery.

`InFlightHasEntry` is checked where two operators race and the outbox is there
to help (`OutboundService`); for a workload's delivery with one operator it is
proved (`InFlightKept`), and `PromiseKept` in `OutboundWorkload` says most of it.


## 5. Fairness

*Outbound* (`Fairness`).  `runOutbound` loops for as long as the process lives:
it reads, claims with a cursor that goes round the pending entries, and
processes what it holds before it reads again.  Hence weak fairness of the
worker's steps, strong fairness of reading and of claiming each entry (a claim
is possible only between batches).  The outbox ticker runs four times a second,
which is weak fairness of `FetchOutbox`; a round may fail or stop at either of
its later steps as often as it likes, but not at the same one for ever, which is
strong fairness of `Enqueue` and `CompleteEnqueue`.  `next_attempt_at` and
`blocked_until` pass.  Nothing is assumed of clients,
operators and administrators, so what a client abandons may stay
`pending_enqueue` for ever, and `AcceptedSettles` starts from `accepted`.

*Inbound*.  The poll loop polls and works through its batch; the worker is
restarted a second after it fails (`main.go`), reads, and claims from the
oldest entry; an execution of the adapter ends in the end.  That last
assumption is `ExecutionEnds` of `AdapterExecution`.  A poll loop stops for
good when Telegram answers 409 (another poller); that is outside the
assumption.

*Adapter*.  The inbound worker keeps calling while the entry is pending; a call
that started goes on; leases run out; a stage that is looked at again and again
is at last found answered or timed out (strong fairness of the step that ends
it).  Nothing is assumed of Jenkins or of the delivery of replies.

*Update pipeline*.  Weak fairness only: a poll loop polls and goes on with what
it processes, a bridge handler too; the request of a backend goes on, and its
timer goes off; a backend asks again after an answer.  The last is the
environment's part: without it nobody would fetch.  Nothing is assumed of users,
bridges and failures.

*Runners*.  Weak fairness of every loop and every request.  A request that waits
for `runnerMu` may be overtaken, but only by finitely many others in the
instance; Go's mutex hands over to a waiter after a millisecond.  That a loop
leaves `asking` is `getUpdates` with its timeout, or its cancelled context.


## 6. The proofs

### The outbound gateway

`OutboundDeliveryTheorems` proves, for every number of deliveries, handlers,
operators, attempts, replays and faults:

| theorem | says |
|---|---|
| `TypeCorrect` | `Spec => []TypeOK`, for any number of workers |
| `ViewHolds` | `Spec => []WorkerView`, the inductive invariant |
| `AtMostOnce` | `Spec => []AtMostOneDelivery` |
| `DLQIsTrue` | `Spec => []DLQMatchesStatus` |
| `GateHolds` | `Spec => RateLimitHolds` |
| `SettledStays` | `Spec => SettledIsFinal`, which the lifecycle below says too |
| `Implements` | `Spec => ImplementsLifecycle` |
| `OneEntryEach` | `Spec => []OneEntryPerGeneration`, for any number of workers |
| `DeadLettersReachRedis` | `Spec => []DeadLetterReachesRedis` |
| `InFlightKept` | `Spec => []InFlightHasEntry`, with one operator or services only |
| `PromiseStays` | `Spec => []PromiseKept`, with one operator or services only |

All but `TypeCorrect` and `OneEntryEach` assume `SingleWorker`.
`InFlightKept` and `PromiseStays` also assume `OneOperator` or
`WorkloadDeliveries = {}`: of two operators who replay one workload delivery,
the slower may complete the newer replay before its entry is there (section 7).  The only other assumption is
`ConstantsAssumption`, which TLC evaluates in each outbound run.

**The argument.**  None of the properties is inductive: that a send happens at
most once depends on what the worker knew when it loaded the row, several steps
before.  `WorkerView` writes that down:

- `WorkerKnows(w)`: at each `pc`, what is still true of the row the worker
  holds.  At `resolve` and `begin` it is neither settled nor being
  dispatched; at `send` it is `processing` and nothing was sent; at
  `retry` and `deadletter` nothing was sent; at `succeed` it was sent once.
- `TakenOnce`: what was sent is `processing` or settled, and was sent once.
- `Stored`: whoever holds a delivery (an entry, a handler, an operator, the
  outbox) holds one that has a row.
- `DLQMatchesStatus`: an active dead letter is a dead-lettered row, so
  operators touch no row the worker is sending.

The lemma `OthersKeepView` shows that no step of another actor disturbs the
view (they only touch rows that are absent, pending or dead, and
`processing` is left by the worker alone); `WorkerKeepsView` shows each step of
the worker re-establishes it, one case per action.  This is the point where one
worker is needed: with two, the second is an actor that does disturb the view.
`Implements` then maps each step: a step of another actor or of the worker is
one step of the lifecycle for one delivery, or a stutter
(`ClientStepRefines`, `WorkerEffectRefines`).

Four more invariants carry the promises that span SQLite and Redis:

- `Numbered` and `Counted` (`OneEntryEach`): the hashes of the Lua scripts bound
  the entries, one for the append and one per generation that a replay recorded;
  generations are those the operators were given.
- `Holds` (`DeadLettersReachRedis`): a dead letter that is not in the Redis DLQ
  still has its entry pending, whoever stopped between the two writes.
- `Kept`, with `First`, `Underway` and `Newest` (`InFlightKept`): a row the worker
  is to send has a live entry; a handler or outbox round that is about to
  mark a row accepted has appended its entry, and what waits in SQLite has an
  outbox row; an operator who completes a replay completes the newest generation.  This is the
  conjunct that needs one operator, or the outbox in the operators' place.
- `Stored`, `Carried`, `Promising` and `ReplayShown` (`PromiseStays`): a row has a
  payload, which never changes, and what was answered 202 has a row with the
  payload that was promised and, while it is not enqueued, its outbox row; what
  waits for a replay is a dead letter that says so.  With `InFlightHasEntry`, which
  says it of what the worker is to send, no status is left in which an
  accepted delivery could be forgotten.

`RedisStreamTheorems` has the lemmas about the queue operators (they keep
queues queues, and only add entries at the end) that the type invariant and
`Stored` rest on.

### The inbound gateway

`InboundDeliveryTheorems` proves, for every number of updates, poll loops,
webhook requests, operators, replays and faults, from `ConstantsAssumption`
alone:

| theorem | says |
|---|---|
| `InboundTyped` | `Spec => []TypeOK` |
| `IngestedOnceAlways` | `Spec => []IngestedOnce` |
| `DeadLettersAgreeAlways` | `Spec => []DeadLettersAgree` |
| `SucceededStays` | `Spec => SucceededIsFinal`, which the lifecycle below says too |
| `InboundImplements` | `Spec => ImplementsLifecycle` |

The invariant `InboundInv` adds to these:

- `WorkerKnows`: what the worker saw when it loaded the row is still so when it
  writes it, because only the worker settles or dead-letters, and operators
  touch only active dead letters.
- `Stored`: whoever holds a delivery (an entry, an ingester, a dead letter, an
  operator) holds one that has a row.
- `Counted`: the hashes of the Lua scripts bound the entries: one when the
  delivery is in `index`, one more per generation in `replayIndex`; `Replaying`
  bounds the generations by what the operators asked for.

Lemmas such as `StatusSteps` and `QueueSteps` say once which actions change
what, so each conjunct is proved over the few actions that can disturb it.

`InboundImplements` needs one more invariant, `Trying`: at the steps between the
worker's transactions, what it is to try is not rejected, what it tries is
`PENDING` and counted, and what it is about to bury is `RETRYING` with its
attempts used up (or was the adapter's, which has one).  The lifecycle's `Bury`
asks for that count, and the code tests it one transaction earlier.  Then
four lemmas map the steps that change a row: `PrepareRefines`, `WorkerRefines`,
`OperatorRefines`, and `OthersStutter` for the rest.

`InboundPromiseTheorems` proves the promise to Telegram,
`AcknowledgedStays`: `Spec => []AcknowledgedIsKept`, for a bot that is polled
(`Hooks = {}`) and at most one operator (`OneOperator`).  Both are needed.
`WebhookHandler` answers 200 even when `ProcessUpdate` failed (finding 2), and
`CompleteGatewayDLQReplay` does not look at the generation it completes, so a
slow operator can complete the next replay before its entry is there.  The
proof adds `PromiseInv`:

- `Kept`: a delivery that is due has a live entry the worker is not about to
  move to the DLQ.
- `Indexed`: only what was rejected or is not yet appended has no entry.
- `Newest`: an operator replays the newest generation of its dead letter.
- `Taking`: what is below the offset, or was passed in a batch, is rejected or
  in `index`; this holds at each step of a poll loop (`Past`), which is why
  a failure or a stop at any of them loses nothing.

### The adapter

`AdapterExecutionTheorems` proves, for any number of workers, jobs, crashes,
failures and overtaken leases, from `ConstantsAssumption` alone:

| theorem | says |
|---|---|
| `ExecutionTyped` | `Spec => []TypeOK` |
| `TriggerAtMostOnce` | `Spec => []TriggerOnce` |
| `AnswersTrue` | `Spec => []AnswersAreTrue` |
| `ProgressKept` | `Spec => ProgressIsKept` |
| `AdapterKeepsPromise` | `Spec => KeepsPromise` |

`TriggerOnce` is not inductive: a worker that lost its lease still runs, with a
copy of the execution that is older than what is saved.  `AdapterInv` adds:

- `CopiesSound`: whatever a copy says of the acknowledgement, Jenkins and the
  result is true, of stale copies too, because none of these is ever undone.
- `HolderAhead`: only the copy of the lease's holder is ahead of what is saved;
  once the trigger is sent or about to be, both are past the saved intent
  (`Rank` 3), so nobody who loads the execution starts from before it.
- `OneTrigger`: whoever is about to send is alone, nothing was sent before, and
  the intent is saved.
- `AnswersSaved`: an answer was given only with the class of the execution saved
  as done.

The argument is one lemma for each step of a call over named classes of copies
(`Sound`, `Forward`, `Rank`), and that `Forward` is transitive.

`AdapterKeepsPromise` is about what verdicts say, of which `AdapterInv` says
nothing but for success.  `PromiseInv` adds:

- `CopiesTrue`: the saved execution and every copy, stale ones too, say the truth
  (`Truth`, `TrueVerdict`): a stage or verdict that needs a build is only found
  where Jenkins has one, or had one (`Fate`).  No call can make it false: what
  Jenkins has seen is not taken back, and a trigger that was refused (`lost`)
  or cancelled never runs.
- `EndedUnbuilt`: what ended before its trigger, as no request or without the
  acknowledgment, was not triggered; for the saved execution, and for the copy of
  the lease's holder while it works.
- `ReportsSaved`: a call that reports the verdict or has ended carries the verdict
  that is saved, or found that the job had changed.
- `RepliesTrue`: so does the reply that was created.

One lemma per action keeps these (`PostPromise`, `ClaimPromise`, `SavePromise`, ...).
The steps that the abstract specification sees are then mapped by
`PostRefines`, `JenkinsRefines`, `RepliesRefine`, `SaveRefines` and
`TriggerRefines`; `SilentSteps` says that no other step is seen.

### The runners

`BotRunnersTheorems` proves, for every number of requests, tokens and loops,
from `RunnersAssumption` alone:

| theorem | says |
|---|---|
| `RunnersTyped` | `Spec => []TypeOK` |
| `OnePollLoopAlways` | `Spec => []OnePollLoop` |
| `RunnerFollows` | `Spec => []RunnerFollowsRow` |

That two loops never poll at once depends on what is hidden in the requests
under way: a loop that was stopped goes on polling until it returns.
`RunnersInv` says:

- `Typed`: besides the types, only the next step of a request may wait for a
  loop (`Plans`).
- `Locked`: `runnerMu` is held by the request that waits for a loop and by no
  other, and meanwhile no runner is registered.
- `Accounted`: a loop that polls is the registered one, or the one the holder
  of the lock waits for.  With `Locked` it can only be one of them.
- `Restarted`: nothing polls or waits in a process that has ended, and `main`
  takes no request before it shuts down.

`RunnerFollowsRow` speaks of the moment when all requests are done.  `Followed`
says what holds before: while one request runs alone, `Stage` lists for each step
it may be at the steps it has left and what is then true of row, instance and
runner (`Settled`: as the row says; `Speaks`: the instance has the row's token).
`RunnersInv` is needed where a request starts a loop: that the old one has
ended follows from `Accounted` and `Locked`.  The proof showed that the history
variable was too generous: an instance made with an old token while requests
overlapped outlives a later `RestartBot`, which keeps the instance there is.
A run with a third request then found that behaviour, and `Renews` excludes it.

### Updates, routing and long polls

`UpdatePipelineTheorems` proves, for every number of bots, chats, bridges,
backends, routes, messages, requests and faults, and queues of any size, from
`PipelineAssumption`, `ConfigsAssumption` and `QueueSizeAssumption`:

| theorem | says |
|---|---|
| `PipelineTyped` | `Spec => []TypeOK` |
| `OnceAlways` | `Spec => []OnceUnlessRetried` |
| `RepliesAlwaysReturn` | `Spec => []RepliesReturn` |
| `NothingLost` | `Spec => []NothingLostSilently` |

The assumptions on constants are about inputs: fewer messages than `BridgeBase`,
so Telegram's ids and those of bridges are apart; users are chats; a bot is
long-polled or forwards, as `proxy.go:392` tests; routes have positive
ids.  The first was weaker until the proof needed it: with a real update
numbered `BridgeBase` the two kinds of id were not apart.

`RoutingInv` is for the second and third theorem: `TypeInv`; `Traced`, which says
of each worker which copies of its update were made and saved at the step where it
is, so a step can only add a copy that is not there; and `Backed`, that each
mapping stands for something that was sent.  `QueueInv` is for the last:

- `Shelf`, `InOrder`: no two bots share a queue, and a queue holds at most
  `QueueSize` updates, in the order they came in and none above the offset.
- `Requests`, `Parked`: a request holds the queue of its bot, or one that was
  dropped under it and has nothing but what was given up.
- `Asked`, `Marked`: the offset a request asks from and the confirmed offset of a
  queue are past only what was handed over, or given up with a named cause,
  unless the id was a bridge's.
- `Taking`: the update a poll loop works on is handed over, given up or queued
  already, so that `Confirm` may move the offset past it.

The lemmas on `Enqueue`, `Purged` and `Fetched` say once what each operation does
to the sequence; `LinkedKeeps` and `EnqueuedKeeps` are the steps that use them.

### The configuration and its backup

`ConfigurationTheorems` proves, for every number of bots, destinations, routes,
services, workloads, administrators, publishers and backups, from
`ConfigurationAssumption` and `BackupsAssumption` (what administrators may send
and backups contain is finite and well formed):

| theorem | says |
|---|---|
| `ConfigurationStays` | `BackupSpec => [](ConfigInv /\ Authorized(publisher))`, the inductive invariant |
| `ConfigurationTyped` | `BackupSpec => []TypeOK` |
| `RoutesExplained` | `BackupSpec => []HistoryExplainsRoutes` |
| `RoutesRebound` | `BackupSpec => []MigrationKeepsRoutes` |
| `ChatsReachedOnce` | `BackupSpec => []EachChatOnce` |
| `EditsReplaceTheSeen` | `BackupSpec => EditsReplaceWhatTheySaw` |
| `RoundTrip` | `BackupSpec => []RestoreRoundTrip` |

`ConfigInv` has five parts: `Sound` (types, an account mirrors its bot's token,
rows refer to rows that are there, no service names a chat twice), `Explained`
(the history of a route numbers its revisions and ends with the route),
`Rebound`, `Pinned` (a notification's recipients), and `Watching`: what an
administrator has open is not newer than the table, and if it has its revision it
has its content.  The last is what makes an expected revision mean something.

The operations build the next tables from a handful of builders (a token is
synchronised, a destination migrated, a route written, subscriptions saved, a
backup restored).  For each builder a lemma says that it `Moves` the
configuration: it stays sound, revisions only advance, and the routes that
changed are known.  `MovesOn` composes them, and `Committed` turns a move into the
preservation of the whole invariant, so an action's proof is short.  The set of
deleted bots is a parameter of `Sound`, because rows of a bot that was deleted
under a request (foreign keys are off) keep its name.

`RoundTrip` says of every reachable configuration that its export, if it is
valid, can be restored with all indexes of the tables and all checks of the
recipients, and that exporting what was restored gives the same snapshot.  It
needs no induction over the tables, because `Export` and `Restored` are stated
by keys and ranks:

- `ExportIs`, `ExportFits`: an export has one row for each row of a table, and
  finds each again by its key (`RowsOf`).
- `RestoredSound`: a valid export gives sound tables, by the same lemma as a
  restore from outside (`RestoredMoves`).
- `RestoredDestsAre`, `RestoredRoutesAre`, `RestoredRowsAre`: what each restored
  row is, in terms of the row it came from.  A destination comes back at the account of
  its bot whose rank is the destination's among those of its bot and chat.
- `RanksDiffer`: that rank grows strictly along the table, so two destinations
  of one bot and chat get two accounts.
- `RestoredConstraints`: hence the unique indexes hold; with `RecipientsAgain`
  every service still names each chat once.  `ExportedAgain` puts the rows together.

### Only model-checked

- Liveness, out of the prover's reach like `ENABLED`: `OutboxDrains`,
  `AcceptedSettles`, `UpdatesAreTaken`, `TakenSettles`, `ExecutionEnds`,
  `UpdatesReachBackends`, `StopsTakeEffect`.
- That an acknowledged update is kept with webhooks or several operators: it is
  not, see `AcknowledgedStays` above; likewise `InFlightHasEntry` (section 7).
- That the three violated statements are violated is shown by their runs only.

The prover cannot do induction over data, nor see RECURSIVE operators; no module
here declares one.


## 7. Findings

Three runs expect a violation; each checks one sentence of the repository.

1. `OutboundDiscard`.  Dead-lettering is a SQLite transaction and then a Redis
   move.  If the move fails, the entry stays pending.  An operator who discards
   the dead letter meanwhile sets a status that the worker does not treat as
   final, so the reclaimed entry is processed again: the delivery is sent, or
   dead-lettered and replayable again.  The dialog promises "This cannot be
   replayed later."  The inbound worker has the same gap
   (`inbound.go:223-229`): a discarded update is posted to the backend again.
2. `InboundWebhookLoss`.  `WebhookHandler` ignores the result of
   `ProcessUpdate` and answers 200, so an update that could not be stored is
   lost, although the comment there says that `false` means the update must not
   be acknowledged.
3. `AdapterJobSwitch`.  If the process is started with another job, the
   execution is made terminal and its reply is created *before* the save; a
   crash between them and a restart with the original job lead to a reply with
   another payload under the same key, which is refused at every further call.
   The execution never ends and its delivery is never dead-lettered.

Observations that break no statement of the repository:

- Two operators on one *workload* delivery: the completion of a replay checks
  the state of the dead letter and not its generation, so a late completion can
  mark a newer replay done before its entry exists; a failure then strands
  the delivery.  `OutboundService` shows that the outbox avoids this for
  service deliveries; `OutboundWorkload` has one operator for that reason.
- An entry whose row stays `pending_enqueue` is looked at again for ever.
  `OutboundPair` shows that others get through.
- A request repeated after its delivery settled is answered "accepted".

*Updates and routing* (`UpdatePipeline`):

- The ids a bridge makes up are above every Telegram id.  Once a backend that
  fetches has confirmed one, the queue drops every later real update; `lost`
  records it, so `NothingLostSilently` holds with that named cause.
- An update whose forwarding failed is routed in spite of that, and again when
  it is delivered again; `OnceUnlessRetried` says "unless".  An operator's
  message that is repeated may, without an explicit reply, go to another user
  whose message was copied meanwhile.
- An update between the first look of a long poll and its registering wakes
  nobody, and `RemoveUpdateQueue` leaves who waits at the old queue; both wait
  until their time is up, after which the next request finds the update.
- The answer to a bridged chat is sent to the chat the bridge made up, which
  Telegram refuses.  The hook that would carry it out is installed at start and
  by `handleBotAdd`, not where `RestartBot` and `ensureManagedBot` make an instance.
- A route that drops is skipped when its target has no instance, and stops
  neither the model's choice nor answers.  `CleanOldRouteMappings` is called by
  nothing.  The comment on `Get` says it returns updates with an id from the
  offset on after purging older ones; only a prefix is purged.
- A bridge that is updated while it is deleted may stay active in memory.

*Runners* (`BotRunners`):

- `RestartBot` reads the row before it stops the runner, and the loop never
  looks at `disabled`.  Two requests that overlap can leave a disabled bot
  polled, until the next restart, or its instance with an old token, until a
  request makes the instance anew; a restart alone keeps the instance there is.
  `RunnerFollowsRow` excludes both and is violated without `~overlap`.
- The setWebhook interception writes the whole row back as it read it, so a
  concurrent change of another column is lost.
- `handleBotUpdate` ignores what `RestartBot` returns: when the instance cannot
  be made the bot is not polled and nobody is told.  `Start` polls in that case.
- `ActivateManagedBot` does not delete a webhook Telegram may have, so the loop
  it starts may end with the first 409.
- A bot named on the command line gets its instance also when it is disabled.
- `last_error` does not keep telling of a 409 that ended a loop: a failed poll
  writes its own message (`proxy.go:686`), and every `ProcessUpdate` clears it
  (`proxy.go:425`), also one of a bridge or a webhook while no loop runs.
  `RunnerFollowsRow` excuses a missing loop by a history variable instead.

*Configuration* (`GatewayConfiguration`, `ConfigurationBackup`):

- Route input is validated outside the transaction.  A route saved after its
  destination moved names another account than the destination
  (`unchecked`); such a configuration is exported, but the export is refused on
  restore.  So are two inbound routes to one bot and chat by way of alias accounts.
- Foreign keys are off in SQLite: deleting a bot while a destination is
  inserted can leave the destination without an account, and exporting then
  fails.
- A PUT of a route without an expected revision takes the one found when it
  saves, so it overwrites what it has not seen.
- The permission to publish is checked in another transaction than the
  notification is accepted in; a permission withdrawn between them still counts.


## 8. What is not modelled, and limits

- Authentication, validation, wording, the HTTP of all clients, encryption:
  inputs are taken as valid, outcomes as classes.
- Telegram's 5xx answers: `telegram.go:101-113` takes every one for a refusal and
  retries, although the request was written.  `Send` assumes that such a message
  was not taken.  A 502 or 504 from a proxy after Telegram took the message is
  outside the model; `AtMostOneDelivery` and the lifecycle hold under that
  assumption.  A lost or unreadable answer is not assumed to be anything.
- In `UpdatePipeline` likewise an error answer to a reply or a copy is taken as
  nothing sent: a call that failed after Telegram took it, followed by the
  fallback send, is outside `OnceUnlessRetried`.
- Attempt rows, audit rows, metrics and health: written, never read by the
  steps modelled.
- Time: deadlines pass at any moment.  A claim may take a
  pending entry at any time the worker holds nothing.  What depends on one
  duration being longer than another is not shown.
- Rows of deliveries are never deleted, as in the code; Redis keeps what it was told
  (AOF is required by the start-up check).  Losing Redis data is not modelled.
- `InboundDelivery` has one worker, either a poll loop or webhooks, one
  operator, update ids in order, and the gateway switched on.  A bot that is
  polled without the inbound gateway forwards and advances its offset without
  storing anything.
- `AdapterExecution` has one request; queue and build numbers are left out, as
  there is one build.  `RESULT_UNAVAILABLE` also stands for
  `JENKINS_BUILD_FAILED`.
- `UpdatePipeline` has one poll loop per bot and one handler per bridge; webhook
  requests, which run `ProcessUpdate` several at a time for one bot, are
  `InboundDelivery`'s.  Routes and instances do not change while updates are
  processed, text is there or not, and what `processForManagement` stores is
  left out, as nothing here reads it.  A bridge's message may answer an earlier
  one of any bridge (the mapping of message ids is not kept); with the one bridged
  message of the run there is none to answer, and such a reply leads nowhere in
  the code either: no route mapping has a bridge's chat as its target, as
  Telegram refuses what is sent there.  The CRUD of bridges and `NotifyOutgoing`
  are left out.
- `BotRunners` has one bot.  Bots share only `runnerMu`, under which one bot's
  requests wait for another's loop to end; that they get it in the end is
  assumed for one bot and not shown for several.  A bot that the setWebhook
  interception registers by itself is not told apart from one that is added.
- `GatewayConfiguration` deletes bots only (the code deletes nothing else of
  these tables); text fields, listings, the probes of Telegram and the audit
  trail are left out.  The id of a bot is used once.
- `ConfigurationBackup` leaves out conditional routes, and a restore that brings
  back a bot deleted before (its rows would get new ids).
- Secrets and their migration (cryptography, and one transaction at start-up),
  and the management of chats and messages by `internal/bot` (a client of
  Telegram with one store call per event) are not modelled: they have no
  interleaving of their own.


## 9. Plan

Done: `RedisStream`, `OutboundDelivery` with its refinement, `InboundDelivery`,
`AdapterExecution`, `BotRunners`, `UpdateQueue` with `UpdatePipeline`, and
`GatewayConfiguration` with `ConfigurationBackup`; three refinements of an
abstract specification (`DeliveryLifecycle`, `InboundLifecycle`, `BuildRequest`).
Every safety property the passing runs check is a theorem.

Next:

1. An abstract specification beside these for the polling owner: one poller per bot,
   refined by `BotRunners`.
2. Further parts of the code: the way out of bridges (`NotifyOutgoing`,
   callbacks, message mappings); several bots at one `runnerMu`; the splitter of
   command arguments and the retry delays as pure algorithms against reference
   definitions.
