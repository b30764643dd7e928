--------------------------- MODULE UpdatePipeline ---------------------------
(***************************************************************************)
(* What becomes of an update of a bot: Manager.ProcessUpdate hands it to   *)
(* the queue that backends fetch from, forwards it to a backend, carries   *)
(* an answer back to the chat it answers (reverse routing), copies it to   *)
(* other bots (conditional routes, then the language model's choice), and  *)
(* only then advances the bot's offset.  Two kinds of workers run it at    *)
(* once: the poll loop of every bot, and the handlers of bridges, which    *)
(* inject messages of other networks under ids of their own making.        *)
(*                                                                         *)
(* A batch of a poll loop is taken update by update: a failure leaves the  *)
(* rest for the next poll either way.  Ingestion into the inbound gateway  *)
(* is InboundDelivery's; here a failure of it is a failed update.          *)
(* Forgetting of mappings (CleanOldRouteMappings) is called by nothing.    *)
(***************************************************************************)
EXTENDS UpdateQueue

CONSTANTS
  Bots,
  Chats,        \* Telegram chats
  Bridges,      \* bridged chats: a bridge and a chat of its network
  BotOf,        \* the bot of a chat, and the bot a bridge is linked to
  NoText,       \* a message without text or caption
  Configs,      \* the configurations to start with; they do not change
  Clients,      \* backends that fetch from a queue
  BotOfClient,
  Limit,        \* updates in one answer
  BridgeBase,   \* where the ids of bridges start, above every update id
  MaxMessages,  \* bound: messages of users
  MaxBridged,   \* bound: messages of bridges
  MaxFaults     \* bound: crashes, failures of backends and clients, removals

ASSUME PipelineAssumption ==
  /\ BotOf \in [Chats \cup Bridges -> Bots] /\ (Chats \cup Bots) \cap Bridges = {}
  /\ BotOfClient \in [Clients -> Bots]
  /\ Limit \in Nat \ {0} /\ BridgeBase \in Nat
  /\ MaxMessages \in 0 .. BridgeBase - 1 /\ MaxBridged \in Nat /\ MaxFaults \in Nat

\* Routes are tried in the order of positive ids.
ASSUME ConfigsAssumption == \A c \in Configs :
  /\ c.writers \subseteq Chats /\ c.managed \cup c.longPolled \subseteq Bots
  /\ c.longPolled \cap c.forwarding = {}
  /\ \A b \in Bots : DOMAIN c.routes[b] \subseteq Nat \ {0}

VARIABLES
  config,    \* the configuration of the bots
  inbox,     \* per bot the updates Telegram has for it; the id is the index
  lastMsg,   \* per chat the id of its newest message
  offset,    \* bots.offset: the next update to take
  worker,    \* what the poll loop of a bot, or a bridge's handler, is doing
  mappings,  \* route_mappings, by id
  heap,      \* the queues that were made since the start
  queueOf,   \* updateQueues: per bot its queue in the heap, or 0
  client,    \* per backend its request, and the offset it asks from
  bridged,   \* messages of bridges so far
  faults,
  sends,     \* history: messages the bots sent
  retried,   \* history: updates that were not acknowledged when processed
  got,       \* history: updates handed to a backend
  lost       \* history: updates a queue gave up, was dropped or crashed with

telegram == <<config, inbox, lastMsg>>
queueVars == <<heap, queueOf, client>>
vars == <<config, inbox, lastMsg, offset, worker, mappings, heap, queueOf, client, bridged,
          faults, sends, retried, got, lost>>

Managed == config.managed        \* bots with a managed instance, which can send
LongPolled == config.longPolled  \* bots with LongPollEnabled
Forwarding == config.forwarding  \* others, whose updates are pushed to a backend
Routes == config.routes          \* per bot its enabled routes, in the order of their ids
LLMRoutes == config.llmRoutes    \* per bot the choices a language model may make

Workers == Bots \cup Bridges
Idle == [pc |-> "idle"]
NewClient == [at |-> "idle", next |-> 0, q |-> 0]

\* The queue of a bot, as GetOrCreateUpdateQueue finds it.
Content(b) == IF queueOf[b] = 0 THEN NewUpdateQueue ELSE heap[queueOf[b]]
Held(b) == {<<b, id>> : id \in Range(Content(b).updates)}

------------------------------------------------------------------------------
Init ==
  /\ config \in Configs
  /\ inbox = [b \in Bots |-> <<>>]
  /\ lastMsg = [c \in Chats |-> 0]
  /\ offset = [b \in Bots |-> 1]
  /\ worker = [w \in Workers |-> Idle]
  /\ mappings = <<>>
  /\ heap = <<>>
  /\ queueOf = [b \in Bots |-> 0]
  /\ client = [c \in Clients |-> NewClient]
  /\ bridged = 0
  /\ faults = 0
  /\ sends = {} /\ retried = {} /\ got = {} /\ lost = {}

\* Someone writes in a chat, perhaps in reply to a message in it.
Say(c) ==
  /\ c \in config.writers
  /\ \E text \in config.texts, reply \in 0 .. lastMsg[c] :
       /\ Cardinality(UNION {{<<b, i>> : i \in DOMAIN inbox[b]} : b \in Bots}) < MaxMessages
       /\ inbox' = [inbox EXCEPT ![BotOf[c]] =
            Append(@, [chat |-> c, msg |-> lastMsg[c] + 1, text |-> text, reply |-> reply])]
  /\ lastMsg' = [lastMsg EXCEPT ![c] = @ + 1]
  /\ UNCHANGED <<config, offset, worker, mappings, queueVars, bridged, faults, sends, retried, got, lost>>

------------------------------------------------------------------------------
(* Taking an update. *)

NoRow == [from |-> <<>>]
Real(id) == id < BridgeBase

At(w, pc) == worker[w].pc = pc
Bot(w) == worker[w].bot
Message(w) == worker[w].message
Go(w, pc) == worker' = [worker EXCEPT ![w].pc = pc]
Fault == faults < MaxFaults /\ faults' = faults + 1

\* EnqueueUpdate, which wakes everyone who waits at the queue.
EnqueueUpdate(b, id) ==
  LET q == Content(b) n == IF queueOf[b] = 0 THEN Len(heap) + 1 ELSE queueOf[b] IN
  /\ heap' = [i \in DOMAIN heap \cup {n} |-> IF i = n THEN Enqueue(q, id) ELSE heap[i]]
  /\ queueOf' = [queueOf EXCEPT ![b] = n]
  /\ client' = [c \in Clients |->
       IF client[c].q = n /\ client[c].at = "waiting" /\ Takes(q, id)
       THEN [client[c] EXCEPT !.at = "woken"] ELSE client[c]]
  /\ lost' = lost
       \cup {<<b, i>> : i \in Range(q.updates) \ Range(Enqueue(q, id).updates)}
       \cup (IF id < q.confirmed /\ ~Real(q.confirmed - 1) THEN {<<b, id>>} ELSE {})

\* ProcessUpdate begins: the queue of the bot gets the update, or the backend is
\* called, which may fail, or neither.
Dispatch(w, b, id, message) ==
  LET taken == [pc |-> "reverse", bot |-> b, id |-> id, message |-> message,
                ack |-> TRUE, route |-> 0, row |-> NoRow] IN
  \/ /\ b \in LongPolled
     /\ EnqueueUpdate(b, id)
     /\ worker' = [worker EXCEPT ![w] = taken]
     /\ UNCHANGED faults
  \/ /\ b \notin LongPolled
     /\ worker' = [worker EXCEPT ![w] = taken]
     /\ UNCHANGED <<queueVars, faults, lost>>
  \/ /\ b \in Forwarding
     /\ Fault
     /\ worker' = [worker EXCEPT ![w] = [taken EXCEPT !.ack = FALSE]]
     /\ UNCHANGED <<queueVars, lost>>

\* pollLoop: the next update from the stored offset on.
Poll(b) ==
  /\ worker[b] = Idle
  /\ offset[b] <= Len(inbox[b])
  /\ Dispatch(b, b, offset[b], inbox[b][offset[b]])
  /\ UNCHANGED <<telegram, offset, mappings, bridged, sends, retried, got>>

\* The configuration cannot be read, or ingestion fails: nothing else happens, and
\* the update is left to the next poll.
Reject(b) ==
  /\ worker[b] = Idle
  /\ offset[b] <= Len(inbox[b])
  /\ Fault
  /\ retried' = retried \cup {<<b, offset[b]>>}
  /\ UNCHANGED <<telegram, offset, worker, mappings, queueVars, bridged, sends, got, lost>>

\* HandleIncoming: a bridged message becomes an update under the next id of the
\* bridges, which is also the id of the message.  It may answer an earlier one of
\* the bridge (GetBridgeMsgMapping; which bridge had it is left open).
HandleIncoming(x) ==
  /\ worker[x] = Idle
  /\ bridged < MaxBridged
  /\ bridged' = bridged + 1
  /\ \E text \in config.texts \ {NoText},
        reply \in {0} \cup BridgeBase .. BridgeBase + bridged - 1 :
       Dispatch(x, BotOf[x], BridgeBase + bridged,
                [chat |-> x, msg |-> BridgeBase + bridged, text |-> text, reply |-> reply])
  /\ UNCHANGED <<telegram, offset, mappings, sends, retried, got>>

------------------------------------------------------------------------------
(* Routing. *)

\* A message is sent while w works on an update, and w goes on to save the row that
\* leads back from it.  Telegram knows no chat that a bridge made up.
Send(w, kind, route, to, reply, row) ==
  /\ to \in Chats
  /\ lastMsg' = [lastMsg EXCEPT ![to] = @ + 1]
  /\ sends' = sends \cup {[kind |-> kind, route |-> route, bot |-> Bot(w),
       update |-> worker[w].id, from |-> <<Message(w).chat, Message(w).msg>>,
       answers |-> Message(w).reply, to |-> to, msg |-> lastMsg[to] + 1, reply |-> reply]}
  /\ worker' = [worker EXCEPT ![w] = [@ EXCEPT !.pc = "save", !.route = route,
                                               !.row = row]]

\* Nothing is sent.
Skip(w, route, then) ==
  /\ worker' = [worker EXCEPT ![w].pc = then, ![w].route = route]
  /\ UNCHANGED <<lastMsg, sends>>

\* Telegram refuses a message, always one about a chat that a bridge made up.
Refused(w, chats, route, then) ==
  /\ Skip(w, route, then)
  /\ IF chats \subseteq Chats THEN Fault ELSE UNCHANGED faults

\* SaveRouteMapping, after a message that was sent.
Save(w) ==
  /\ At(w, "save")
  /\ LET row == worker[w].row IN mappings' = Append(mappings,
       [from |-> row.from, fromMsg |-> row.fromMsg, to |-> row.to, toMsg |-> row.toMsg])
  /\ worker' = [worker EXCEPT ![w].pc = worker[w].row.then, ![w].row = NoRow]
  /\ UNCHANGED <<telegram, offset, queueVars, bridged, faults, sends, retried, got, lost>>

RowsTo(b, m) == {i \in DOMAIN mappings : mappings[i].to = <<b, m.chat>>}

\* Mutant: an explicit reply is taken for the conversation's next message.
MappingOfConversation(b, m) ==
  IF RowsTo(b, m) = {} THEN {} ELSE {mappings[Max(RowsTo(b, m))]}

\* FindReverseMapping and FindReverseMappingByReply: the newest row that fits.
Mapping(b, m) ==
  LET rows == {i \in RowsTo(b, m) : m.reply # 0 => mappings[i].toMsg = m.reply}
  IN IF rows = {} THEN {} ELSE {mappings[Max(rows)]}

\* applyReverseRoutes: an answer goes back through the bot its question came to,
\* as a reply, or plainly when Telegram does not take the reply.
ApplyReverseRoutes(w) ==
  LET m == Message(w)
      rows == {row \in Mapping(Bot(w), m) : m.text # NoText /\ row.from[1] \in Managed}
      Answer(row, reply) ==
        Send(w, "answer", 0, row.from[2], reply,
             [from |-> row.from, fromMsg |-> lastMsg[row.from[2]] + 1,
              to |-> <<Bot(w), m.chat>>, toMsg |-> m.msg, then |-> "route"])
  IN
  /\ At(w, "reverse")
  /\ \/ rows = {} /\ Skip(w, 0, "route") /\ UNCHANGED faults
     \/ \E row \in rows :
          \/ Answer(row, row.fromMsg) /\ UNCHANGED faults
          \/ Answer(row, 0) /\ Fault
          \/ Refused(w, {row.from[2]}, 0, "route")
  /\ UNCHANGED <<config, inbox, offset, mappings, queueVars, bridged, retried, got, lost>>

\* A message is copied to the bot and chat that a route, or the model, names.
\* Forwarding sends its text, if it has any; copying names the message itself,
\* which Telegram does not find in a chat that a bridge made up.
Copy(w, kind, route, r, then) ==
  LET m == Message(w)
      to == IF r.dest = "same" THEN m.chat ELSE r.dest
      unsent == r.action = "forward" /\ m.text = NoText
  IN
  \/ unsent /\ Skip(w, route, then) /\ UNCHANGED faults
  \/ ~unsent /\ Refused(w, IF r.action = "copy" THEN {m.chat, to} ELSE {to}, route, then)
  \/ /\ ~unsent
     /\ r.action = "copy" => m.chat \in Chats
     /\ Send(w, kind, route, to, 0,
             [from |-> <<Bot(w), m.chat>>, fromMsg |-> m.msg,
              to |-> <<r.target, to>>, toMsg |-> lastMsg[to] + 1, then |-> then])
     /\ UNCHANGED faults

\* The routes after the last one tried that match, and whose target can send.
Candidates(w) ==
  {i \in DOMAIN Routes[Bot(w)] : LET r == Routes[Bot(w)][i] m == Message(w) IN
     i > worker[w].route /\ m.chat \in r.chats /\ m.text \in r.texts /\ r.target \in Managed}

\* applyRoutes: one matching route after the other, until one drops the update.
ApplyRoutes(w) ==
  LET i == Min(Candidates(w)) r == Routes[Bot(w)][i] IN
  /\ At(w, "route")
  /\ IF Candidates(w) = {} \/ r.action = "drop"
     THEN Skip(w, 0, "llm") /\ UNCHANGED faults
     ELSE Copy(w, "route", i, r, "route")
  /\ UNCHANGED <<config, inbox, offset, mappings, queueVars, bridged, retried, got, lost>>

\* applyLLMRoutes: whatever the model says, also for an update a route dropped.
ApplyLLMRoutes(w) ==
  /\ At(w, "llm")
  /\ \/ Skip(w, 0, "confirm") /\ UNCHANGED faults
     \/ \E r \in LLMRoutes[Bot(w)] :
          /\ Message(w).text # NoText
          /\ r.target \in Managed
          /\ Copy(w, "llm", 0, r, "confirm")
  /\ UNCHANGED <<config, inbox, offset, mappings, queueVars, bridged, retried, got, lost>>

\* Mutant: the offset of the update itself is stored.
ConfirmSame(w) ==
  /\ At(w, "confirm")
  /\ offset' = IF worker[w].ack /\ Real(worker[w].id)
                THEN [offset EXCEPT ![Bot(w)] = worker[w].id] ELSE offset
  /\ worker' = [worker EXCEPT ![w] = Idle]
  /\ retried' = IF worker[w].ack THEN retried ELSE retried \cup {<<Bot(w), worker[w].id>>}
  /\ UNCHANGED <<telegram, mappings, queueVars, bridged, faults, sends, got, lost>>

\* The offset moves past an update that was acknowledged, unless a bridge made it.
Confirm(w) ==
  /\ At(w, "confirm")
  /\ offset' = IF worker[w].ack /\ Real(worker[w].id)
                THEN [offset EXCEPT ![Bot(w)] = worker[w].id + 1] ELSE offset
  /\ worker' = [worker EXCEPT ![w] = Idle]
  /\ retried' = IF worker[w].ack THEN retried ELSE retried \cup {<<Bot(w), worker[w].id>>}
  /\ UNCHANGED <<telegram, mappings, queueVars, bridged, faults, sends, got, lost>>

------------------------------------------------------------------------------
(* Fetching: handleLongPollGetUpdates. *)

\* Get on the queue n of h.  Updates are handed over unless the answer is lost on
\* its way; without any, the request goes on at then.  What is purged without
\* having been handed over is lost if only a bridge's id can have confirmed it.
Get(c, n, h, then) ==
  LET b == BotOfClient[c]
      q == h[n]
      from == client[c].next
      ids == Fetched(q, from, Limit)
      purged == {<<b, id>> : id \in Range(q.updates) \ Range(Purged(q, from).updates)}
  IN
  /\ heap' = [h EXCEPT ![n] = Purged(q, from)]
  /\ lost' = IF Real(from - 1) THEN lost ELSE lost \cup (purged \ got)
  /\ \/ /\ ids = {}
        /\ client' = [client EXCEPT ![c].at = then, ![c].q = IF then = "idle" THEN 0 ELSE n]
        /\ UNCHANGED <<got, faults>>
     \/ /\ ids # {}
        /\ client' = [client EXCEPT ![c] = [at |-> "idle", next |-> Max(ids) + 1, q |-> 0]]
        /\ got' = got \cup {<<b, id>> : id \in ids}
        /\ UNCHANGED faults
     \/ /\ ids # {}
        /\ Fault
        /\ client' = [client EXCEPT ![c].at = "idle", ![c].q = 0]
        /\ UNCHANGED got

Elsewhere == <<telegram, offset, worker, mappings, bridged, sends, retried>>

\* A request comes in and looks at the queue; one without a timeout ends there.
Ask(c) ==
  LET b == BotOfClient[c] n == IF queueOf[b] = 0 THEN Len(heap) + 1 ELSE queueOf[b] IN
  /\ client[c].at = "idle" /\ b \in LongPolled
  /\ queueOf' = [queueOf EXCEPT ![b] = n]
  /\ \E then \in {"looked", "idle"} :
       Get(c, n, IF queueOf[b] = 0 THEN Append(heap, NewUpdateQueue) ELSE heap, then)
  /\ UNCHANGED Elsewhere

\* Having found nothing it registers for a wakeup, in a second step.
Wait(c) ==
  /\ client[c].at = "looked"
  /\ client' = [client EXCEPT ![c].at = "waiting"]
  /\ UNCHANGED <<Elsewhere, heap, queueOf, faults, got, lost>>

Wake(c) ==
  /\ client[c].at = "woken"
  /\ Get(c, client[c].q, heap, "idle")
  /\ UNCHANGED <<Elsewhere, queueOf>>

\* Mutant: only a wakeup ends the wait.
TimeOutNever(c) ==
  /\ client[c].at = "waiting" /\ faults > MaxFaults
  /\ Get(c, client[c].q, heap, "idle")
  /\ UNCHANGED <<Elsewhere, queueOf>>

TimeOut(c) ==
  /\ client[c].at = "waiting"
  /\ Get(c, client[c].q, heap, "idle")
  /\ UNCHANGED <<Elsewhere, queueOf>>

Disconnect(c) ==
  /\ client[c].at # "idle"
  /\ Fault
  /\ client' = [client EXCEPT ![c].at = "idle", ![c].q = 0]
  /\ UNCHANGED <<Elsewhere, heap, queueOf, got, lost>>

------------------------------------------------------------------------------
(* Failures. *)

\* RemoveUpdateQueue: a webhook is set or deleted with drop_pending_updates.
\* Who waits at the old queue waits until its time is up.
RemoveUpdateQueue(b) ==
  /\ queueOf[b] # 0
  /\ Fault
  /\ queueOf' = [queueOf EXCEPT ![b] = 0]
  /\ lost' = lost \cup Held(b)
  /\ UNCHANGED <<Elsewhere, heap, client, got>>

\* The process stops and starts again: the queues are gone, the updates that were
\* being processed are delivered again, the messages of bridges are not.
Crash ==
  /\ Fault
  /\ worker' = [w \in Workers |-> Idle]
  /\ heap' = <<>>
  /\ queueOf' = [b \in Bots |-> 0]
  /\ client' = [c \in Clients |-> [client[c] EXCEPT !.at = "idle", !.q = 0]]
  /\ lost' = lost \cup UNION {Held(b) : b \in Bots}
  /\ retried' = retried \cup {<<Bot(w), worker[w].id>> : w \in {v \in Workers : worker[v] # Idle}}
  /\ UNCHANGED <<telegram, offset, mappings, bridged, sends, got>>

------------------------------------------------------------------------------
Process(w) ==
  \/ ApplyReverseRoutes(w) \/ ApplyRoutes(w) \/ ApplyLLMRoutes(w)
  \/ Save(w) \/ Confirm(w)
Request(c) == Ask(c) \/ Wait(c) \/ Wake(c) \/ TimeOut(c)

Next ==
  \/ \E c \in Chats : Say(c)
  \/ \E b \in Bots : Poll(b) \/ Reject(b) \/ RemoveUpdateQueue(b)
  \/ \E x \in Bridges : HandleIncoming(x)
  \/ \E w \in Workers : Process(w)
  \/ \E c \in Clients : Request(c) \/ Disconnect(c)
  \/ Crash

\* Workers run, backends keep asking, and timers go off.
Fairness ==
  /\ \A b \in Bots : WF_vars(Poll(b))
  /\ \A w \in Workers : WF_vars(Process(w))
  /\ \A c \in Clients : WF_vars(Request(c))

Spec == Init /\ [][Next]_vars /\ Fairness

------------------------------------------------------------------------------
(* Properties. *)

Updates == UNION {{<<b, id>> : id \in DOMAIN inbox[b]} : b \in Bots}

\* Every queue is bounded and without duplicates; a request knows its queue.
TypeOK ==
  /\ \A b \in Bots : offset[b] \in 1 .. Len(inbox[b]) + 1 /\ queueOf[b] \in 0 .. Len(heap)
  /\ \A n \in DOMAIN heap : /\ heap[n] \in Queue(1 .. BridgeBase + MaxBridged)
                            /\ Len(heap[n].updates) <= QueueSize
                            /\ IsInjective(heap[n].updates)
  /\ \A c \in Clients : /\ client[c].at \in {"idle", "looked", "waiting", "woken"}
                        /\ client[c].q \in 0 .. Len(heap)
                        /\ (client[c].at = "idle") = (client[c].q = 0)
  /\ faults \in 0 .. MaxFaults

\* An update that Telegram may forget, of a bot whose backend fetches, was handed
\* to a backend or is still queued, unless the queue was full, was dropped with a
\* webhook or a crash, or confirmed by the id of a bridge: neither the watermark
\* nor the purge ever takes an update that nobody has seen.
NothingLostSilently ==
  \A b \in LongPolled : \A id \in 1 .. offset[b] - 1 :
    <<b, id>> \in got \cup lost \cup Held(b)

\* An update is carried back once and copied once by each route and by the model,
\* although poll loops and bridges run at once, unless its processing failed and
\* it was delivered again: ProcessUpdate repeats the routing with it.
OnceUnlessRetried ==
  \A s, t \in sends :
    (s # t /\ <<s.bot, s.update>> = <<t.bot, t.update>> /\ <<s.kind, s.route>> = <<t.kind, t.route>>)
      => <<s.bot, s.update>> \in retried

\* An explicit reply that is carried back goes to the chat of the message that
\* the message it answers is a copy of, or that an earlier answer went to: never
\* to somebody else whose messages are copied to the same chat.
RepliesReturn ==
  \A s \in sends : (s.kind = "answer" /\ s.answers # 0) =>
    \E t \in sends :
      \/ t.kind # "answer" /\ <<t.to, t.msg>> = <<s.from[1], s.answers>> /\ t.from[1] = s.to
      \/ t.kind = "answer" /\ t.from = <<s.from[1], s.answers>> /\ t.to = s.to

\* Every update of a bot whose backend fetches reaches it, or was lost for
\* a cause that NothingLostSilently names: a wakeup that is missed between looking
\* and waiting, or at a queue that was dropped, delays it to the end of the wait.
UpdatesReachBackends ==
  \A c \in Clients, id \in 1 .. MaxMessages : LET b == BotOfClient[c] IN
    (b \in LongPolled /\ id \in DOMAIN inbox[b]) ~> <<b, id>> \in got \cup lost
=============================================================================
