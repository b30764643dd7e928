------------------------------ MODULE BotRunners ------------------------------
(***************************************************************************)
(* Who polls a bot.  A bot has at most one runner, whose poll loop reads   *)
(* the bot's row again in every round.  Requests that change the row stop  *)
(* the runner, wait for its loop, and start another one, each of them in   *)
(* several steps; starting and stopping take turns (runnerMu), the steps   *)
(* around them do not.  The loop ends itself when the row is gone, when    *)
(* the bot has nothing to poll for, or when Telegram says that another     *)
(* consumer or a webhook has its updates.                                  *)
(*                                                                         *)
(* One bot is modelled: runnerMu is the only thing bots share here.  What  *)
(* a request does to the row is one transaction; what is done with updates *)
(* is UpdatePipeline's.                                                    *)
(***************************************************************************)
EXTENDS Integers, FiniteSets, SequencesExt

CONSTANTS
  Requesters,    \* requests in progress at once
  Main,          \* the main goroutine, which stops all runners when it shuts down
  Tokens,        \* tokens the bot may have; with which one it starts makes no difference
  AllModes,      \* values of manage and proxy that rows and requests come with
  LoopIds,       \* poll loops that may exist at once
  NoLoop, NoOne, NoToken,
  MaxRequests,   \* bound: requests, the shutdown among them
  MaxStarts,     \* bound: starts of the process
  MaxConflicts   \* bound: times that another consumer polls the bot

ASSUME RunnersAssumption ==
  /\ NoLoop \notin LoopIds /\ NoToken \notin Tokens
  /\ Tokens # {} /\ AllModes \subseteq BOOLEAN \X BOOLEAN
  /\ Main \notin Requesters /\ NoOne \notin Requesters \cup {Main}
  /\ MaxRequests \in Nat /\ MaxStarts \in Nat /\ MaxConflicts \in Nat

VARIABLES
  row,       \* the bot's row; at says whether it is there, and an id is used once
  hook,      \* whether Telegram sends the bot's updates to a webhook
  phase,     \* of the process: down, up or stopping
  loop,      \* per id what the poll loop is doing
  runner,    \* runners: the loop that is registered
  lock,      \* who holds runnerMu
  managed,   \* managedBots: the token of the bot's instance
  webhook,   \* webhookBots
  request,   \* what each request has left to do, and the row it has read
  conflict,  \* history: the newest loop ended as a poll was refused for another consumer
  failed,    \* history: the last instance could not be made
  overlap,   \* history: requests ran at once, and none alone has renewed the runner since
  begun, starts, conflicts

rowVars == <<row, hook>>
counters == <<begun, starts, conflicts>>
vars == <<row, hook, phase, loop, runner, lock, managed, webhook, request, conflict,
          failed, overlap, begun, starts, conflicts>>

Actors == Requesters \cup {Main}
Rows == [at : {"new", "there", "deleted"}, disabled : BOOLEAN, manage : BOOLEAN,
         proxy : BOOLEAN, token : Tokens]
Steps == {"save", "toggle", "delete", "stop", "stopped", "unregister", "register",
          "poll", "read", "prepare", "start", "started"}

Gone == [pc |-> "gone", cancelled |-> FALSE]
Done == [todo |-> <<>>]
Modes(r) == <<r.manage, r.proxy>>
Active(r) == r.at = "there" /\ (r.manage \/ r.proxy)
Polling == {l \in LoopIds : loop[l].pc \in {"check", "asking", "processing"}}
Busy(a) == request[a].todo # <<>>
Restart == <<"read", "stop", "prepare">>

Init ==
  /\ row \in {r \in Rows : r.at # "deleted" /\ Modes(r) \in AllModes}
  /\ row.token = CHOOSE token \in Tokens : TRUE
  /\ hook \in BOOLEAN
  /\ phase = "down"
  /\ loop = [l \in LoopIds |-> Gone]
  /\ runner = NoLoop /\ lock = NoOne /\ managed = NoToken /\ webhook = FALSE
  /\ request = [a \in Actors |-> Done]
  /\ conflict = FALSE /\ failed = FALSE /\ overlap = FALSE
  /\ begun = 0 /\ starts = 0 /\ conflicts = 0

------------------------------------------------------------------------------
(* The process. *)

Launch(l) == /\ loop[l].pc = "gone"
             /\ loop' = [loop EXCEPT ![l] = [pc |-> "check", cancelled |-> FALSE]]
             /\ runner' = l
             /\ conflict' = FALSE

\* The process starts, with a bot named on the command line or not, which then has
\* an instance and polls or has a webhook; Start launches a runner unless the bot is
\* disabled, has a webhook or nothing to poll for, also when no instance can be made.
Boot ==
  /\ phase = "down" /\ starts < MaxStarts
  /\ phase' = "up" /\ starts' = starts + 1
  /\ \E cli \in {"none", "polling", "webhook"} :
       LET r == IF cli = "none" THEN row ELSE [row EXCEPT !.at = "there", !.manage = TRUE]
           polls == Active(r) /\ ~r.disabled /\ cli # "webhook"
       IN
       /\ cli # "none" => row.at # "deleted"
       /\ row' = r
       /\ hook' \in (IF cli = "polling" THEN {FALSE, hook} ELSE {hook \/ cli = "webhook"})
       /\ webhook' = (cli = "webhook")
       /\ managed' \in (IF cli # "none" THEN {r.token}
                        ELSE IF polls /\ r.manage THEN {NoToken, r.token} ELSE {NoToken})
       /\ failed' = (polls /\ r.manage /\ managed' = NoToken)
       /\ IF polls THEN \E l \in LoopIds : Launch(l) ELSE UNCHANGED <<loop, runner, conflict>>
  /\ UNCHANGED <<lock, request, overlap, begun, conflicts>>

Forgotten ==
  /\ phase' = "down"
  /\ loop' = [l \in LoopIds |-> Gone]
  /\ runner' = NoLoop /\ lock' = NoOne /\ managed' = NoToken /\ webhook' = FALSE
  /\ request' = [a \in Actors |-> Done]
  /\ conflict' = FALSE /\ failed' = FALSE /\ overlap' = FALSE
  /\ UNCHANGED <<rowVars, counters>>

Crash == phase # "down" /\ Forgotten

\* A signal: the server takes no more requests, and after they are answered, or
\* fifteen seconds, main stops the runners and the process ends.
Shutdown ==
  /\ phase = "up"
  /\ phase' = "stopping"
  /\ begun < MaxRequests /\ begun' = begun + 1
  /\ request' = [request EXCEPT ![Main] = [todo |-> <<"stop">>, row |-> row, waits |-> NoLoop]]
  /\ UNCHANGED <<rowVars, loop, runner, lock, managed, webhook, conflict, failed, overlap, starts, conflicts>>

Exit == phase = "stopping" /\ ~Busy(Main) /\ Forgotten

------------------------------------------------------------------------------
(* The poll loop. *)

Turn(l, pc) == loop' = [loop EXCEPT ![l].pc = pc]
Quiet == UNCHANGED <<rowVars, phase, lock, managed, webhook, request, failed, overlap, begun, starts>>

\* A round begins with the row as it is now.
Check(l) ==
  /\ loop[l].pc = "check"
  /\ Turn(l, IF loop[l].cancelled \/ ~Active(row) THEN "returning" ELSE "asking")
  /\ Quiet /\ UNCHANGED <<runner, conflict, conflicts>>

\* Telegram answers getUpdates, refuses it because somebody else gets the updates,
\* or fails; a cancelled call fails at once.
Answer(l) ==
  /\ loop[l].pc = "asking"
  /\ \/ loop[l].cancelled /\ Turn(l, "returning") /\ UNCHANGED <<conflict, conflicts>>
     \/ ~hook /\ Turn(l, "processing") /\ UNCHANGED <<conflict, conflicts>>
     \/ Turn(l, "check") /\ UNCHANGED <<conflict, conflicts>>
     \/ /\ hook \/ conflicts < MaxConflicts
        /\ conflicts' = IF hook THEN conflicts ELSE conflicts + 1
        /\ conflict' = TRUE
        /\ Turn(l, "returning")
  /\ Quiet /\ UNCHANGED runner

\* Updates are processed whether or not the loop is cancelled meanwhile.
Processed(l) ==
  /\ loop[l].pc = "processing"
  /\ Turn(l, "check")
  /\ Quiet /\ UNCHANGED <<runner, conflict, conflicts>>

\* Mutant: only a loop that is still registered tells that it is done.
ReturnUnheard(l) ==
  /\ loop[l].pc = "returning" /\ runner = l
  /\ runner' = NoLoop
  /\ Turn(l, "closing")
  /\ Quiet /\ UNCHANGED <<conflict, conflicts>>

\* The loop has returned: it takes itself off the runners if it is still there ...
Return(l) ==
  /\ loop[l].pc = "returning"
  /\ runner' = IF runner = l THEN NoLoop ELSE runner
  /\ Turn(l, "closing")
  /\ Quiet /\ UNCHANGED <<conflict, conflicts>>

\* ... and tells those who wait for it.
Close(l) ==
  /\ loop[l].pc = "closing"
  /\ loop' = [loop EXCEPT ![l] = Gone]
  /\ Quiet /\ UNCHANGED <<runner, conflict, conflicts>>

------------------------------------------------------------------------------
(* Requests. *)

\* A request that makes the instance anew and starts a runner if there should be one.
Renews(todo) == {"unregister", "prepare"} \subseteq Range(todo) \/ "start" \in Range(todo)

\* A request begins with the row it reads and what it has to do about it.
Begin(a, todo, read) ==
  /\ phase = "up" /\ ~Busy(a)
  /\ begun < MaxRequests /\ begun' = begun + 1
  /\ request' = [request EXCEPT ![a] =
       IF todo = <<>> THEN Done ELSE [todo |-> todo, row |-> read, waits |-> NoLoop]]
  /\ overlap' = \/ \E b \in Actors : Busy(b)
                \/ overlap /\ ~Renews(todo)
  /\ UNCHANGED <<phase, loop, runner, lock, webhook, conflict, starts, conflicts>>

Unchanged == UNCHANGED <<row, hook, managed, failed>>
Renewed(r) == IF r.token = row.token THEN <<>> ELSE <<"stop", "unregister">>

\* handleBotUpdate: modes and token are replaced by those of the request.
HandleBotUpdate(a) ==
  /\ row.at = "there"
  /\ \E r \in {x \in Rows : x.at = "there" /\ x.disabled = row.disabled /\ Modes(x) \in AllModes} :
       Begin(a, <<"save">> \o Renewed(r) \o Restart, r)
  /\ Unchanged

\* The intercepted setWebhook and deleteWebhook: proxying is switched on or off,
\* everything else is written back as it was read.
InterceptWebhook(a) ==
  /\ row.at = "there"
  /\ \E proxy \in BOOLEAN :
       Begin(a, <<"save", "poll">> \o Restart, [row EXCEPT !.proxy = proxy])
  /\ Unchanged

HandleToggleDisabled(a) ==
  /\ row.at = "there"
  /\ Begin(a, <<"toggle">> \o Restart, [row EXCEPT !.disabled = ~row.disabled])
  /\ Unchanged

HandleBotDelete(a) ==
  /\ row.at = "there"
  /\ Begin(a, <<"delete", "stop", "unregister">>, row)
  /\ Unchanged

\* The token of the account is rotated, or only its name changed.
RotateBotAccount(a) ==
  /\ row.at = "there"
  /\ \E token \in Tokens : row' = [row EXCEPT !.token = token]
  /\ Begin(a, <<"stop", "unregister">> \o Restart, row')
  /\ UNCHANGED <<hook, managed, failed>>

\* handleBotAdd: a webhook is deleted, then the row is made, then an instance, and
\* without one the bot is left as it is.
HandleBotAdd(a) ==
  /\ row.at = "new"
  /\ \E r \in {x \in Rows : x.at = "there" /\ ~x.disabled /\ Modes(x) \in AllModes}, made \in BOOLEAN :
       /\ row' = r
       /\ failed' = (r.manage /\ ~made)
       /\ Begin(a, IF failed' \/ ~Active(r) THEN <<>>
                   ELSE (IF r.manage THEN <<"register">> ELSE <<>>) \o Restart, r)
       /\ hook' = (hook /\ ~Active(r))
  /\ UNCHANGED managed

\* handleBusinessRouteSetup: an instance is made first, then a row, or the row with
\* its token is enabled, and ActivateManagedBot starts the runner.
HandleBusinessRouteSetup(a) ==
  /\ row.at # "deleted"
  /\ row' = [row EXCEPT !.at = "there", !.manage = TRUE, !.disabled = FALSE]
  /\ Begin(a, <<"register", "poll", "start">>, row')
  /\ failed' = FALSE
  /\ UNCHANGED <<hook, managed>>

\* handleConfigRestore: the row is made from the snapshot; the same snapshot again
\* only starts what should run and does not.
HandleConfigRestore(a) ==
  /\ \/ row.at = "new" /\ row' \in {x \in Rows : x.at = "there" /\ Modes(x) \in AllModes}
     \/ /\ Active(row) /\ ~row.disabled /\ runner = NoLoop /\ ~webhook
        /\ UNCHANGED row
  /\ Begin(a, Restart, row')
  /\ UNCHANGED <<hook, managed, failed>>

\* ensureManagedBot of a bridge: an instance is made of the row as it was read.
EnsureManagedBot(a) ==
  /\ managed = NoToken /\ row.at = "there"
  /\ Begin(a, <<"register">>, row)
  /\ Unchanged

------------------------------------------------------------------------------
(* The steps of requests. *)

Step(a, s) == Busy(a) /\ Head(request[a].todo) = s
Rest(a) == Tail(request[a].todo)
GoOn(a) == request' = [request EXCEPT ![a] =
             IF Rest(a) = <<>> THEN Done ELSE [@ EXCEPT !.todo = Rest(a), !.waits = NoLoop]]
Apart == UNCHANGED <<phase, overlap, conflict, counters>>
OffRow == UNCHANGED <<loop, runner, lock, managed, webhook, failed>> /\ Apart
OffRunner == UNCHANGED <<rowVars, managed, webhook, failed>> /\ Apart

\* UpdateBotConfig writes all but disabled, and nothing if the row is gone.
UpdateBotConfig(a) ==
  /\ Step(a, "save")
  /\ row' = [request[a].row EXCEPT !.at = row.at, !.disabled = row.disabled]
  /\ GoOn(a)
  /\ UNCHANGED hook /\ OffRow

SetBotDisabled(a) ==
  /\ Step(a, "toggle")
  /\ row' = [row EXCEPT !.disabled = request[a].row.disabled]
  /\ GoOn(a)
  /\ UNCHANGED hook /\ OffRow

\* DeleteBotConfig refuses while routes or destinations use the bot.
DeleteBotConfig(a) ==
  /\ Step(a, "delete")
  /\ \/ row' = [row EXCEPT !.at = "deleted"] /\ GoOn(a)
     \/ UNCHANGED row /\ request' = [request EXCEPT ![a] = Done]
  /\ UNCHANGED hook /\ OffRow

\* Mutant: the runner is cancelled, but left among the runners.
StopBotKeeps(a) ==
  /\ \E s \in {"stop", "start"} :
       /\ Step(a, s)
       /\ request' = [request EXCEPT ![a].waits = runner,
            ![a].todo = <<IF s = "stop" THEN "stopped" ELSE "started">> \o Rest(a)]
  /\ lock = NoOne /\ lock' = a
  /\ loop' = [l \in LoopIds |-> IF l = runner THEN [loop[l] EXCEPT !.cancelled = TRUE] ELSE loop[l]]
  /\ UNCHANGED runner /\ OffRunner

\* stopBot, under runnerMu: the runner is taken off and its loop cancelled ...
StopBot(a) ==
  /\ \E s \in {"stop", "start"} :
       /\ Step(a, s)
       /\ request' = [request EXCEPT ![a].waits = runner,
            ![a].todo = <<IF s = "stop" THEN "stopped" ELSE "started">> \o Rest(a)]
  /\ lock = NoOne /\ lock' = a
  /\ runner' = NoLoop
  /\ loop' = [l \in LoopIds |-> IF l = runner THEN [loop[l] EXCEPT !.cancelled = TRUE] ELSE loop[l]]
  /\ OffRunner

\* Mutant: the stopped loop is not waited for.
HasEndedUnseen(a) == Busy(a)

\* ... and the loop is waited for.
HasEnded(a) == LET l == request[a].waits IN l \in LoopIds => loop[l].pc = "gone"

\* StopBot, and StopAll, end there; startBot launches another loop.
Stopped(a) ==
  /\ Step(a, "stopped") /\ HasEnded(a)
  /\ GoOn(a)
  /\ lock' = NoOne
  /\ UNCHANGED <<loop, runner>> /\ OffRunner

Started(a) ==
  /\ Step(a, "started") /\ HasEnded(a)
  /\ \E l \in LoopIds : Launch(l)
  /\ GoOn(a)
  /\ lock' = NoOne
  /\ UNCHANGED <<rowVars, managed, webhook, failed, phase, overlap, counters>>

OffManaged == UNCHANGED <<rowVars, loop, runner, lock>> /\ Apart

RegisterManagedBot(a) ==
  /\ Step(a, "register")
  /\ managed' = request[a].row.token
  /\ GoOn(a)
  /\ UNCHANGED <<webhook, failed>> /\ OffManaged

UnregisterManagedBot(a) ==
  /\ Step(a, "unregister")
  /\ managed' = NoToken
  /\ GoOn(a)
  /\ UNCHANGED <<webhook, failed>> /\ OffManaged

ClearWebhookMode(a) ==
  /\ Step(a, "poll")
  /\ webhook' = FALSE
  /\ GoOn(a)
  /\ UNCHANGED <<managed, failed>> /\ OffManaged

\* RestartBot reads the row before anything else, and ends if there is none.
ReadConfig(a) ==
  /\ Step(a, "read")
  /\ request' = [request EXCEPT ![a] =
       IF row.at = "there" THEN [@ EXCEPT !.row = row, !.todo = Rest(a)] ELSE Done]
  /\ OffRow /\ UNCHANGED rowVars

\* Mutant: the instance of a disabled bot is unregistered, the runner started.
PrepareDisabled(a) ==
  LET r == request[a].row IN
  /\ Step(a, "prepare")
  /\ managed' = NoToken /\ UNCHANGED <<webhook, hook, failed>>
  /\ request' = [request EXCEPT ![a] = IF Active(r) THEN [@ EXCEPT !.todo = <<"start">>] ELSE Done]
  /\ UNCHANGED <<row, loop, runner, lock>> /\ Apart

\* After the runner was stopped: what the row that was read asks for.  Without an
\* instance that it needs RestartBot gives up; with a webhook it starts no runner.
Prepare(a) ==
  LET r == request[a].row IN
  /\ Step(a, "prepare")
  /\ \/ /\ r.disabled
        /\ managed' = NoToken /\ webhook' = FALSE /\ failed' = FALSE
        /\ request' = [request EXCEPT ![a] = Done]
        /\ UNCHANGED hook
     \/ /\ ~r.disabled /\ r.manage /\ managed = NoToken
        /\ failed' = TRUE
        /\ request' = [request EXCEPT ![a] = Done]
        /\ UNCHANGED <<managed, webhook, hook>>
     \/ /\ ~r.disabled
        /\ managed' = IF ~r.manage THEN NoToken ELSE IF managed = NoToken THEN r.token ELSE managed
        /\ failed' = FALSE
        /\ request' = [request EXCEPT ![a] =
             IF Active(r) /\ ~webhook THEN [@ EXCEPT !.todo = <<"start">>] ELSE Done]
        /\ hook' \in (IF Active(r) /\ ~webhook THEN {FALSE, hook} ELSE {hook})
        /\ UNCHANGED webhook
  /\ UNCHANGED <<row, loop, runner, lock>> /\ Apart

------------------------------------------------------------------------------
LoopStep(l) == Check(l) \/ Answer(l) \/ Processed(l) \/ Return(l) \/ Close(l)

RequestStep(a) ==
  \/ UpdateBotConfig(a) \/ SetBotDisabled(a) \/ DeleteBotConfig(a)
  \/ StopBot(a) \/ Stopped(a) \/ Started(a)
  \/ RegisterManagedBot(a) \/ UnregisterManagedBot(a) \/ ClearWebhookMode(a)
  \/ ReadConfig(a) \/ Prepare(a)

Request(a) ==
  \/ HandleBotUpdate(a) \/ InterceptWebhook(a) \/ HandleToggleDisabled(a)
  \/ HandleBotDelete(a) \/ RotateBotAccount(a) \/ HandleBotAdd(a)
  \/ HandleBusinessRouteSetup(a) \/ HandleConfigRestore(a) \/ EnsureManagedBot(a)

Next ==
  \/ Boot \/ Crash \/ Shutdown \/ Exit
  \/ \E l \in LoopIds : LoopStep(l)
  \/ \E a \in Requesters : Request(a)
  \/ \E a \in Actors : RequestStep(a)

\* Loops and requests run, also those that wait for runnerMu: there are finitely many.
Fairness ==
  /\ \A l \in LoopIds : WF_vars(LoopStep(l))
  /\ \A a \in Actors : WF_vars(RequestStep(a))

Spec == Init /\ [][Next]_vars /\ Fairness

------------------------------------------------------------------------------
(* Properties. *)

\* The registered runner has a loop that was not cancelled, and runnerMu is held by
\* exactly the one who waits for a loop to end.
TypeOK ==
  /\ row \in Rows /\ hook \in BOOLEAN /\ webhook \in BOOLEAN
  /\ managed \in Tokens \cup {NoToken}
  /\ runner \in LoopIds => ~loop[runner].cancelled /\ loop[runner].pc \notin {"closing", "gone"}
  /\ runner \in LoopIds \cup {NoLoop}
  /\ \A a \in Actors : /\ Range(request[a].todo) \subseteq Steps
                       /\ (lock = a) = (Step(a, "stopped") \/ Step(a, "started"))

\* One loop polls the bot at a time, however requests, shutdown and the loop's own
\* end interleave: two getUpdates at once would make Telegram refuse both, and two
\* loops would process an update twice.
OnePollLoop == Cardinality(Polling) <= 1

\* When the requests have ended, and none overlapped since the process started or since
\* one alone has renewed instance and runner, the runner is what the row says: nothing
\* polls a bot that is deleted, disabled or has nothing to poll for, another bot is
\* polled, unless it has a webhook, its instance could not be made, or Telegram refused
\* a poll of the newest loop for another consumer; and the instance speaks with the
\* row's token.
RunnerFollowsRow ==
  (phase = "up" /\ ~overlap /\ \A a \in Actors : ~Busy(a)) =>
    /\ row.at # "there" \/ row.disabled => Polling = {}
    /\ (Active(row) /\ ~row.disabled) => (runner # NoLoop \/ webhook \/ failed \/ conflict)
    /\ row.at = "there" /\ managed # NoToken => managed = row.token

\* The requests that were begun end, however they and a shutdown stop and start the
\* runner: none waits for a loop that nobody cancelled, or for runnerMu for ever.  And
\* a bot that was deleted is polled no more, also when a request that read its row
\* before has started a runner since.
StopsTakeEffect ==
  []<>((\A a \in Actors : ~Busy(a)) /\ (row.at = "deleted" => Polling = {}))
==============================================================================
