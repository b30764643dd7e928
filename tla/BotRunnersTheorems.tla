-------------------------- MODULE BotRunnersTheorems --------------------------
(***************************************************************************)
(* Theorems about the runners of a bot, for every number of requests,      *)
(* tokens and poll loops, and every bound.                                 *)
(***************************************************************************)
EXTENDS BotRunners, FiniteSetTheorems, SequenceTheorems, TLAPS

(* The invariant *)

\* What a poll loop may be doing, and the steps of a request that wait for no loop.
PCs == {"check", "asking", "processing", "returning", "closing", "gone"}
Plain == Steps \ {"stopped", "started"}

\* What a request in progress has left: only its next step may wait for a loop.
Plans == {p \in [todo : Seq(Steps), row : Rows, waits : LoopIds \cup {NoLoop}] :
            p.todo # <<>> => Tail(p.todo) \in Seq(Plain)}
Requests == [Actors -> {Done} \cup Plans]
Waits(p) == p.todo # <<>> /\ Head(p.todo) \in {"stopped", "started"}

\* The strengthening, in four parts.  Every variable has its type ...
Typed ==
  /\ row \in Rows /\ hook \in BOOLEAN /\ webhook \in BOOLEAN
  /\ managed \in Tokens \cup {NoToken}
  /\ loop \in [LoopIds -> [pc : PCs, cancelled : BOOLEAN]]
  /\ runner \in LoopIds \cup {NoLoop}
  /\ lock \in Actors \cup {NoOne}
  /\ request \in Requests

\* ... runnerMu is held by the one who waits for a loop, and then no runner is
\* registered, so that none can be replaced ...
Locked ==
  /\ \A a \in Actors : (lock = a) = Waits(request[a])
  /\ lock # NoOne => runner = NoLoop

\* ... a loop that polls is registered, or its end is being waited for ...
Accounted ==
  /\ runner \in LoopIds => ~loop[runner].cancelled /\ loop[runner].pc \notin {"closing", "gone"}
  /\ \A l \in Polling : l = runner \/ (lock \in Actors /\ request[lock].waits = l)

\* ... and nothing is left of a process that has ended; main does nothing until it
\* shuts down.
Restarted ==
  /\ phase = "down" => /\ Polling = {} /\ runner = NoLoop /\ lock = NoOne
                       /\ \A a \in Actors : ~Busy(a)
  /\ phase # "stopping" => ~Busy(Main)

RunnersInv == Typed /\ Locked /\ Accounted /\ Restarted

------------------------------------------------------------------------------
(* Plans *)

\* The steps that stop and restart a runner, before any of them waits.
LEMMA PlainSteps ==
  /\ <<>> \in Seq(Plain)
  /\ <<"stop", "unregister">> \in Seq(Plain)
  /\ <<"register">> \in Seq(Plain)
  /\ Restart \in Seq(Plain)
BY DEF Plain, Steps, Restart

\* What is left of steps that do not wait does not wait either.
LEMMA RestPlan ==
  ASSUME NEW s \in Seq(Plain)
  PROVE  /\ s \in Seq(Steps)
         /\ s # <<>> => Tail(s) \in Seq(Plain) /\ Head(s) \notin {"stopped", "started"}
BY DEF Plain

\* A step put before others is the next one, and the others are what is left.
LEMMA Prefixed ==
  ASSUME NEW x \in Steps, NEW s \in Seq(Plain)
  PROVE  /\ <<x>> \o s \in Seq(Steps) /\ <<x>> \o s # <<>>
         /\ Head(<<x>> \o s) = x /\ Tail(<<x>> \o s) = s
<1>1. s \in Seq(Steps)
  BY DEF Plain
<1>2. Tail(<<x>> \o s) = s
  OBVIOUS
<1> QED BY <1>1, <1>2

\* A request that is busy has a plan.
LEMMA BusyPlan ==
  ASSUME request \in Requests, NEW a \in Actors, Busy(a)
  PROVE  request[a] \in Plans /\ Rest(a) \in Seq(Plain)
BY DEF Requests, Busy, Done, Plans, Rest

\* A request waits for a loop when it is at the second half of stopBot or startBot.
LEMMA StepWaits ==
  ASSUME NEW a \in Actors
  PROVE  Waits(request[a]) = (Step(a, "stopped") \/ Step(a, "started"))
BY DEF Waits, Step, Busy

\* A request goes on with steps that wait for nothing.
Moves(a) ==
  /\ request' \in Requests
  /\ ~Waits(request'[a])
  /\ \A b \in Actors \ {a} : request'[b] = request[b]

\* A request whose plan is replaced by one that does not wait moves on.
LEMMA DoneMoves ==
  ASSUME request \in Requests, NEW a \in Actors, NEW p \in {Done} \cup Plans, ~Waits(p),
         request' = [request EXCEPT ![a] = p]
  PROVE  Moves(a)
BY DEF Requests, Moves

\* A request that is done waits for nothing.
LEMMA DoneIsNoPlan == Done \in {Done} \cup Plans /\ ~Waits(Done)
BY DEF Done, Waits

\* GoOn moves a request on: what follows a step never waits at once.
LEMMA GoOnMoves ==
  ASSUME request \in Requests, NEW a \in Actors, Busy(a), GoOn(a)
  PROVE  Moves(a)
<1> DEFINE p == IF Rest(a) = <<>> THEN Done
                ELSE [request[a] EXCEPT !.todo = Rest(a), !.waits = NoLoop]
<1>1. request[a] \in Plans
  BY BusyPlan
<1>2. Rest(a) \in Seq(Plain)
  BY BusyPlan
<1>3. p \in {Done} \cup Plans /\ ~Waits(p)
  <2>1. CASE Rest(a) = <<>>
    BY <2>1, DoneIsNoPlan
  <2>2. CASE Rest(a) # <<>>
    <3>1. /\ Rest(a) \in Seq(Steps) /\ Tail(Rest(a)) \in Seq(Plain)
          /\ Head(Rest(a)) \notin {"stopped", "started"}
      BY <1>2, <2>2, RestPlan
    <3>2. p \in Plans
      BY <1>1, <2>2, <3>1 DEF Plans
    <3>3. p.todo = Rest(a)
      BY <1>1, <2>2 DEF Plans
    <3> HIDE DEF p
    <3> QED BY <3>1, <3>2, <3>3 DEF Waits, Plain
  <2> QED BY <2>1, <2>2
<1>4. request' = [request EXCEPT ![a] = p]
  BY DEF GoOn
<1> HIDE DEF p
<1> QED BY <1>3, <1>4, DoneMoves

\* A request that begins does not wait at once.
LEMMA BeginMoves ==
  ASSUME request \in Requests, NEW a \in Actors, NEW todo \in Seq(Plain), NEW read \in Rows,
         Begin(a, todo, read)
  PROVE  Moves(a)
<1> DEFINE p == IF todo = <<>> THEN Done ELSE [todo |-> todo, row |-> read, waits |-> NoLoop]
<1>1. p \in {Done} \cup Plans /\ ~Waits(p)
  <2>1. CASE todo = <<>>
    BY <2>1, DoneIsNoPlan
  <2>2. CASE todo # <<>>
    BY <2>2, RestPlan DEF Plans, Waits, Plain
  <2> QED BY <2>1, <2>2
<1>2. request' = [request EXCEPT ![a] = p]
  BY DEF Begin
<1> HIDE DEF p
<1> QED BY <1>1, <1>2, DoneMoves

------------------------------------------------------------------------------
(* Requests keep the invariant *)

\* A request that is busy is one of a process that runs, and main is only busy when
\* it shuts down.
LEMMA BusyPhase ==
  ASSUME RunnersInv, NEW a \in Actors, Busy(a)
  PROVE  phase # "down" /\ (a = Main => phase = "stopping")
BY DEF RunnersInv, Restarted

\* A step that leaves loops, runner and lock alone keeps the invariant.
LEMMA KeepsRunner ==
  ASSUME RunnersInv, NEW a \in Actors, ~Waits(request[a]), Moves(a), Typed',
         phase # "down", a = Main => phase = "stopping",
         UNCHANGED <<loop, runner, lock, phase>>
  PROVE  RunnersInv'
<1>1. lock # a
  BY DEF RunnersInv, Locked
<1>2. Locked'
  BY <1>1 DEF RunnersInv, Locked, Moves, Waits
<1>3. Accounted'
  BY <1>1 DEF RunnersInv, Accounted, Moves, Polling
<1>4. Restarted'
  <2>1. Main \in Actors
    BY DEF Actors
  <2> QED BY <2>1 DEF RunnersInv, Restarted, Moves, Busy
<1> QED BY <1>2, <1>3, <1>4 DEF RunnersInv

\* A request that is at another step does not wait.
LEMMA StepsOnce ==
  ASSUME NEW a \in Actors, NEW s \in Plain, Step(a, s)
  PROVE  Busy(a) /\ ~Waits(request[a])
BY DEF Step, Waits, Plain

\* What a busy request does apart from starting and stopping.
LEMMA PlainStep ==
  ASSUME RunnersInv, NEW a \in Actors, NEW s \in Plain, Step(a, s), Moves(a), Typed',
         UNCHANGED <<loop, runner, lock, phase>>
  PROVE  RunnersInv'
BY StepsOnce, BusyPhase, KeepsRunner

\* A request begins, whatever it does to the row at once.
LEMMA BeginKeeps ==
  ASSUME RunnersInv, NEW a \in Requesters, NEW todo \in Seq(Plain), NEW read \in Rows,
         Begin(a, todo, read), row' \in Rows, hook' \in BOOLEAN, managed' = managed
  PROVE  RunnersInv'
<1>1. a \in Actors /\ a # Main
  BY RunnersAssumption DEF Actors
<1>2. Moves(a)
  BY <1>1, BeginMoves DEF RunnersInv, Typed
<1>3. phase = "up" /\ ~Waits(request[a])
  BY DEF Begin, Busy, Waits
<1>4. UNCHANGED <<phase, loop, runner, lock, webhook>>
  BY DEF Begin
<1>5. Typed'
  BY <1>2, <1>4 DEF RunnersInv, Typed, Moves
<1> QED BY <1>1, <1>2, <1>3, <1>4, <1>5, KeepsRunner

\* handleBotUpdate saves, may unregister the instance and restarts.
LEMMA UpdatePlan ==
  ASSUME NEW r \in Rows
  PROVE  <<"save">> \o Renewed(r) \o Restart \in Seq(Plain)
<1>1. <<"save">> \in Seq(Plain)
  BY DEF Plain, Steps
<1>2. Renewed(r) \in Seq(Plain)
  BY PlainSteps DEF Renewed
<1> QED BY <1>1, <1>2, PlainSteps

\* The plans of the other requests, which begin with steps that do not wait.
LEMMA RequestPlans ==
  /\ <<"save", "poll">> \o Restart \in Seq(Plain)
  /\ <<"toggle">> \o Restart \in Seq(Plain)
  /\ <<"delete", "stop", "unregister">> \in Seq(Plain)
  /\ <<"stop", "unregister">> \o Restart \in Seq(Plain)
  /\ <<"register">> \o Restart \in Seq(Plain)
  /\ <<>> \o Restart \in Seq(Plain)
  /\ <<"register", "poll", "start">> \in Seq(Plain)
<1>1. /\ <<"save", "poll">> \in Seq(Plain) /\ <<"toggle">> \in Seq(Plain)
      /\ <<"delete", "stop", "unregister">> \in Seq(Plain)
      /\ <<"register", "poll", "start">> \in Seq(Plain)
  BY DEF Plain, Steps
<1> QED BY <1>1, PlainSteps

\* Every handler that begins a request keeps the invariant.
LEMMA RequestKeeps ==
  ASSUME RunnersInv, NEW a \in Requesters, Request(a)
  PROVE  RunnersInv'
<1>1. row \in Rows /\ hook \in BOOLEAN
  BY DEF RunnersInv, Typed
<1>2. CASE HandleBotUpdate(a)
  <2>1. PICK r \in Rows : Begin(a, <<"save">> \o Renewed(r) \o Restart, r)
    BY <1>2 DEF HandleBotUpdate
  <2> QED BY <1>1, <1>2, <2>1, UpdatePlan, BeginKeeps DEF HandleBotUpdate, Unchanged
<1>3. CASE InterceptWebhook(a)
  <2>1. PICK proxy \in BOOLEAN : Begin(a, <<"save", "poll">> \o Restart, [row EXCEPT !.proxy = proxy])
    BY <1>3 DEF InterceptWebhook
  <2>2. [row EXCEPT !.proxy = proxy] \in Rows
    BY <1>1 DEF Rows
  <2> QED BY <1>1, <1>3, <2>1, <2>2, RequestPlans, BeginKeeps DEF InterceptWebhook, Unchanged
<1>4. CASE HandleToggleDisabled(a)
  <2>1. [row EXCEPT !.disabled = ~row.disabled] \in Rows
    BY <1>1 DEF Rows
  <2> QED BY <1>1, <1>4, <2>1, RequestPlans, BeginKeeps DEF HandleToggleDisabled, Unchanged
<1>5. CASE HandleBotDelete(a)
  BY <1>1, <1>5, RequestPlans, BeginKeeps DEF HandleBotDelete, Unchanged
<1>6. CASE RotateBotAccount(a)
  <2>1. row' \in Rows
    BY <1>1, <1>6 DEF RotateBotAccount, Rows
  <2> QED BY <1>1, <1>6, <2>1, RequestPlans, BeginKeeps DEF RotateBotAccount
<1>7. CASE HandleBotAdd(a)
  <2>1. PICK r \in Rows :
          /\ row' = r
          /\ Begin(a, IF failed' \/ ~Active(r) THEN <<>>
                      ELSE (IF r.manage THEN <<"register">> ELSE <<>>) \o Restart, r)
          /\ hook' = (hook /\ ~Active(r))
    BY <1>7 DEF HandleBotAdd
  <2>2. PICK todo \in Seq(Plain) : Begin(a, todo, r)
    BY <2>1, RequestPlans, PlainSteps
  <2> QED BY <1>7, <2>1, <2>2, BeginKeeps DEF HandleBotAdd
<1>8. CASE HandleBusinessRouteSetup(a)
  <2>1. row' \in Rows
    BY <1>1, <1>8 DEF HandleBusinessRouteSetup, Rows
  <2> QED BY <1>1, <1>8, <2>1, RequestPlans, BeginKeeps DEF HandleBusinessRouteSetup
<1>9. CASE HandleConfigRestore(a)
  <2>1. row' \in Rows
    BY <1>1, <1>9 DEF HandleConfigRestore
  <2> QED BY <1>1, <1>9, <2>1, PlainSteps, BeginKeeps DEF HandleConfigRestore
<1>10. CASE EnsureManagedBot(a)
  BY <1>1, <1>10, PlainSteps, BeginKeeps DEF EnsureManagedBot, Unchanged
<1> QED
  BY <1>2, <1>3, <1>4, <1>5, <1>6, <1>7, <1>8, <1>9, <1>10 DEF Request

\* The steps of a request that leave the runner alone.
LEMMA AsideKeeps ==
  ASSUME RunnersInv, NEW a \in Actors,
         \/ UpdateBotConfig(a) \/ SetBotDisabled(a) \/ DeleteBotConfig(a)
         \/ RegisterManagedBot(a) \/ UnregisterManagedBot(a) \/ ClearWebhookMode(a)
         \/ ReadConfig(a) \/ Prepare(a)
  PROVE  RunnersInv'
<1>1. /\ row \in Rows /\ hook \in BOOLEAN /\ managed \in Tokens \cup {NoToken}
      /\ request \in Requests
  BY DEF RunnersInv, Typed
<1>2. PICK s \in {"save", "toggle", "delete", "register", "unregister", "poll", "read", "prepare"} :
        Step(a, s)
  BY DEF UpdateBotConfig, SetBotDisabled, DeleteBotConfig, RegisterManagedBot,
         UnregisterManagedBot, ClearWebhookMode, ReadConfig, Prepare
<1>3. s \in Plain
  BY DEF Plain, Steps
<1>4. Busy(a) /\ request[a] \in Plans /\ Rest(a) \in Seq(Plain)
  BY <1>1, <1>2, BusyPlan DEF Step
<1>5. request[a].row \in Rows /\ request[a].row.token \in Tokens
  BY <1>4 DEF Plans, Rows
<1>6. UNCHANGED <<loop, runner, lock, phase>>
  BY DEF UpdateBotConfig, SetBotDisabled, DeleteBotConfig, RegisterManagedBot,
         UnregisterManagedBot, ClearWebhookMode, ReadConfig, Prepare,
         OffRow, OffManaged, Apart
<1>7. /\ hook' \in BOOLEAN /\ webhook' \in BOOLEAN /\ managed' \in Tokens \cup {NoToken}
  BY <1>5 DEF UpdateBotConfig, SetBotDisabled, DeleteBotConfig, RegisterManagedBot,
         UnregisterManagedBot, ClearWebhookMode, ReadConfig, Prepare,
         OffRow, OffManaged, Apart, rowVars, RunnersInv, Typed
<1>8. row' \in Rows
  BY <1>1, <1>5 DEF UpdateBotConfig, SetBotDisabled, DeleteBotConfig, RegisterManagedBot,
         UnregisterManagedBot, ClearWebhookMode, ReadConfig, Prepare,
         OffRow, OffManaged, rowVars, Rows
<1>9. Moves(a)
  <2>1. CASE GoOn(a)
    BY <1>1, <1>4, <2>1, GoOnMoves
  <2>2. CASE request' = [request EXCEPT ![a] = Done]
    BY <1>1, <2>2, DoneIsNoPlan, DoneMoves
  <2>3. CASE ReadConfig(a) /\ ~(request' = [request EXCEPT ![a] = Done])
    <3> DEFINE p == [request[a] EXCEPT !.row = row, !.todo = Rest(a)]
    <3>1. p \in Plans /\ ~Waits(p)
      BY <1>1, <1>4, RestPlan DEF Plans, Waits
    <3>2. request' = [request EXCEPT ![a] = p]
      BY <2>3 DEF ReadConfig
    <3> HIDE DEF p
    <3> QED BY <1>1, <3>1, <3>2, DoneMoves
  <2>4. CASE Prepare(a) /\ ~(request' = [request EXCEPT ![a] = Done])
    <3> DEFINE p == [request[a] EXCEPT !.todo = <<"start">>]
    <3>1. <<"start">> \in Seq(Plain)
      BY DEF Plain, Steps
    <3>2. p \in Plans /\ ~Waits(p)
      BY <1>1, <1>4, <3>1, RestPlan DEF Plans, Waits
    <3>3. request' = [request EXCEPT ![a] = p]
      BY <2>4 DEF Prepare
    <3> HIDE DEF p
    <3> QED BY <1>1, <3>2, <3>3, DoneMoves
  <2> QED
    BY <2>1, <2>2, <2>3, <2>4
    DEF UpdateBotConfig, SetBotDisabled, DeleteBotConfig, RegisterManagedBot,
        UnregisterManagedBot, ClearWebhookMode
<1>10. Typed'
  BY <1>6, <1>7, <1>8, <1>9 DEF RunnersInv, Typed, Moves
<1> QED BY <1>2, <1>3, <1>6, <1>9, <1>10, PlainStep

------------------------------------------------------------------------------
(* Starting and stopping *)

\* Whoever holds runnerMu waits for the loop of its plan.
LEMMA HolderPlan ==
  ASSUME RunnersInv, NEW a \in Actors, Waits(request[a])
  PROVE  /\ Busy(a) /\ request[a] \in Plans
         /\ lock = a /\ runner = NoLoop
         /\ \A b \in Actors \ {a} : ~Waits(request[b])
<1>1. Busy(a)
  BY DEF Waits, Busy
<1>2. a # NoOne
  BY RunnersAssumption DEF Actors
<1>3. request[a] \in Plans
  BY <1>1, BusyPlan DEF RunnersInv, Typed
<1> QED BY <1>1, <1>2, <1>3 DEF RunnersInv, Locked

\* A loop that has ended is not polling, so that nothing but the runner may be.
LEMMA NothingPolls ==
  ASSUME RunnersInv, NEW a \in Actors, Waits(request[a]), HasEnded(a)
  PROVE  Polling = {}
<1>1. lock = a /\ runner = NoLoop
  BY HolderPlan
<1>2. \A l \in Polling : l \in LoopIds /\ loop[l].pc # "gone"
  BY DEF Polling
<1>3. \A l \in Polling : request[a].waits = l
  BY <1>1, <1>2, RunnersAssumption DEF RunnersInv, Accounted
<1> QED BY <1>2, <1>3 DEF HasEnded

\* stopBot, first half: the loop that was registered is waited for, no other polls.
LEMMA StopBotKeepsInv ==
  ASSUME RunnersInv, NEW a \in Actors, StopBot(a)
  PROVE  RunnersInv'
<1>1. /\ request \in Requests /\ runner \in LoopIds \cup {NoLoop}
      /\ loop \in [LoopIds -> [pc : PCs, cancelled : BOOLEAN]]
  BY DEF RunnersInv, Typed
<1>2. PICK s \in {"stop", "start"} :
        /\ Step(a, s)
        /\ request' = [request EXCEPT ![a].waits = runner,
             ![a].todo = <<IF s = "stop" THEN "stopped" ELSE "started">> \o Rest(a)]
  BY DEF StopBot
<1>3. Busy(a) /\ request[a] \in Plans /\ Rest(a) \in Seq(Plain)
  BY <1>1, <1>2, BusyPlan DEF Step
<1> DEFINE x == IF s = "stop" THEN "stopped" ELSE "started"
           todo == <<x>> \o Rest(a)
           p == [request[a] EXCEPT !.waits = runner, !.todo = todo]
<1>4. todo \in Seq(Steps) /\ todo # <<>> /\ Head(todo) = x /\ Tail(todo) = Rest(a)
  BY <1>3, Prefixed DEF Steps
<1>5. request' = [request EXCEPT ![a] = p]
  BY <1>1, <1>2
<1>6. x \in {"stopped", "started"}
  OBVIOUS
<1> HIDE DEF x, todo
<1>7. p \in Plans /\ p.waits = runner /\ p.todo = todo
  BY <1>1, <1>3, <1>4 DEF Plans
<1> HIDE DEF p
<1>8. request' \in Requests /\ request'[a] = p /\ \A b \in Actors \ {a} : request'[b] = request[b]
  BY <1>1, <1>5, <1>7 DEF Requests
<1>9. Waits(p)
  BY <1>4, <1>6, <1>7 DEF Waits
<1>10. lock = NoOne /\ lock' = a /\ runner' = NoLoop
  BY DEF StopBot
<1>11. NoOne \notin Actors /\ NoLoop \notin LoopIds
  BY RunnersAssumption DEF Actors
<1>12. \A l \in LoopIds : /\ loop'[l].pc = loop[l].pc
                          /\ loop'[l] \in [pc : PCs, cancelled : BOOLEAN]
  BY <1>1 DEF StopBot
<1>13. Typed'
  <2>1. loop' \in [LoopIds -> [pc : PCs, cancelled : BOOLEAN]]
    BY <1>12 DEF StopBot
  <2> QED BY <1>8, <1>10, <2>1 DEF StopBot, OffRunner, rowVars, RunnersInv, Typed
<1>14. Locked'
  <2>1. \A b \in Actors : ~Waits(request[b])
    BY <1>10, <1>11 DEF RunnersInv, Locked, Waits
  <2>2. \A b \in Actors : Waits(request'[b]) <=> b = a
    BY <1>8, <1>9, <2>1
  <2>3. \A b \in Actors : Waits(request[b])' <=> b = a
    BY <2>2 DEF Waits
  <2> QED BY <1>10, <2>3 DEF Locked, Waits
<1>15. Accounted'
  <2>1. Polling' = Polling
    BY <1>12 DEF Polling
  <2>2. \A l \in Polling : l = runner
    BY <1>10, <1>11 DEF RunnersInv, Accounted
  <2> QED BY <1>7, <1>8, <1>10, <1>11, <2>1, <2>2 DEF Accounted
<1>16. Restarted'
  <2>1. phase' = phase
    BY DEF StopBot, OffRunner, Apart
  <2> QED BY <1>3, <1>8, <2>1, BusyPhase DEF RunnersInv, Restarted, Busy, Actors
<1> QED BY <1>13, <1>14, <1>15, <1>16 DEF RunnersInv

\* Once the loop has ended and runnerMu is free again, nobody waits.
LEMMA Freed ==
  ASSUME RunnersInv, NEW a \in Actors, Waits(request[a]), GoOn(a), lock' = NoOne, phase' = phase
  PROVE  /\ Locked' /\ request' \in Requests
         /\ Restarted' /\ phase # "down"
<1>1. Busy(a) /\ \A b \in Actors \ {a} : ~Waits(request[b])
  BY HolderPlan
<1>2. Moves(a)
  BY <1>1, GoOnMoves DEF RunnersInv, Typed
<1>3. NoOne \notin Actors
  BY RunnersAssumption DEF Actors
<1>4. Locked'
  <2>1. \A b \in Actors : ~Waits(request[b])'
    BY <1>1, <1>2 DEF Moves, Waits
  <2> QED BY <1>3, <2>1 DEF Locked, Waits
<1>5. Restarted' /\ phase # "down"
  BY <1>1, <1>2, BusyPhase DEF RunnersInv, Restarted, Busy, Moves, Actors
<1> QED BY <1>2, <1>4, <1>5 DEF Moves

\* StopBot, second half: when the loop has ended, none polls.
LEMMA StoppedKeeps ==
  ASSUME RunnersInv, NEW a \in Actors, Stopped(a)
  PROVE  RunnersInv'
<1>1. Waits(request[a])
  BY StepWaits DEF Stopped
<1>2. Locked' /\ request' \in Requests /\ Restarted'
  BY <1>1, Freed DEF Stopped, OffRunner, Apart
<1>3. Typed'
  BY <1>2 DEF Stopped, OffRunner, rowVars, RunnersInv, Typed
<1>4. Accounted'
  <2>1. Polling' = {}
    BY <1>1, NothingPolls DEF Stopped, Polling
  <2> QED BY <2>1 DEF Stopped, RunnersInv, Accounted
<1> QED BY <1>2, <1>3, <1>4 DEF RunnersInv

\* A loop that is launched while none polls is the only one.
LEMMA LaunchedAlone ==
  ASSUME Typed, Polling = {}, NEW l \in LoopIds, Launch(l)
  PROVE  /\ loop' \in [LoopIds -> [pc : PCs, cancelled : BOOLEAN]]
         /\ runner' \in LoopIds
         /\ Accounted'
<1>1. /\ loop'[l] = [pc |-> "check", cancelled |-> FALSE]
      /\ loop' \in [LoopIds -> [pc : PCs, cancelled : BOOLEAN]]
      /\ \A k \in LoopIds \ {l} : loop'[k] = loop[k]
      /\ runner' = l
  BY DEF Launch, Typed, PCs
<1>2. \A k \in Polling' : k = runner'
  BY <1>1 DEF Polling
<1> QED BY <1>1, <1>2 DEF Accounted

\* startBot, second half: when the loop has ended, the one that is launched polls alone.
LEMMA StartedKeeps ==
  ASSUME RunnersInv, NEW a \in Actors, Started(a)
  PROVE  RunnersInv'
<1>1. Waits(request[a])
  BY StepWaits DEF Started
<1>2. Locked' /\ request' \in Requests /\ Restarted'
  BY <1>1, Freed DEF Started
<1>3. PICK l \in LoopIds : Launch(l)
  BY DEF Started
<1>4. Polling = {}
  BY <1>1, NothingPolls DEF Started
<1>5. /\ loop' \in [LoopIds -> [pc : PCs, cancelled : BOOLEAN]]
      /\ runner' \in LoopIds /\ Accounted'
  BY <1>3, <1>4, LaunchedAlone DEF RunnersInv
<1>6. Typed'
  BY <1>2, <1>5 DEF Started, rowVars, RunnersInv, Typed
<1> QED BY <1>2, <1>5, <1>6 DEF RunnersInv

------------------------------------------------------------------------------
(* The loop and the process *)

\* A loop does not begin to poll, and is taken off the runners before it ends.
LEMMA LoopKeeps ==
  ASSUME RunnersInv, NEW l \in LoopIds, LoopStep(l)
  PROVE  RunnersInv'
<1> USE DEF LoopStep, Check, Answer, Processed, Return, Close, Turn, Quiet
<1>1. /\ UNCHANGED <<row, hook, phase, lock, managed, webhook, request>>
      /\ runner' \in {runner, NoLoop}
  BY DEF rowVars
<1>2. loop \in [LoopIds -> [pc : PCs, cancelled : BOOLEAN]]
  BY DEF RunnersInv, Typed
<1>3. /\ loop' \in [LoopIds -> [pc : PCs, cancelled : BOOLEAN]]
      /\ \A k \in LoopIds \ {l} : loop'[k] = loop[k]
  <2>1. CASE Close(l)
    BY <1>2, <2>1 DEF PCs, Gone
  <2>2. CASE ~Close(l)
    <3>1. PICK pc \in PCs : loop' = [loop EXCEPT ![l].pc = pc]
      BY <2>2 DEF PCs
    <3> QED BY <1>2, <3>1
  <2> QED BY <2>1, <2>2
<1>4. Polling' \subseteq Polling
  BY <1>2, <1>3 DEF Polling, Gone
<1>5. Typed'
  BY <1>1, <1>3 DEF RunnersInv, Typed
<1>6. Locked'
  BY <1>1 DEF RunnersInv, Locked, Waits
<1>7. Accounted'
  <2>1. runner' = l => ~loop'[l].cancelled /\ loop'[l].pc \notin {"closing", "gone"}
    <3>1. runner # l \/ (~loop[l].cancelled /\ loop[l].pc # "closing")
      BY DEF RunnersInv, Accounted
    <3> QED BY <1>2, <3>1, RunnersAssumption
  <2>2. runner' \in LoopIds => ~loop'[runner'].cancelled /\ loop'[runner'].pc \notin {"closing", "gone"}
    BY <1>1, <1>3, <2>1, RunnersAssumption DEF RunnersInv, Accounted
  <2>3. runner' = runner \/ (runner = l /\ l \notin Polling)
    BY DEF Polling
  <2> QED BY <1>1, <1>4, <2>2, <2>3 DEF RunnersInv, Accounted
<1>8. Restarted'
  BY <1>1, <1>4, RunnersAssumption DEF RunnersInv, Restarted, Busy
<1> QED BY <1>5, <1>6, <1>7, <1>8 DEF RunnersInv

\* The process starts: Start launches at most one loop, when none is left.
LEMMA BootKeeps ==
  ASSUME RunnersInv, Boot
  PROVE  RunnersInv'
<1>1. PICK cli \in {"none", "polling", "webhook"} :
        LET r == IF cli = "none" THEN row ELSE [row EXCEPT !.at = "there", !.manage = TRUE]
            polls == Active(r) /\ ~r.disabled /\ cli # "webhook"
        IN
        /\ row' = r
        /\ hook' \in (IF cli = "polling" THEN {FALSE, hook} ELSE {hook \/ cli = "webhook"})
        /\ webhook' = (cli = "webhook")
        /\ managed' \in (IF cli # "none" THEN {r.token}
                         ELSE IF polls /\ r.manage THEN {NoToken, r.token} ELSE {NoToken})
        /\ IF polls THEN \E l \in LoopIds : Launch(l) ELSE UNCHANGED <<loop, runner>>
  BY DEF Boot
<1>2. row \in Rows /\ hook \in BOOLEAN
  BY DEF RunnersInv, Typed
<1>3. row' \in Rows
  BY <1>1, <1>2 DEF Rows
<1>4. hook' \in BOOLEAN /\ webhook' \in BOOLEAN
  BY <1>1, <1>2
<1>5. managed' \in Tokens \cup {NoToken}
  <2>1. managed' \in {row'.token, NoToken}
    BY <1>1
  <2> QED BY <1>3, <2>1 DEF Rows
<1>6. phase = "down" /\ phase' = "up" /\ UNCHANGED <<lock, request>>
  BY DEF Boot
<1>7. Polling = {} /\ lock = NoOne
  BY <1>6 DEF RunnersInv, Restarted
<1>8. (\E l \in LoopIds : Launch(l)) \/ UNCHANGED <<loop, runner>>
  BY <1>1
<1>9. /\ loop' \in [LoopIds -> [pc : PCs, cancelled : BOOLEAN]]
      /\ runner' \in LoopIds \cup {NoLoop}
      /\ Accounted'
  <2>1. CASE \E l \in LoopIds : Launch(l)
    BY <1>7, <2>1, LaunchedAlone DEF RunnersInv
  <2>2. CASE UNCHANGED <<loop, runner>>
    BY <1>6, <1>7, <2>2 DEF RunnersInv, Typed, Accounted, Polling
  <2> QED BY <1>8, <2>1, <2>2
<1>10. Typed'
  BY <1>3, <1>4, <1>5, <1>6, <1>9 DEF RunnersInv, Typed
<1>11. Locked'
  BY <1>6, <1>7 DEF RunnersInv, Locked, Waits
<1>12. Restarted'
  <2>1. Main \in Actors
    BY DEF Actors
  <2> QED BY <1>6, <2>1 DEF RunnersInv, Restarted, Busy
<1> QED BY <1>9, <1>10, <1>11, <1>12 DEF RunnersInv

\* What Forgotten leaves, and Init begins with ...
Fresh ==
  /\ loop = [l \in LoopIds |-> Gone]
  /\ runner = NoLoop /\ lock = NoOne
  /\ request = [a \in Actors |-> Done]

\* ... has what the invariant asks of loops and requests.
Sound ==
  /\ loop \in [LoopIds -> [pc : PCs, cancelled : BOOLEAN]]
  /\ request \in Requests
  /\ Locked /\ Accounted /\ Restarted

\* A process that ends leaves no loop, no runner and no request.
LEMMA FreshProcess == Fresh => Sound
<1> SUFFICES ASSUME Fresh PROVE Sound
  OBVIOUS
<1> USE DEF Fresh
<1>1. loop \in [LoopIds -> [pc : PCs, cancelled : BOOLEAN]]
  BY DEF PCs, Gone
<1>2. request \in Requests /\ \A a \in Actors : ~Waits(request[a]) /\ ~Busy(a)
  BY DEF Requests, Waits, Busy, Done
<1>3. NoOne \notin Actors /\ NoLoop \notin LoopIds /\ Main \in Actors
  BY RunnersAssumption DEF Actors
<1>4. Polling = {}
  BY DEF Polling, Gone
<1>5. Locked
  BY <1>2, <1>3 DEF Locked, Waits
<1> QED BY <1>1, <1>2, <1>3, <1>4, <1>5 DEF Accounted, Restarted, Sound

\* A crash, or the end of the process after its shutdown.
LEMMA ForgottenKeeps ==
  ASSUME RunnersInv, Forgotten
  PROVE  RunnersInv'
<1>1. Fresh'
  BY DEF Forgotten, Fresh
<1>2. Sound'
  BY <1>1, FreshProcess, PTL
<1> QED BY <1>2 DEF Sound, Forgotten, rowVars, RunnersInv, Typed

\* A signal: main begins to stop the runners.
LEMMA ShutdownKeeps ==
  ASSUME RunnersInv, Shutdown
  PROVE  RunnersInv'
<1>1. request \in Requests /\ row \in Rows /\ Main \in Actors /\ ~Busy(Main)
  BY DEF RunnersInv, Typed, Restarted, Shutdown, Actors
<1> DEFINE p == [todo |-> <<"stop">>, row |-> row, waits |-> NoLoop]
<1>2. <<"stop">> \in Seq(Plain)
  BY DEF Plain, Steps
<1>3. p \in Plans /\ ~Waits(p)
  BY <1>1, <1>2, RestPlan DEF Plans, Waits
<1>4. request' = [request EXCEPT ![Main] = p]
  BY DEF Shutdown
<1> HIDE DEF p
<1>5. Moves(Main)
  BY <1>1, <1>3, <1>4, DoneMoves
<1>6. phase = "up" /\ phase' = "stopping" /\ UNCHANGED <<row, hook, loop, runner, lock, managed, webhook>>
  BY DEF Shutdown, rowVars
<1>7. lock # Main
  BY <1>1 DEF RunnersInv, Locked, Waits, Busy
<1>8. Typed'
  BY <1>5, <1>6 DEF RunnersInv, Typed, Moves
<1>9. Locked'
  BY <1>1, <1>5, <1>6, <1>7 DEF RunnersInv, Locked, Moves, Waits
<1>10. Accounted'
  BY <1>5, <1>6, <1>7 DEF RunnersInv, Accounted, Moves, Polling
<1>11. Restarted'
  BY <1>6 DEF Restarted
<1> QED BY <1>8, <1>9, <1>10, <1>11 DEF RunnersInv

\* The invariant holds before the first start of the process ...
LEMMA RunnersInit == Init => RunnersInv
<1> SUFFICES ASSUME Init PROVE RunnersInv
  OBVIOUS
<1>1. Sound
  BY FreshProcess DEF Init, Fresh
<1> QED BY <1>1 DEF Sound, Init, RunnersInv, Typed

\* ... every step keeps it ...
LEMMA RunnersNext == RunnersInv /\ [Next]_vars => RunnersInv'
<1> SUFFICES ASSUME RunnersInv, [Next]_vars PROVE RunnersInv'
  OBVIOUS
<1>1. CASE Boot
  BY <1>1, BootKeeps
<1>2. CASE Crash \/ Exit
  BY <1>2, ForgottenKeeps DEF Crash, Exit
<1>3. CASE Shutdown
  BY <1>3, ShutdownKeeps
<1>4. ASSUME NEW l \in LoopIds, LoopStep(l) PROVE RunnersInv'
  BY <1>4, LoopKeeps
<1>5. ASSUME NEW a \in Requesters, Request(a) PROVE RunnersInv'
  BY <1>5, RequestKeeps
<1>6. ASSUME NEW a \in Actors, RequestStep(a) PROVE RunnersInv'
  BY <1>6, AsideKeeps, StopBotKeepsInv, StoppedKeeps, StartedKeeps DEF RequestStep
<1>7. CASE UNCHANGED vars
  BY <1>7 DEF vars, RunnersInv, Typed, Locked, Accounted, Restarted, Waits, Polling, Busy
<1> QED BY <1>1, <1>2, <1>3, <1>4, <1>5, <1>6, <1>7 DEF Next

\* ... and so it holds always.
LEMMA RunnersAlways == Spec => []RunnersInv
BY RunnersInit, RunnersNext, PTL DEF Spec

------------------------------------------------------------------------------
(* What the invariant implies *)

\* The strengthening implies the type invariant that TLC checks ...
LEMMA InvTypeOK == RunnersInv => TypeOK
<1> SUFFICES ASSUME RunnersInv PROVE TypeOK
  OBVIOUS
<1>1. \A a \in Actors : Range(request[a].todo) \subseteq Steps
  <2> TAKE a \in Actors
  <2>1. request[a] \in {Done} \cup Plans
    BY DEF RunnersInv, Typed, Requests
  <2>2. Done.todo \in Seq(Steps)
    BY DEF Done
  <2>3. \A p \in Plans : p.todo \in Seq(Steps)
    BY DEF Plans
  <2>4. request[a].todo \in Seq(Steps)
    BY <2>1, <2>2, <2>3
  <2> QED BY <2>4 DEF Range
<1>2. \A a \in Actors : (lock = a) = (Step(a, "stopped") \/ Step(a, "started"))
  BY StepWaits DEF RunnersInv, Locked, Waits, Step, Busy
<1> QED BY <1>1, <1>2 DEF RunnersInv, Typed, Accounted, TypeOK

\* ... and that the loop which polls is either the one registered or the one waited for.
LEMMA InvOnePollLoop == RunnersInv => OnePollLoop
<1> SUFFICES ASSUME RunnersInv PROVE OnePollLoop
  OBVIOUS
<1> DEFINE only == IF lock = NoOne THEN runner ELSE request[lock].waits
<1>1. \A l \in Polling : l = only
  BY RunnersAssumption DEF RunnersInv, Typed, Locked, Accounted, Polling, Actors
<1> HIDE DEF only
<1>2. Polling \subseteq {only}
  BY <1>1
<1>3. Polling = {} \/ Polling = {only}
  BY <1>2
<1>4. Cardinality(Polling) \in {0, 1}
  BY <1>3, FS_EmptySet, FS_Singleton
<1> QED BY <1>4 DEF OnePollLoop

\* Type correctness of the runners: the registered loop is live, and runnerMu is held
\* by exactly the request that waits inside stopBot or startBot.
THEOREM RunnersTyped == Spec => []TypeOK
BY RunnersAlways, InvTypeOK, PTL

\* At most one loop polls the bot, whatever requests, shutdown, crashes, restarts of the
\* process and the ends of the loop itself interleave: startBot launches a loop only
\* under runnerMu and after the one it cancelled has ended.
THEOREM OnePollLoopAlways == Spec => []OnePollLoop
BY RunnersAlways, InvOnePollLoop, PTL

------------------------------------------------------------------------------
(* What a request that runs alone leaves *)

\* Nothing polls without reason, and the runner that should be there is, and is not
\* about to leave unexplained.
Settled ==
  /\ (row.at # "there" \/ row.disabled) => Polling = {}
  /\ Active(row) /\ ~row.disabled =>
       \/ webhook \/ failed \/ conflict
       \/ (runner # NoLoop /\ loop[runner].pc # "returning")

\* The instance speaks with the row's token; a bot that is new has none.
Speaks ==
  managed = NoToken \/ row.at = "deleted" \/ (row.at = "there" /\ managed = row.token)

\* The steps that make the instance anew before the runner is restarted.
Renewing == <<"stop", "unregister">> \o Restart

\* What holds when a request that runs alone is at step x, with the steps rest after it
\* and the row r: what it will not do any more has been done, and what it will not
\* repair was right when it began.
Stage(x, rest, r) ==
  \/ x = "delete" /\ rest = <<"stop", "unregister">> /\ Settled /\ Speaks
  \/ x = "register" /\ rest = <<>> /\ Settled /\ row.at = "there" /\ r.token = row.token
  \/ x \in {"stop", "stopped"} /\ rest = <<"unregister">> /\ row.at = "deleted"
  \/ x = "unregister" /\ rest = <<>> /\ row.at = "deleted" /\ Polling = {}
  \/ x = "save" /\ rest = Renewing /\ row.at = "there"
  \/ /\ x = "save" /\ rest \in {Restart, <<"poll">> \o Restart}
     /\ row.at = "there" /\ r.token = row.token /\ Speaks
  \/ x \in {"poll", "toggle"} /\ rest = Restart /\ row.at = "there" /\ Speaks
  \/ x = "register" /\ rest = Restart /\ row.at = "there" /\ r.token = row.token
  \/ x \in {"stop", "stopped"} /\ rest = <<"unregister">> \o Restart
  \/ x = "unregister" /\ rest = Restart /\ (row.at # "there" => Polling = {})
  \/ x = "read" /\ rest = <<"stop", "prepare">> /\ Speaks /\ (row.at # "there" => Polling = {})
  \/ x \in {"stop", "stopped"} /\ rest = <<"prepare">> /\ row.at = "there" /\ r = row /\ Speaks
  \/ x = "prepare" /\ rest = <<>> /\ row.at = "there" /\ r = row /\ Speaks /\ Polling = {}
  \/ /\ x = "register" /\ rest = <<"poll", "start">>
     /\ Active(row) /\ ~row.disabled /\ r.token = row.token
  \/ x = "poll" /\ rest = <<"start">> /\ Active(row) /\ ~row.disabled /\ Speaks
  \/ x \in {"start", "started"} /\ rest = <<>> /\ Active(row) /\ ~row.disabled /\ Speaks

At(a) == Stage(Head(request[a].todo), Rest(a), request[a].row)
Idle(a) == ~Busy(a)
Alone(a) == \A b \in Actors \ {a} : Idle(b)

\* The invariant: as long as no requests have overlapped, the one that runs is at a
\* stage, and without one things are settled.
Followed ==
  phase = "up" /\ ~overlap =>
    /\ (\A a \in Actors : Idle(a)) => Settled /\ Speaks
    /\ \A a \in Actors : Busy(a) => Alone(a) /\ At(a)

\* What is needed to conclude it after a step of a.
LEMMA Concludes ==
  ASSUME NEW a \in Actors, Alone(a)', Idle(a)' => (Settled /\ Speaks)', Busy(a)' => At(a)'
  PROVE  Followed'
<1>1. \A b \in Actors : Busy(b)' => b = a
  BY DEF Alone, Idle
<1> QED BY <1>1 DEF Followed, Idle

------------------------------------------------------------------------------
(* The steps of the plans *)

\* The steps of the plans that are written out.
LEMMA Tails ==
  /\ Head(<<"stop", "unregister">>) = "stop" /\ Tail(<<"stop", "unregister">>) = <<"unregister">>
  /\ Head(<<"unregister">>) = "unregister" /\ Tail(<<"unregister">>) = <<>>
  /\ Head(<<"register">>) = "register" /\ Tail(<<"register">>) = <<>>
  /\ Head(Restart) = "read" /\ Tail(Restart) = <<"stop", "prepare">> /\ Restart # <<>>
  /\ Head(<<"stop", "prepare">>) = "stop" /\ Tail(<<"stop", "prepare">>) = <<"prepare">>
  /\ Head(<<"prepare">>) = "prepare" /\ Tail(<<"prepare">>) = <<>>
  /\ Head(<<"poll", "start">>) = "poll" /\ Tail(<<"poll", "start">>) = <<"start">>
  /\ Head(<<"start">>) = "start" /\ Tail(<<"start">>) = <<>>
  /\ Head(<<"delete", "stop", "unregister">>) = "delete"
  /\ Tail(<<"delete", "stop", "unregister">>) = <<"stop", "unregister">>
  /\ Head(<<"register", "poll", "start">>) = "register"
  /\ Tail(<<"register", "poll", "start">>) = <<"poll", "start">>
BY DEF Restart

\* Two steps put before others.
LEMMA PrefixedTwice ==
  ASSUME NEW x \in Steps, NEW y \in Steps, NEW s \in Seq(Steps)
  PROVE  <<x, y>> \o s = <<x>> \o (<<y>> \o s)
<1> DEFINE t == <<x, y>> \o s
           u == <<x>> \o (<<y>> \o s)
<1>1. t \in Seq(Steps) /\ u \in Seq(Steps)
  OBVIOUS
<1>2. Len(t) = Len(u)
  OBVIOUS
<1>3. \A i \in 1..Len(t) : t[i] = u[i]
  OBVIOUS
<1>4. t = u
  <2> HIDE DEF t, u
  <2> QED BY <1>1, <1>2, <1>3, SeqEqual
<1> QED BY <1>4

\* The steps of the plans that end with a restart.
LEMMA RestartTails ==
  /\ \A x \in {"save", "poll", "toggle", "register", "unregister"} :
       LET s == <<x>> \o Restart IN s # <<>> /\ Head(s) = x /\ Tail(s) = Restart
  /\ Renewing # <<>> /\ Head(Renewing) = "stop" /\ Tail(Renewing) = <<"unregister">> \o Restart
  /\ LET s == <<"save">> \o Renewing IN s # <<>> /\ Head(s) = "save" /\ Tail(s) = Renewing
  /\ LET s == <<"save", "poll">> \o Restart IN
       s # <<>> /\ Head(s) = "save" /\ Tail(s) = <<"poll">> \o Restart
  /\ Renewing \in Seq(Plain)
<1>1. Restart \in Seq(Plain) /\ <<"stop", "unregister">> \in Seq(Plain)
  BY PlainSteps
<1>2. Restart \in Seq(Steps)
  BY <1>1, RestPlan
<1>3. Renewing \in Seq(Plain)
  BY <1>1 DEF Renewing
<1>4. /\ Renewing = <<"stop">> \o (<<"unregister">> \o Restart)
      /\ <<"save", "poll">> \o Restart = <<"save">> \o (<<"poll">> \o Restart)
  <2>1. {"stop", "unregister", "save", "poll"} \subseteq Steps
    BY DEF Steps
  <2>2. <<"stop", "unregister">> \o Restart = <<"stop">> \o (<<"unregister">> \o Restart)
    BY <1>2, <2>1, PrefixedTwice
  <2>3. <<"save", "poll">> \o Restart = <<"save">> \o (<<"poll">> \o Restart)
    BY <1>2, <2>1, PrefixedTwice
  <2> QED BY <2>2, <2>3 DEF Renewing
<1>5. /\ <<"unregister">> \o Restart \in Seq(Plain) /\ <<"poll">> \o Restart \in Seq(Plain)
  BY <1>1 DEF Plain, Steps
<1>6. {"save", "poll", "toggle", "register", "unregister", "stop"} \subseteq Steps
  BY DEF Steps
<1>7. \A x \in {"save", "poll", "toggle", "register", "unregister"} :
        LET s == <<x>> \o Restart IN s # <<>> /\ Head(s) = x /\ Tail(s) = Restart
  BY <1>1, <1>6, Prefixed
<1>8. Renewing # <<>> /\ Head(Renewing) = "stop" /\ Tail(Renewing) = <<"unregister">> \o Restart
  BY <1>4, <1>5, <1>6, Prefixed
<1>9. LET s == <<"save">> \o Renewing IN s # <<>> /\ Head(s) = "save" /\ Tail(s) = Renewing
  BY <1>3, <1>6, Prefixed
<1>10. LET s == <<"save", "poll">> \o Restart IN
         s # <<>> /\ Head(s) = "save" /\ Tail(s) = <<"poll">> \o Restart
  BY <1>4, <1>5, <1>6, Prefixed
<1> QED BY <1>3, <1>7, <1>8, <1>9, <1>10

\* handleBotUpdate renews the instance exactly when the token changes.
LEMMA UpdateSteps ==
  ASSUME NEW r \in Rows
  PROVE  <<"save">> \o Renewed(r) \o Restart =
           IF r.token = row.token THEN <<"save">> \o Restart ELSE <<"save">> \o Renewing
<1>1. <<"save">> \in Seq(Steps) /\ <<>> \in Seq(Steps) /\ Restart \in Seq(Steps)
      /\ <<"stop", "unregister">> \in Seq(Steps)
  BY DEF Steps, Restart
<1>2. <<"save">> \o <<>> = <<"save">>
  BY <1>1, ConcatEmptySeq
<1>3. (<<"save">> \o <<"stop", "unregister">>) \o Restart = <<"save">> \o Renewing
  BY <1>1, ConcatAssociative DEF Renewing
<1> QED BY <1>2, <1>3 DEF Renewed

\* The plans that do not make the instance anew.
LEMMA NotRenewing ==
  /\ ~Renews(<<"delete", "stop", "unregister">>)
  /\ ~Renews(<<"register">>) /\ ~Renews(<<>>) /\ ~Renews(Restart)
  /\ ~Renews(<<"save">> \o Restart) /\ ~Renews(<<"save", "poll">> \o Restart)
  /\ ~Renews(<<"toggle">> \o Restart) /\ ~Renews(<<"register">> \o Restart)
<1> DEFINE Kept == Steps \ {"unregister", "start"}
<1>1. \A s \in Seq(Kept) : ~Renews(s)
  BY DEF Renews, Range
<1>2. /\ <<"register">> \in Seq(Kept) /\ <<>> \in Seq(Kept) /\ Restart \in Seq(Kept)
      /\ <<"save">> \in Seq(Kept) /\ <<"save", "poll">> \in Seq(Kept)
      /\ <<"toggle">> \in Seq(Kept)
  BY DEF Steps, Restart
<1>3. /\ <<"save">> \o Restart \in Seq(Kept) /\ <<"save", "poll">> \o Restart \in Seq(Kept)
      /\ <<"toggle">> \o Restart \in Seq(Kept) /\ <<"register">> \o Restart \in Seq(Kept)
  <2> HIDE DEF Kept
  <2> QED BY <1>2
<1>4. ~Renews(<<"delete", "stop", "unregister">>)
  BY DEF Renews, Range
<1> QED BY <1>1, <1>2, <1>3, <1>4


------------------------------------------------------------------------------
(* The steps of a request that runs alone *)

\* A request that goes on is at the next of its steps, or done.
LEMMA GoneOn ==
  ASSUME request \in Requests, NEW a \in Actors, Busy(a), GoOn(a)
  PROVE  /\ \A b \in Actors \ {a} : request'[b] = request[b]
         /\ Rest(a) = <<>> => Idle(a)'
         /\ Rest(a) # <<>> => /\ Busy(a)' /\ request'[a].todo = Rest(a)
                              /\ request'[a].row = request[a].row
<1>1. request[a] \in Plans
  BY BusyPlan
<1>2. request'[a] = IF Rest(a) = <<>> THEN Done
                    ELSE [request[a] EXCEPT !.todo = Rest(a), !.waits = NoLoop]
  BY DEF GoOn, Requests
<1>3. CASE Rest(a) = <<>>
  BY <1>2, <1>3 DEF GoOn, Requests, Idle, Busy, Done
<1>4. CASE Rest(a) # <<>>
  BY <1>1, <1>2, <1>4 DEF GoOn, Requests, Busy, Plans
<1> QED BY <1>3, <1>4

\* A request that is done is idle.
LEMMA GoneIdle ==
  ASSUME request \in Requests, NEW a \in Actors, request' = [request EXCEPT ![a] = Done]
  PROVE  Idle(a)' /\ \A b \in Actors \ {a} : request'[b] = request[b]
BY DEF Requests, Idle, Busy, Done

\* What follows of a step of a alone.
Leads(a) ==
  /\ \A b \in Actors \ {a} : request'[b] = request[b]
  /\ Idle(a)' => (Settled /\ Speaks)'
  /\ Busy(a)' => At(a)'

\* UpdateBotConfig writes the row of the request; its token is the instance's, or the
\* instance is made anew.
LEMMA SaveLeads ==
  ASSUME RunnersInv, NEW a \in Actors, At(a), UpdateBotConfig(a)
  PROVE  Leads(a)
<1>1. Busy(a) /\ Head(request[a].todo) = "save" /\ request[a] \in Plans /\ request \in Requests
  BY BusyPlan DEF UpdateBotConfig, Step, RunnersInv, Typed
<1>2. /\ row.at = "there"
      /\ \/ Rest(a) = Renewing
         \/ /\ Rest(a) \in {Restart, <<"poll">> \o Restart}
            /\ request[a].row.token = row.token /\ Speaks
  BY <1>1 DEF At, Stage
<1>3. Rest(a) # <<>>
  BY <1>2, Tails, RestartTails
<1>4. /\ \A b \in Actors \ {a} : request'[b] = request[b]
      /\ Busy(a)' /\ request'[a].todo = Rest(a) /\ request'[a].row = request[a].row
  BY <1>1, <1>3, GoneOn DEF UpdateBotConfig
<1>5. row'.at = "there" /\ row'.token = request[a].row.token /\ managed' = managed
  BY <1>1, <1>2 DEF UpdateBotConfig, OffRow, Plans, Rows
<1>6. At(a)'
  <2>1. CASE Rest(a) = Renewing
    BY <1>4, <2>1, RestartTails DEF At, Stage, Rest
  <2>2. CASE Rest(a) \in {Restart, <<"poll">> \o Restart} /\ request[a].row.token = row.token /\ Speaks
    <3>1. Speaks'
      BY <1>2, <1>5, <2>2 DEF Speaks
    <3>2. CASE Rest(a) = Restart
      BY <1>4, <1>5, <3>1, <3>2, Tails DEF At, Stage, Rest
    <3>3. CASE Rest(a) = <<"poll">> \o Restart
      BY <1>4, <1>5, <3>1, <3>3, RestartTails DEF At, Stage, Rest
    <3> QED BY <2>2, <3>2, <3>3
  <2> QED BY <1>2, <2>1, <2>2
<1> QED BY <1>4, <1>6 DEF Leads, Idle

\* SetBotDisabled changes what the restart after it will look at.
LEMMA ToggleLeads ==
  ASSUME RunnersInv, NEW a \in Actors, At(a), SetBotDisabled(a)
  PROVE  Leads(a)
<1>1. Busy(a) /\ Head(request[a].todo) = "toggle" /\ request \in Requests /\ row \in Rows
  BY DEF SetBotDisabled, Step, RunnersInv, Typed
<1>2. row.at = "there" /\ Rest(a) = Restart /\ Speaks
  BY <1>1 DEF At, Stage
<1>3. /\ \A b \in Actors \ {a} : request'[b] = request[b]
      /\ Busy(a)' /\ request'[a].todo = Restart
  BY <1>1, <1>2, GoneOn, Tails DEF SetBotDisabled
<1>4. row'.at = "there" /\ row'.token = row.token /\ managed' = managed
  BY <1>1, <1>2 DEF SetBotDisabled, OffRow, Rows
<1>5. At(a)'
  BY <1>2, <1>3, <1>4, Tails DEF At, Stage, Rest, Speaks
<1> QED BY <1>3, <1>5 DEF Leads, Idle

\* DeleteBotConfig removes the row, or refuses and leaves things settled.
LEMMA DeleteLeads ==
  ASSUME RunnersInv, NEW a \in Actors, At(a), DeleteBotConfig(a)
  PROVE  Leads(a)
<1>1. Busy(a) /\ Head(request[a].todo) = "delete" /\ request \in Requests /\ row \in Rows
  BY DEF DeleteBotConfig, Step, RunnersInv, Typed
<1>2. Rest(a) = <<"stop", "unregister">> /\ Settled /\ Speaks
  BY <1>1 DEF At, Stage
<1>3. UNCHANGED <<loop, runner, managed, webhook, failed, conflict>>
  BY DEF DeleteBotConfig, OffRow, Apart
<1>4. CASE row' = [row EXCEPT !.at = "deleted"] /\ GoOn(a)
  <2>1. /\ \A b \in Actors \ {a} : request'[b] = request[b]
        /\ Busy(a)' /\ request'[a].todo = <<"stop", "unregister">>
    BY <1>1, <1>2, <1>4, GoneOn
  <2>2. row'.at = "deleted"
    BY <1>1, <1>4 DEF Rows
  <2>3. At(a)'
    BY <2>1, <2>2, Tails DEF At, Stage, Rest
  <2> QED BY <2>1, <2>3 DEF Leads, Idle
<1>5. CASE UNCHANGED row /\ request' = [request EXCEPT ![a] = Done]
  <2>1. (Settled /\ Speaks)'
    BY <1>2, <1>3, <1>5 DEF Settled, Speaks, Polling, Active
  <2> QED BY <1>1, <1>5, <2>1, GoneIdle DEF Leads, Idle
<1> QED BY <1>4, <1>5 DEF DeleteBotConfig

\* The first half of stopBot promises nothing about the loop yet.
LEMMA StopLeads ==
  ASSUME RunnersInv, NEW a \in Actors, At(a), StopBot(a)
  PROVE  Leads(a)
<1>1. request \in Requests
  BY DEF RunnersInv, Typed
<1>2. PICK s \in {"stop", "start"} :
        /\ Step(a, s)
        /\ request' = [request EXCEPT ![a].waits = runner,
             ![a].todo = <<IF s = "stop" THEN "stopped" ELSE "started">> \o Rest(a)]
  BY DEF StopBot
<1>3. Busy(a) /\ request[a] \in Plans /\ Rest(a) \in Seq(Plain)
  BY <1>1, <1>2, BusyPlan DEF Step
<1> DEFINE x == IF s = "stop" THEN "stopped" ELSE "started"
           todo == <<x>> \o Rest(a)
<1>4. todo # <<>> /\ Head(todo) = x /\ Tail(todo) = Rest(a)
  BY <1>3, Prefixed DEF Steps
<1>5. /\ \A b \in Actors \ {a} : request'[b] = request[b]
      /\ request'[a].todo = todo /\ request'[a].row = request[a].row
  BY <1>1, <1>2, <1>3 DEF Requests, Plans
<1>6. Head(request[a].todo) = s
  BY <1>2 DEF Step
<1>7. x \in {"stopped", "started"} /\ (x = "stopped" <=> s = "stop")
  BY <1>2
<1>8. UNCHANGED <<row, managed>>
  BY DEF StopBot, OffRunner, rowVars
<1> HIDE DEF todo, x
<1>9. Busy(a)' /\ Head(request'[a].todo) = x /\ Tail(request'[a].todo) = Rest(a)
  BY <1>4, <1>5 DEF Busy
<1>10. At(a)'
  BY <1>2, <1>5, <1>6, <1>7, <1>8, <1>9 DEF At, Stage, Rest, Speaks, Active
<1> QED BY <1>5, <1>9, <1>10 DEF Leads, Idle

\* After its second half nothing polls.
LEMMA StoppedLeads ==
  ASSUME RunnersInv, NEW a \in Actors, At(a), Stopped(a)
  PROVE  Leads(a)
<1>1. Busy(a) /\ Head(request[a].todo) = "stopped" /\ request \in Requests
  BY DEF Stopped, Step, RunnersInv, Typed
<1>2. Polling = {}
  BY StepWaits, NothingPolls DEF Stopped
<1>3. UNCHANGED <<row, managed, loop>>
  BY DEF Stopped, OffRunner, rowVars
<1>4. Polling' = {}
  BY <1>2, <1>3 DEF Polling
<1>5. \/ Rest(a) = <<"unregister">> /\ row.at = "deleted"
      \/ Rest(a) = <<"unregister">> \o Restart
      \/ Rest(a) = <<"prepare">> /\ row.at = "there" /\ request[a].row = row /\ Speaks
  BY <1>1 DEF At, Stage
<1>6. Rest(a) # <<>>
  <2>1. <<"unregister">> \o Restart # <<>>
    BY RestartTails
  <2> QED BY <1>5, <2>1
<1>7. /\ \A b \in Actors \ {a} : request'[b] = request[b]
      /\ Busy(a)' /\ request'[a].todo = Rest(a) /\ request'[a].row = request[a].row
  BY <1>1, <1>6, GoneOn DEF Stopped
<1>8. At(a)'
  <2>1. CASE Rest(a) = <<"unregister">> /\ row.at = "deleted"
    BY <1>3, <1>4, <1>7, <2>1, Tails DEF At, Stage, Rest
  <2>2. CASE Rest(a) = <<"unregister">> \o Restart
    BY <1>4, <1>7, <2>2, RestartTails DEF At, Stage, Rest
  <2>3. CASE Rest(a) = <<"prepare">> /\ row.at = "there" /\ request[a].row = row /\ Speaks
    BY <1>3, <1>4, <1>7, <2>3, Tails DEF At, Stage, Rest, Speaks
  <2> QED BY <1>5, <2>1, <2>2, <2>3
<1> QED BY <1>7, <1>8 DEF Leads, Idle

\* startBot launches a loop for a row that asks for one.
LEMMA StartedLeads ==
  ASSUME RunnersInv, NEW a \in Actors, At(a), Started(a)
  PROVE  Leads(a)
<1>1. Busy(a) /\ Head(request[a].todo) = "started" /\ request \in Requests
  BY DEF Started, Step, RunnersInv, Typed
<1>2. Rest(a) = <<>> /\ Active(row) /\ ~row.disabled /\ Speaks
  BY <1>1 DEF At, Stage
<1>3. UNCHANGED <<row, managed>>
  BY DEF Started, rowVars
<1>4. PICK l \in LoopIds : Launch(l)
  BY DEF Started
<1>5. runner' = l /\ loop'[l].pc = "check" /\ l # NoLoop
  BY <1>4, RunnersAssumption DEF Launch, RunnersInv, Typed
<1>6. (Settled /\ Speaks)'
  BY <1>2, <1>3, <1>5 DEF Settled, Speaks, Active
<1> QED BY <1>1, <1>2, <1>6, GoneOn DEF Started, Leads, Idle

\* The instance that is registered has the token of the row.
LEMMA RegisterLeads ==
  ASSUME RunnersInv, NEW a \in Actors, At(a), RegisterManagedBot(a)
  PROVE  Leads(a)
<1>1. Busy(a) /\ Head(request[a].todo) = "register" /\ request \in Requests
  BY DEF RegisterManagedBot, Step, RunnersInv, Typed
<1>2. /\ UNCHANGED <<row, loop, runner, webhook, failed, conflict>>
      /\ managed' = request[a].row.token
  BY DEF RegisterManagedBot, OffManaged, Apart, rowVars
<1>3. /\ row.at = "there" /\ request[a].row.token = row.token
      /\ \/ Rest(a) = <<>> /\ Settled
         \/ Rest(a) = Restart
         \/ Rest(a) = <<"poll", "start">> /\ Active(row) /\ ~row.disabled
  BY <1>1 DEF At, Stage, Active
<1>4. Speaks'
  BY <1>2, <1>3 DEF Speaks
<1>5. CASE Rest(a) = <<>> /\ Settled
  <2>1. Settled'
    BY <1>2, <1>5 DEF Settled, Polling, Active
  <2> QED BY <1>1, <1>4, <1>5, <2>1, GoneOn DEF RegisterManagedBot, Leads, Idle
<1>6. CASE Rest(a) = Restart \/ (Rest(a) = <<"poll", "start">> /\ Active(row) /\ ~row.disabled)
  <2>1. Rest(a) # <<>>
    BY <1>6, Tails
  <2>2. /\ \A b \in Actors \ {a} : request'[b] = request[b]
        /\ Busy(a)' /\ request'[a].todo = Rest(a)
    BY <1>1, <2>1, GoneOn DEF RegisterManagedBot
  <2>3. At(a)'
    BY <1>2, <1>3, <1>4, <1>6, <2>2, Tails DEF At, Stage, Rest, Active
  <2> QED BY <2>2, <2>3 DEF Leads, Idle
<1> QED BY <1>3, <1>5, <1>6

\* No instance speaks with any token.
LEMMA UnregisterLeads ==
  ASSUME RunnersInv, NEW a \in Actors, At(a), UnregisterManagedBot(a)
  PROVE  Leads(a)
<1>1. Busy(a) /\ Head(request[a].todo) = "unregister" /\ request \in Requests
  BY DEF UnregisterManagedBot, Step, RunnersInv, Typed
<1>2. UNCHANGED <<row, loop>> /\ managed' = NoToken
  BY DEF UnregisterManagedBot, OffManaged, rowVars
<1>3. \/ Rest(a) = <<>> /\ row.at = "deleted" /\ Polling = {}
      \/ Rest(a) = Restart /\ (row.at # "there" => Polling = {})
  BY <1>1 DEF At, Stage
<1>4. Polling' = Polling /\ Speaks'
  BY <1>2 DEF Polling, Speaks
<1>5. CASE Rest(a) = <<>> /\ row.at = "deleted" /\ Polling = {}
  <2>1. Settled'
    BY <1>2, <1>4, <1>5 DEF Settled, Active
  <2> QED BY <1>1, <1>4, <1>5, <2>1, GoneOn DEF UnregisterManagedBot, Leads, Idle
<1>6. CASE Rest(a) = Restart /\ (row.at # "there" => Polling = {})
  <2>1. /\ \A b \in Actors \ {a} : request'[b] = request[b]
        /\ Busy(a)' /\ request'[a].todo = Restart
    BY <1>1, <1>6, GoneOn, Tails DEF UnregisterManagedBot
  <2>2. At(a)'
    BY <1>2, <1>4, <1>6, <2>1, Tails DEF At, Stage, Rest
  <2> QED BY <2>1, <2>2 DEF Leads, Idle
<1> QED BY <1>3, <1>5, <1>6

\* ClearWebhookMode goes before a restart.
LEMMA ClearLeads ==
  ASSUME RunnersInv, NEW a \in Actors, At(a), ClearWebhookMode(a)
  PROVE  Leads(a)
<1>1. Busy(a) /\ Head(request[a].todo) = "poll" /\ request \in Requests
  BY DEF ClearWebhookMode, Step, RunnersInv, Typed
<1>2. UNCHANGED <<row, managed>>
  BY DEF ClearWebhookMode, OffManaged, rowVars
<1>3. /\ Speaks
      /\ \/ Rest(a) = Restart /\ row.at = "there"
         \/ Rest(a) = <<"start">> /\ Active(row) /\ ~row.disabled
  BY <1>1 DEF At, Stage
<1>4. Speaks'
  BY <1>2, <1>3 DEF Speaks
<1>5. Rest(a) # <<>>
  BY <1>3, Tails
<1>6. /\ \A b \in Actors \ {a} : request'[b] = request[b]
      /\ Busy(a)' /\ request'[a].todo = Rest(a)
  BY <1>1, <1>5, GoneOn DEF ClearWebhookMode
<1>7. At(a)'
  BY <1>2, <1>3, <1>4, <1>6, Tails DEF At, Stage, Rest, Active
<1> QED BY <1>6, <1>7 DEF Leads, Idle

\* RestartBot goes on with the row as it is, or ends where there is none and nothing polls.
LEMMA ReadLeads ==
  ASSUME RunnersInv, NEW a \in Actors, At(a), ReadConfig(a)
  PROVE  Leads(a)
<1>1. Busy(a) /\ Head(request[a].todo) = "read" /\ request \in Requests
  BY DEF ReadConfig, Step, RunnersInv, Typed
<1>2. request[a] \in Plans
  BY <1>1, BusyPlan
<1>3. UNCHANGED <<row, loop, managed>>
  BY DEF ReadConfig, OffRow, rowVars
<1>4. Rest(a) = <<"stop", "prepare">> /\ Speaks /\ (row.at # "there" => Polling = {})
  BY <1>1 DEF At, Stage
<1>5. Polling' = Polling /\ Speaks'
  BY <1>3, <1>4 DEF Polling, Speaks
<1>6. CASE row.at = "there"
  <2>1. request' = [request EXCEPT ![a] = [@ EXCEPT !.row = row, !.todo = Rest(a)]]
    BY <1>6 DEF ReadConfig
  <2>2. /\ \A b \in Actors \ {a} : request'[b] = request[b]
        /\ request'[a].todo = <<"stop", "prepare">> /\ request'[a].row = row
    BY <1>1, <1>2, <1>4, <2>1 DEF Requests, Plans
  <2>3. Busy(a)' /\ Head(request'[a].todo) = "stop" /\ Tail(request'[a].todo) = <<"prepare">>
    BY <2>2, Tails DEF Busy
  <2>4. At(a)'
    BY <1>3, <1>5, <1>6, <2>2, <2>3 DEF At, Stage, Rest
  <2> QED BY <2>2, <2>3, <2>4 DEF Leads, Idle
<1>7. CASE row.at # "there"
  <2>1. request' = [request EXCEPT ![a] = Done]
    BY <1>7 DEF ReadConfig
  <2>2. Settled'
    BY <1>3, <1>4, <1>5, <1>7 DEF Settled, Active
  <2> QED BY <1>1, <1>5, <2>1, <2>2, GoneIdle DEF Leads, Idle
<1> QED BY <1>6, <1>7

\* Once the runner is stopped, either there is none to be or it is started next.
LEMMA PrepareLeads ==
  ASSUME RunnersInv, NEW a \in Actors, At(a), Prepare(a)
  PROVE  Leads(a)
<1>1. Busy(a) /\ Head(request[a].todo) = "prepare" /\ request \in Requests
  BY DEF Prepare, Step, RunnersInv, Typed
<1>2. request[a] \in Plans
  BY <1>1, BusyPlan
<1>3. UNCHANGED <<row, loop>>
  BY DEF Prepare
<1>4. Rest(a) = <<>> /\ row.at = "there" /\ request[a].row = row /\ Speaks /\ Polling = {}
  BY <1>1 DEF At, Stage
<1>5. Polling' = {}
  BY <1>3, <1>4 DEF Polling
<1>6. CASE row.disabled
  <2>1. managed' = NoToken /\ request' = [request EXCEPT ![a] = Done]
    BY <1>4, <1>6 DEF Prepare
  <2>2. (Settled /\ Speaks)'
    BY <1>3, <1>5, <1>6, <2>1 DEF Settled, Speaks
  <2> QED BY <1>1, <2>1, <2>2, GoneIdle DEF Leads, Idle
<1>7. CASE ~row.disabled /\ failed'
  <2>1. managed' = managed /\ request' = [request EXCEPT ![a] = Done]
    BY <1>4, <1>7 DEF Prepare
  <2>2. (Settled /\ Speaks)'
    BY <1>3, <1>4, <1>5, <1>7, <2>1 DEF Settled, Speaks
  <2> QED BY <1>1, <2>1, <2>2, GoneIdle DEF Leads, Idle
<1>8. CASE ~row.disabled /\ ~failed'
  <2>1. /\ managed' = IF ~row.manage THEN NoToken ELSE IF managed = NoToken THEN row.token ELSE managed
        /\ request' = [request EXCEPT ![a] =
             IF Active(row) /\ ~webhook THEN [@ EXCEPT !.todo = <<"start">>] ELSE Done]
        /\ UNCHANGED webhook
    BY <1>4, <1>8 DEF Prepare
  <2>2. Speaks'
    BY <1>3, <1>4, <2>1 DEF Speaks
  <2>3. CASE Active(row) /\ ~webhook
    <3>1. /\ \A b \in Actors \ {a} : request'[b] = request[b]
          /\ request'[a].todo = <<"start">>
      <4>1. request' = [request EXCEPT ![a] = [@ EXCEPT !.todo = <<"start">>]]
        BY <2>1, <2>3
      <4> QED BY <1>1, <1>2, <4>1 DEF Requests, Plans
    <3>2. Busy(a)' /\ Head(request'[a].todo) = "start" /\ Tail(request'[a].todo) = <<>>
      BY <3>1, Tails DEF Busy
    <3>3. Active(row)' /\ ~row'.disabled
      BY <1>3, <1>8, <2>3 DEF Active
    <3>4. At(a)'
      BY <2>2, <3>2, <3>3 DEF At, Stage, Rest
    <3> QED BY <3>1, <3>2, <3>4 DEF Leads, Idle
  <2>4. CASE ~(Active(row) /\ ~webhook)
    <3>1. request' = [request EXCEPT ![a] = Done]
      BY <2>1, <2>4
    <3>2. Settled'
      BY <1>3, <1>5, <2>1, <2>4 DEF Settled, Active
    <3> QED BY <1>1, <2>2, <3>1, <3>2, GoneIdle DEF Leads, Idle
  <2> QED BY <2>3, <2>4
<1> QED BY <1>6, <1>7, <1>8


\* Every step of a request that runs alone leads on.
LEMMA StepLeads ==
  ASSUME RunnersInv, NEW a \in Actors, At(a), RequestStep(a)
  PROVE  Leads(a)
BY SaveLeads, ToggleLeads, DeleteLeads, StopLeads, StoppedLeads, StartedLeads, RegisterLeads,
   UnregisterLeads, ClearLeads, ReadLeads, PrepareLeads DEF RequestStep

\* A step of a request leaves the process, and whether requests have overlapped.
LEMMA StepApart ==
  ASSUME NEW a \in Actors, RequestStep(a)
  PROVE  Busy(a) /\ UNCHANGED <<phase, overlap>>
BY DEF RequestStep, UpdateBotConfig, SetBotDisabled, DeleteBotConfig, StopBot, Stopped,
       Started, RegisterManagedBot, UnregisterManagedBot, ClearWebhookMode, ReadConfig,
       Prepare, Step, OffRow, OffRunner, OffManaged, Apart

\* So the steps of requests keep the invariant, alone or not.
LEMMA StepFollows ==
  ASSUME RunnersInv, Followed, NEW a \in Actors, RequestStep(a)
  PROVE  Followed'
<1>1. Busy(a) /\ UNCHANGED <<phase, overlap>>
  BY StepApart
<1>2. CASE ~(phase = "up" /\ ~overlap)
  BY <1>1, <1>2 DEF Followed
<1>3. CASE phase = "up" /\ ~overlap
  <2>1. Alone(a) /\ At(a)
    BY <1>1, <1>3 DEF Followed
  <2>2. Leads(a)
    BY <2>1, StepLeads
  <2>3. Alone(a)'
    BY <2>1, <2>2 DEF Leads, Alone, Idle, Busy
  <2> QED BY <2>2, <2>3, Concludes DEF Leads
<1> QED BY <1>2, <1>3

------------------------------------------------------------------------------
(* The loop and the process *)

\* A loop stops polling by itself, and the runner leaves only for a reason that stays.
LEMMA LoopSettles ==
  ASSUME RunnersInv, NEW l \in LoopIds, LoopStep(l)
  PROVE  /\ Polling' \subseteq Polling
         /\ UNCHANGED <<row, phase, lock, managed, request, overlap>>
         /\ Settled /\ lock = NoOne => Settled'
<1> USE DEF LoopStep, Check, Answer, Processed, Return, Close, Turn, Quiet
<1>1. /\ UNCHANGED <<row, phase, lock, managed, webhook, failed, request, overlap>>
      /\ runner' \in {runner, NoLoop}
  BY DEF rowVars
<1>2. loop \in [LoopIds -> [pc : PCs, cancelled : BOOLEAN]] /\ runner \in LoopIds \cup {NoLoop}
  BY DEF RunnersInv, Typed
<1>3. \A k \in LoopIds \ {l} : loop'[k] = loop[k]
  BY <1>2
<1>4. Polling' \subseteq Polling
  BY <1>2, <1>3 DEF Polling, Gone
<1>5. ASSUME Settled, lock = NoOne PROVE Settled'
  <2>1. (row'.at # "there" \/ row'.disabled) => Polling' = {}
    BY <1>1, <1>4, <1>5 DEF Settled
  <2>2. ASSUME Active(row), ~row.disabled
        PROVE  \/ webhook' \/ failed' \/ conflict'
               \/ (runner' # NoLoop /\ loop'[runner'].pc # "returning")
    <3>1. runner \in LoopIds => ~loop[runner].cancelled /\ loop[runner].pc \notin {"closing", "gone"}
      BY DEF RunnersInv, Accounted
    <3>2. NoOne \notin Actors
      BY RunnersAssumption DEF Actors
    <3>3. l \in Polling => l = runner
      BY <1>5, <3>2 DEF RunnersInv, Accounted
    <3>4. webhook \/ failed \/ conflict \/ (runner # NoLoop /\ loop[runner].pc # "returning")
      BY <1>5, <2>2 DEF Settled
    <3>5. CASE Check(l)
      BY <1>1, <1>2, <1>3, <2>2, <3>1, <3>4, <3>5
    <3>6. CASE Answer(l)
      BY <1>1, <1>2, <1>3, <2>2, <3>1, <3>4, <3>6
    <3>7. CASE Processed(l)
      BY <1>1, <1>2, <2>2, <3>3, <3>7, RunnersAssumption DEF Polling
    <3>8. CASE Return(l)
      BY <1>1, <1>2, <1>3, <2>2, <3>4, <3>8
    <3>9. CASE Close(l)
      BY <1>1, <1>2, <1>3, <2>2, <3>1, <3>4, <3>9
    <3> QED BY <3>5, <3>6, <3>7, <3>8, <3>9
  <2> QED BY <1>1, <2>1, <2>2 DEF Settled
<1> QED BY <1>1, <1>4, <1>5

\* So the steps of the loop keep it.
LEMMA LoopFollows ==
  ASSUME RunnersInv, Followed, NEW l \in LoopIds, LoopStep(l)
  PROVE  Followed'
<1>1. /\ Polling' \subseteq Polling
      /\ UNCHANGED <<row, phase, lock, managed, request, overlap>>
      /\ Settled /\ lock = NoOne => Settled'
  BY LoopSettles
<1>2. CASE ~(phase = "up" /\ ~overlap)
  BY <1>1, <1>2 DEF Followed
<1>3. CASE phase = "up" /\ ~overlap
  <2>1. \A a \in Actors : Busy(a)' = Busy(a) /\ Idle(a)' = Idle(a) /\ Alone(a)' = Alone(a)
    BY <1>1 DEF Alone, Idle, Busy
  <2>2. lock \in Actors \cup {NoOne} /\ \A a \in Actors : (lock = a) = Waits(request[a])
    BY DEF RunnersInv, Typed, Locked
  <2>3. Speaks' = Speaks
    BY <1>1 DEF Speaks
  <2>4. (\A a \in Actors : Idle(a)) => (Settled /\ Speaks)'
    <3> HAVE \A a \in Actors : Idle(a)
    <3>1. \A a \in Actors : ~Waits(request[a])
      BY DEF Idle, Busy, Waits
    <3> QED BY <1>1, <1>3, <2>2, <2>3, <3>1 DEF Followed
  <2>5. ASSUME NEW a \in Actors, Busy(a) PROVE Alone(a) /\ At(a)'
    <3>1. Alone(a) /\ At(a)
      BY <1>3, <2>5 DEF Followed
    <3>2. Head(request[a].todo) \notin {"stopped", "started"} => lock = NoOne
      <4> HAVE Head(request[a].todo) \notin {"stopped", "started"}
      <4>1. \A b \in Actors : ~Waits(request[b])
        BY <3>1 DEF Alone, Idle, Busy, Waits
      <4> QED BY <2>2, <4>1
    <3> QED BY <1>1, <2>3, <3>1, <3>2 DEF At, Stage, Rest, Active
  <2> QED BY <1>1, <2>1, <2>4, <2>5 DEF Followed
<1> QED BY <1>2, <1>3

\* Start launches a runner for a bot that should have one.
LEMMA BootFollows ==
  ASSUME RunnersInv, Boot
  PROVE  Followed'
<1>1. PICK cli \in {"none", "polling", "webhook"} :
        LET r == IF cli = "none" THEN row ELSE [row EXCEPT !.at = "there", !.manage = TRUE]
            polls == Active(r) /\ ~r.disabled /\ cli # "webhook"
        IN
        /\ row' = r
        /\ webhook' = (cli = "webhook")
        /\ managed' \in (IF cli # "none" THEN {r.token}
                         ELSE IF polls /\ r.manage THEN {NoToken, r.token} ELSE {NoToken})
        /\ IF polls THEN \E l \in LoopIds : Launch(l) ELSE UNCHANGED <<loop, runner>>
  BY DEF Boot
<1>2. row \in Rows
  BY DEF RunnersInv, Typed
<1>3. Polling = {} /\ (\A a \in Actors : ~Busy(a)) /\ UNCHANGED request
  BY DEF Boot, RunnersInv, Restarted
<1> DEFINE polls == Active(row') /\ ~row'.disabled /\ cli # "webhook"
<1>4. cli # "none" => row'.at = "there"
  BY <1>1, <1>2 DEF Rows
<1>5. Speaks'
  BY <1>1, <1>4 DEF Speaks, Active
<1>6. Settled'
  <2>1. CASE polls
    <3>1. PICK l \in LoopIds : Launch(l)
      BY <1>1, <2>1
    <3>2. runner' = l /\ loop'[l].pc = "check" /\ l # NoLoop
      BY <3>1, RunnersAssumption DEF Launch, RunnersInv, Typed
    <3> QED BY <2>1, <3>2 DEF Settled, Active
  <2>2. CASE ~polls
    <3>1. Polling' = {}
      BY <1>1, <1>3, <2>2 DEF Polling
    <3> QED BY <1>1, <2>2, <3>1 DEF Settled
  <2> QED BY <2>1, <2>2
<1> QED BY <1>3, <1>5, <1>6 DEF Followed, Busy

------------------------------------------------------------------------------
(* Requests that begin *)

\* A request that begins alone finds things settled, or renews what is not.
LEMMA BegunAlone ==
  ASSUME RunnersInv, Followed, NEW a \in Requesters, NEW todo, NEW read,
         Begin(a, todo, read), ~overlap'
  PROVE  /\ a \in Actors /\ Alone(a)'
         /\ ~Renews(todo) => Settled /\ Speaks
         /\ todo = <<>> => Idle(a)'
         /\ todo # <<>> => Busy(a)' /\ request'[a].todo = todo /\ request'[a].row = read
         /\ UNCHANGED <<loop, runner, webhook, conflict>>
<1>1. a \in Actors /\ request \in Requests
  BY DEF Actors, RunnersInv, Typed
<1>2. \A b \in Actors : Idle(b)
  BY DEF Begin, Idle
<1>3. request' = [request EXCEPT ![a] =
        IF todo = <<>> THEN Done ELSE [todo |-> todo, row |-> read, waits |-> NoLoop]]
  BY DEF Begin
<1>4. \A b \in Actors \ {a} : request'[b] = request[b]
  BY <1>1, <1>3 DEF Requests
<1>5. Alone(a)'
  BY <1>2, <1>4 DEF Alone, Idle, Busy
<1>6. ~Renews(todo) => Settled /\ Speaks
  BY <1>2 DEF Begin, Followed
<1>7. request'[a] = IF todo = <<>> THEN Done ELSE [todo |-> todo, row |-> read, waits |-> NoLoop]
  BY <1>1, <1>3 DEF Requests
<1> QED BY <1>1, <1>5, <1>6, <1>7 DEF Idle, Busy, Done, Begin


\* Each handler sets out for a stage, or leaves things settled.
LEMMA RequestLeads ==
  ASSUME RunnersInv, Followed, NEW a \in Requesters, Request(a), ~overlap'
  PROVE  /\ a \in Actors /\ Alone(a)'
         /\ Idle(a)' => (Settled /\ Speaks)'
         /\ Busy(a)' => At(a)'
<1>1. row \in Rows /\ a \in Actors
  BY DEF RunnersInv, Typed, Actors
<1>2. CASE HandleBotUpdate(a)
  <2>1. PICK r \in Rows : Begin(a, <<"save">> \o Renewed(r) \o Restart, r)
    BY <1>2 DEF HandleBotUpdate
  <2>2. row.at = "there" /\ UNCHANGED <<row, managed>>
    BY <1>2 DEF HandleBotUpdate, Unchanged
  <2>3. CASE r.token = row.token
    <3> DEFINE todo == <<"save">> \o Restart
    <3>1. Begin(a, todo, r)
      BY <2>1, <2>3, UpdateSteps
    <3>2. todo # <<>> /\ Head(todo) = "save" /\ Tail(todo) = Restart /\ ~Renews(todo)
      BY RestartTails, NotRenewing
    <3> HIDE DEF todo
    <3>3. /\ Alone(a)' /\ Speaks
          /\ Busy(a)' /\ request'[a].todo = todo /\ request'[a].row = r
      BY <3>1, <3>2, BegunAlone
    <3>4. At(a)'
      BY <2>2, <2>3, <3>2, <3>3 DEF At, Stage, Rest, Speaks
    <3> QED BY <1>1, <3>3, <3>4 DEF Idle
  <2>4. CASE r.token # row.token
    <3> DEFINE todo == <<"save">> \o Renewing
    <3>1. Begin(a, todo, r)
      BY <2>1, <2>4, UpdateSteps
    <3>2. todo # <<>> /\ Head(todo) = "save" /\ Tail(todo) = Renewing
      BY RestartTails
    <3> HIDE DEF todo
    <3>3. Alone(a)' /\ Busy(a)' /\ request'[a].todo = todo
      BY <3>1, <3>2, BegunAlone
    <3>4. At(a)'
      BY <2>2, <3>2, <3>3 DEF At, Stage, Rest
    <3> QED BY <1>1, <3>3, <3>4 DEF Idle
  <2> QED BY <2>3, <2>4
<1>3. CASE InterceptWebhook(a)
  <2> DEFINE todo == <<"save", "poll">> \o Restart
  <2>1. PICK proxy \in BOOLEAN : Begin(a, todo, [row EXCEPT !.proxy = proxy])
    BY <1>3 DEF InterceptWebhook
  <2>2. row.at = "there" /\ UNCHANGED <<row, managed>>
    BY <1>3 DEF InterceptWebhook, Unchanged
  <2>3. /\ todo # <<>> /\ Head(todo) = "save" /\ Tail(todo) = <<"poll">> \o Restart
        /\ ~Renews(todo)
    BY RestartTails, NotRenewing
  <2> HIDE DEF todo
  <2>4. /\ Alone(a)' /\ Speaks
        /\ Busy(a)' /\ request'[a].todo = todo /\ request'[a].row.token = row.token
    BY <1>1, <2>1, <2>3, BegunAlone DEF Rows
  <2>5. At(a)'
    BY <2>2, <2>3, <2>4 DEF At, Stage, Rest, Speaks
  <2> QED BY <1>1, <2>4, <2>5 DEF Idle
<1>4. CASE HandleToggleDisabled(a)
  <2> DEFINE todo == <<"toggle">> \o Restart
  <2>1. /\ Begin(a, todo, [row EXCEPT !.disabled = ~row.disabled])
        /\ row.at = "there" /\ UNCHANGED <<row, managed>>
    BY <1>4 DEF HandleToggleDisabled, Unchanged
  <2>2. todo # <<>> /\ Head(todo) = "toggle" /\ Tail(todo) = Restart /\ ~Renews(todo)
    BY RestartTails, NotRenewing
  <2> HIDE DEF todo
  <2>3. Alone(a)' /\ Speaks /\ Busy(a)' /\ request'[a].todo = todo
    BY <2>1, <2>2, BegunAlone
  <2>4. At(a)'
    BY <2>1, <2>2, <2>3 DEF At, Stage, Rest, Speaks
  <2> QED BY <1>1, <2>3, <2>4 DEF Idle
<1>5. CASE HandleBotDelete(a)
  <2> DEFINE todo == <<"delete", "stop", "unregister">>
  <2>1. Begin(a, todo, row) /\ UNCHANGED <<row, managed, failed>>
    BY <1>5 DEF HandleBotDelete, Unchanged
  <2>2. /\ todo # <<>> /\ Head(todo) = "delete" /\ Tail(todo) = <<"stop", "unregister">>
        /\ ~Renews(todo)
    BY Tails, NotRenewing
  <2> HIDE DEF todo
  <2>3. /\ Alone(a)' /\ Settled /\ Speaks /\ Busy(a)' /\ request'[a].todo = todo
        /\ UNCHANGED <<loop, runner, webhook, conflict>>
    BY <2>1, <2>2, BegunAlone
  <2>4. (Settled /\ Speaks)'
    BY <2>1, <2>3 DEF Settled, Speaks, Polling, Active
  <2>5. At(a)'
    BY <2>2, <2>3, <2>4 DEF At, Stage, Rest
  <2> QED BY <1>1, <2>3, <2>5 DEF Idle
<1>6. CASE RotateBotAccount(a)
  <2>1. Begin(a, Renewing, row')
    BY <1>6 DEF RotateBotAccount, Renewing
  <2>2. /\ Renewing # <<>> /\ Head(Renewing) = "stop"
        /\ Tail(Renewing) = <<"unregister">> \o Restart
    BY RestartTails
  <2>3. Alone(a)' /\ Busy(a)' /\ request'[a].todo = Renewing
    BY <2>1, <2>2, BegunAlone
  <2>4. At(a)'
    BY <2>2, <2>3 DEF At, Stage, Rest
  <2> QED BY <1>1, <2>3, <2>4 DEF Idle
<1>7. CASE HandleBotAdd(a)
  <2>1. PICK r \in Rows :
          /\ r.at = "there" /\ ~r.disabled
          /\ row' = r
          /\ Begin(a, IF failed' \/ ~Active(r) THEN <<>>
                      ELSE (IF r.manage THEN <<"register">> ELSE <<>>) \o Restart, r)
    BY <1>7 DEF HandleBotAdd
  <2>2. row.at = "new" /\ managed' = managed
    BY <1>7 DEF HandleBotAdd
  <2>3. CASE failed' \/ ~Active(r)
    <3>1. Begin(a, <<>>, r)
      BY <2>1, <2>3
    <3>2. Alone(a)' /\ Idle(a)' /\ Speaks
      BY <3>1, BegunAlone, NotRenewing
    <3>3. (Settled /\ Speaks)'
      BY <2>1, <2>2, <2>3, <3>2 DEF Settled, Speaks, Active
    <3> QED BY <1>1, <3>2, <3>3 DEF Idle
  <2>4. CASE ~failed' /\ Active(r) /\ r.manage
    <3> DEFINE todo == <<"register">> \o Restart
    <3>1. Begin(a, todo, r)
      BY <2>1, <2>4
    <3>2. todo # <<>> /\ Head(todo) = "register" /\ Tail(todo) = Restart
      BY RestartTails
    <3> HIDE DEF todo
    <3>3. Alone(a)' /\ Busy(a)' /\ request'[a].todo = todo /\ request'[a].row = r
      BY <3>1, <3>2, BegunAlone
    <3>4. At(a)'
      BY <2>1, <3>2, <3>3 DEF At, Stage, Rest
    <3> QED BY <1>1, <3>3, <3>4 DEF Idle
  <2>5. CASE ~failed' /\ Active(r) /\ ~r.manage
    <3>1. <<>> \o Restart = Restart
      BY PlainSteps, ConcatEmptySeq
    <3>2. Begin(a, Restart, r)
      BY <2>1, <2>5, <3>1
    <3>3. Alone(a)' /\ Busy(a)' /\ request'[a].todo = Restart /\ Speaks
      BY <3>2, BegunAlone, Tails, NotRenewing
    <3>4. At(a)'
      BY <2>1, <2>2, <3>3, Tails DEF At, Stage, Rest, Speaks
    <3> QED BY <1>1, <3>3, <3>4 DEF Idle
  <2> QED BY <2>3, <2>4, <2>5
<1>8. CASE HandleBusinessRouteSetup(a)
  <2> DEFINE todo == <<"register", "poll", "start">>
  <2>1. /\ Begin(a, todo, row')
        /\ row' = [row EXCEPT !.at = "there", !.manage = TRUE, !.disabled = FALSE]
    BY <1>8 DEF HandleBusinessRouteSetup
  <2>2. todo # <<>> /\ Head(todo) = "register" /\ Tail(todo) = <<"poll", "start">>
    BY Tails
  <2> HIDE DEF todo
  <2>3. Alone(a)' /\ Busy(a)' /\ request'[a].todo = todo /\ request'[a].row = row'
    BY <2>1, <2>2, BegunAlone
  <2>4. row'.at = "there" /\ row'.manage /\ ~row'.disabled
    BY <1>1, <2>1 DEF Rows
  <2>5. At(a)'
    BY <2>2, <2>3, <2>4 DEF At, Stage, Rest, Active
  <2> QED BY <1>1, <2>3, <2>5 DEF Idle
<1>9. CASE HandleConfigRestore(a)
  <2>1. Begin(a, Restart, row') /\ managed' = managed
    BY <1>9 DEF HandleConfigRestore
  <2>2. row'.at = "there" /\ (row.at = "new" \/ row' = row)
    BY <1>9 DEF HandleConfigRestore, Active
  <2>3. Alone(a)' /\ Speaks /\ Busy(a)' /\ request'[a].todo = Restart
    BY <2>1, BegunAlone, Tails, NotRenewing
  <2>4. At(a)'
    BY <2>1, <2>2, <2>3, Tails DEF At, Stage, Rest, Speaks
  <2> QED BY <1>1, <2>3, <2>4 DEF Idle
<1>10. CASE EnsureManagedBot(a)
  <2>1. Begin(a, <<"register">>, row) /\ row.at = "there" /\ UNCHANGED <<row, managed, failed>>
    BY <1>10 DEF EnsureManagedBot, Unchanged
  <2>2. /\ Alone(a)' /\ Settled /\ Busy(a)'
        /\ request'[a].todo = <<"register">> /\ request'[a].row = row
        /\ UNCHANGED <<loop, runner, webhook, conflict>>
    BY <2>1, BegunAlone, Tails, NotRenewing
  <2>3. Settled'
    BY <2>1, <2>2 DEF Settled, Polling, Active
  <2>4. At(a)'
    BY <2>1, <2>2, <2>3, Tails DEF At, Stage, Rest
  <2> QED BY <1>1, <2>2, <2>4 DEF Idle
<1> QED
  BY <1>2, <1>3, <1>4, <1>5, <1>6, <1>7, <1>8, <1>9, <1>10 DEF Request

\* So requests that begin keep it.
LEMMA RequestFollows ==
  ASSUME RunnersInv, Followed, NEW a \in Requesters, Request(a)
  PROVE  Followed'
<1>1. CASE overlap'
  BY <1>1 DEF Followed
<1>2. CASE ~overlap'
  BY <1>2, RequestLeads, Concludes
<1> QED BY <1>1, <1>2

\* It holds before the first start of the process.
LEMMA FollowedInit == Init => Followed
BY DEF Init, Followed

\* Every step keeps it.
LEMMA FollowedNext == RunnersInv /\ Followed /\ [Next]_vars => Followed'
<1> SUFFICES ASSUME RunnersInv, Followed, [Next]_vars PROVE Followed'
  OBVIOUS
<1>1. CASE Boot
  BY <1>1, BootFollows
<1>2. CASE Crash \/ Shutdown \/ Exit
  BY <1>2 DEF Crash, Shutdown, Exit, Forgotten, Followed
<1>3. ASSUME NEW l \in LoopIds, LoopStep(l) PROVE Followed'
  BY <1>3, LoopFollows
<1>4. ASSUME NEW a \in Requesters, Request(a) PROVE Followed'
  BY <1>4, RequestFollows
<1>5. ASSUME NEW a \in Actors, RequestStep(a) PROVE Followed'
  BY <1>5, StepFollows
<1>6. CASE UNCHANGED vars
  <2>1. Settled' = Settled /\ Speaks' = Speaks /\ Polling' = Polling
    BY <1>6 DEF vars, Settled, Speaks, Polling, Active
  <2>2. UNCHANGED <<row, request, phase, overlap>>
    BY <1>6 DEF vars
  <2>3. \A a \in Actors : Idle(a)' = Idle(a) /\ Busy(a)' = Busy(a) /\ Alone(a)' = Alone(a)
    BY <2>2 DEF Idle, Busy, Alone
  <2>4. ASSUME NEW a \in Actors, At(a) PROVE At(a)'
    <3>1. /\ Head(request[a].todo)' = Head(request[a].todo) /\ Rest(a)' = Rest(a)
          /\ (request[a].row)' = request[a].row /\ Active(row)' = Active(row)
      BY <2>2 DEF Rest, Active
    <3> QED BY <2>1, <2>2, <2>4, <3>1 DEF At, Stage
  <2> QED BY <2>1, <2>2, <2>3, <2>4 DEF Followed
<1> QED BY <1>1, <1>2, <1>3, <1>4, <1>5, <1>6 DEF Next

\* It implies what TLC checks.
LEMMA InvFollows == RunnersInv /\ Followed => RunnerFollowsRow
BY DEF Followed, Settled, Speaks, RunnerFollowsRow, Idle, Active

\* Requests that do not overlap leave the runner as the row says, also after others
\* that did, once one of them has made the instance anew and started a runner: each of
\* them ends with what RestartBot or ActivateManagedBot makes of the row it read.
THEOREM RunnerFollows == Spec => []RunnerFollowsRow
<1>1. Spec => []Followed
  BY RunnersAlways, FollowedInit, FollowedNext, PTL DEF Spec
<1> QED BY <1>1, RunnersAlways, InvFollows, PTL
===============================================================================
