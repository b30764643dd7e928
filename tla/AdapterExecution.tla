-------------------------- MODULE AdapterExecution --------------------------
(***************************************************************************)
(* The embedded adapter: one management request from a chat becomes one    *)
(* Jenkins build.  Every call of Process claims the execution's lease,     *)
(* takes one step of it, and saves it if the lease is still its own; calls *)
(* come from the inbound workers and may overlap when a lease runs out.    *)
(*                                                                         *)
(* Time is left out: a stage may be found expired at any look, a lease may *)
(* run out at any moment, and a call before next_poll_at, which changes    *)
(* nothing, is none at all.  Queue and build numbers are left out as there *)
(* is one build to find; TriggerOnce says so.                              *)
(***************************************************************************)
EXTENDS Naturals, FiniteSets

CONSTANTS
  Workers,           \* concurrent callers of Process
  Configs,           \* job fingerprints the process may be started with
  MaxFailures,       \* AdapterConfig.MaxFailures
  MaxFaults,         \* bound: crashes, failed calls and leases lost half way
  MaxConfigChanges   \* bound: restarts with another job

ASSUME ConstantsAssumption ==
  /\ Configs # {}
  /\ MaxFailures \in Nat \ {0}
  /\ MaxFaults \in Nat
  /\ MaxConfigChanges \in Nat

VARIABLES
  exec,              \* gateway_adapter_executions.state_json and job_fingerprint
  owner, leased,     \* lease_owner; lease_until is in the future
  ack, result,       \* the two replies: status of the delivery, and payload
  jenkins,           \* what became of the build, by its business result
  onTheWay,          \* a trigger Jenkins has not seen yet
  posts,             \* history: triggers sent
  pc, local,         \* per worker: where its call is, and its copy of exec
  answers,           \* history: what finished calls told the inbound worker
  request,           \* what the message is, as parsed
  config, changes,   \* the current fingerprint
  faults

leaseVars   == <<owner, leased>>
replyVars   == <<ack, result>>
jenkinsVars == <<jenkins, onTheWay, posts>>
configVars  == <<request, config, changes>>
vars == <<exec, leaseVars, replyVars, jenkinsVars, pc, local, answers,
          configVars, faults>>

------------------------------------------------------------------------------
(* Types *)

NoOwner == "no_owner"
None == "none"

Stage == {"new", "acknowledging", "ready", "triggering", "queued", "building",
          "result", "terminal", "done"}

\* How the request ended, as the user is told.
Verdict == {"succeeded", "BUSINESS_FAILED", "INVALID_REQUEST", "ADAPTER_CONFIG_CHANGED",
            "JENKINS_TRIGGER_FAILED", "JENKINS_TRIGGER_UNCERTAIN",
            "JENKINS_QUEUE_TIMEOUT", "JENKINS_BUILD_TIMEOUT", "JENKINS_UNAVAILABLE",
            "RESULT_UNAVAILABLE", "RESULT_LIMIT_EXCEEDED"}

Class == (Verdict \ {"succeeded"}) \cup
         {None, "jenkins_unavailable", "adapter_ack_failed", "adapter_reply_failed"}

Execution == [stage : Stage, job : Configs, failures : 0 .. MaxFailures,
              class : Class, verdict : Verdict \cup {None},
              payload : Verdict \cup {None}]

ReplyStatus == {None, "created", "accepted", "succeeded", "failed"}

TypeOK ==
  /\ exec \in Execution
  /\ owner \in Workers \cup {NoOwner}
  /\ leased \in BOOLEAN
  /\ ack \in ReplyStatus
  /\ result \in [status : ReplyStatus, payload : Verdict \cup {None}]
  /\ jenkins \in {None, "queued", "building", "succeeded", "failed", "cancelled"}
  /\ onTheWay \in BOOLEAN
  /\ posts \in Nat
  /\ pc \in [Workers -> {"idle", "step", "enqueue", "post", "save"}]
  /\ local \in [Workers -> Execution]
  /\ answers \subseteq Class
  /\ request \in {"none", "invalid", "valid"}
  /\ config \in Configs
  /\ changes \in 0 .. MaxConfigChanges
  /\ faults \in 0 .. MaxFaults

New(job) == [stage |-> "new", job |-> job, failures |-> 0, class |-> None,
             verdict |-> None, payload |-> None]

Init ==
  /\ config \in Configs
  /\ exec = New(config)
  /\ owner = NoOwner /\ leased = FALSE
  /\ ack = None /\ result = [status |-> None, payload |-> None]
  /\ jenkins = None /\ onTheWay = FALSE /\ posts = 0
  /\ pc = [w \in Workers |-> "idle"]
  /\ local = [w \in Workers |-> New(config)]
  /\ answers = {}
  /\ request \in {"none", "invalid", "valid"}
  /\ changes = 0 /\ faults = 0

------------------------------------------------------------------------------
(* The moves of an execution *)

Advance(x, stage) == [x EXCEPT !.stage = stage, !.failures = 0]

Terminal(x, verdict) ==
  [Advance(x, "terminal") EXCEPT
     !.verdict = verdict,
     !.class = IF verdict = "succeeded" THEN None ELSE verdict]

\* Mutant: the failures are counted, and nothing comes of it.
NetworkFailureForever(x) ==
  [x EXCEPT !.failures = @ + 1, !.class = "jenkins_unavailable"]

NetworkFailure(x) ==
  IF x.failures + 1 < MaxFailures
  THEN [x EXCEPT !.failures = @ + 1, !.class = "jenkins_unavailable"]
  ELSE Terminal(x, "JENKINS_UNAVAILABLE")

Answered(x) == [x EXCEPT !.failures = 0]
Done(x, class) == [x EXCEPT !.stage = "done", !.class = class]

\* What a call works on: the reply that exists counts as the payload, and an
\* execution of another job ends here.
Loaded ==
  LET x == IF exec.stage = "terminal" /\ exec.payload = None
           THEN [exec EXCEPT !.payload = result.payload]
           ELSE exec
  IN IF x.job # config /\ x.stage \notin {"terminal", "done"}
     THEN Terminal(x, "ADAPTER_CONFIG_CHANGED")
     ELSE x

\* ClaimAdapterExecution, unless somebody holds the lease.
Claim(w) ==
  /\ pc[w] = "idle"
  /\ ~leased
  /\ owner' = w /\ leased' = TRUE
  /\ local' = [local EXCEPT ![w] = Loaded]
  /\ pc' = [pc EXCEPT ![w] = IF Loaded.stage = "done" THEN "save" ELSE "step"]
  /\ UNCHANGED <<exec, replyVars, jenkinsVars, answers, configVars, faults>>

Holds(w) == owner = w /\ leased

\* A call at a step of one of these stages.
At(w, stage) == pc[w] = "step" /\ local[w].stage = stage

\* The call leaves with its copy changed to x; Save follows.
Leave(w, x) ==
  /\ local' = [local EXCEPT ![w] = x]
  /\ pc' = [pc EXCEPT ![w] = "save"]

Parse(w) ==
  /\ At(w, "new")
  /\ Leave(w, CASE request = "invalid" -> Terminal(local[w], "INVALID_REQUEST")
                [] request = "none" -> Done(local[w], local[w].class)
                [] request = "valid" -> Advance(local[w], "acknowledging"))
  /\ UNCHANGED <<exec, leaseVars, replyVars, jenkinsVars, answers, configVars, faults>>

\* CreateAdapterReply of the acknowledgment, and what its delivery says.  The
\* reply timeout is looked at first: a success that is found late is too late.
Acknowledge(w) ==
  /\ At(w, "acknowledging")
  /\ ack' = IF ack = None THEN "created" ELSE ack
  /\ \/ ack = "succeeded" /\ Leave(w, Advance(local[w], "ready"))
     \/ ack \in {"succeeded", "failed"} /\ Leave(w, Done(local[w], "adapter_ack_failed"))
     \/ /\ ack \notin {"succeeded", "failed"}
        /\ pc' = [pc EXCEPT ![w] = "enqueue"]
        /\ UNCHANGED local
  /\ UNCHANGED <<exec, leaseVars, result, jenkinsVars, answers, configVars, faults>>

\* CreateAdapterReply of the result: another payload under its key is refused,
\* and the call fails.
Report(w) ==
  LET payload == IF local[w].payload = None THEN local[w].verdict ELSE local[w].payload
      x == [local[w] EXCEPT !.payload = payload]
  IN
  /\ At(w, "terminal")
  /\ result' = IF result.status = None
               THEN [status |-> "created", payload |-> payload] ELSE result
  /\ \/ result'.payload # payload /\ Leave(w, x)
     \/ /\ result'.payload = payload
        /\ \/ result.status = "succeeded" /\ Leave(w, [x EXCEPT !.stage = "done"])
           \/ result.status = "failed" /\ Leave(w, Done(x, "adapter_reply_failed"))
           \/ /\ result.status \notin {"succeeded", "failed"}
              /\ local' = [local EXCEPT ![w] = x]
              /\ pc' = [pc EXCEPT ![w] = "enqueue"]
  /\ UNCHANGED <<exec, leaseVars, ack, jenkinsVars, answers, configVars, faults>>

Accepted(status) == IF status = "created" THEN "accepted" ELSE status

\* Mutant: a reply that timed out leaves no error class.
EnqueueQuietly(w) ==
  /\ pc[w] = "enqueue"
  /\ IF local[w].stage = "acknowledging"
     THEN /\ ack' = Accepted(ack) /\ UNCHANGED result
          /\ \/ Leave(w, local[w])
             \/ Leave(w, Done(local[w], "adapter_ack_failed"))
     ELSE /\ result' = [result EXCEPT !.status = Accepted(@)] /\ UNCHANGED ack
          /\ \/ Leave(w, local[w])
             \/ Leave(w, Done(local[w], local[w].class))
  /\ UNCHANGED <<exec, leaseVars, jenkinsVars, answers, configVars, faults>>

\* Append and MarkGatewayDeliveryAccepted; then the reply may have timed out.
Enqueue(w) ==
  /\ pc[w] = "enqueue"
  /\ IF local[w].stage = "acknowledging"
     THEN /\ ack' = Accepted(ack) /\ UNCHANGED result
          /\ \/ Leave(w, local[w])
             \/ Leave(w, Done(local[w], "adapter_ack_failed"))
     ELSE /\ result' = [result EXCEPT !.status = Accepted(@)] /\ UNCHANGED ack
          /\ \/ Leave(w, local[w])
             \/ Leave(w, Done(local[w], "adapter_reply_failed"))
  /\ UNCHANGED <<exec, leaseVars, jenkinsVars, answers, configVars, faults>>

\* Mutant: the intent is saved with the rest, after the POST.
TriggerUnsaved(w) ==
  LET x == Advance(local[w], "triggering") IN
  /\ At(w, "ready")
  /\ local' = [local EXCEPT ![w] = x]
  /\ pc' = [pc EXCEPT ![w] = "post"]
  /\ UNCHANGED <<exec, leaseVars, replyVars, jenkinsVars, answers, configVars, faults>>

\* The intent is saved before the POST; if it cannot be, nothing is sent (the
\* save that follows may still do it).  The bot may have another name by now,
\* so that the message is none for it.
Trigger(w) ==
  LET x == Advance(local[w], "triggering") IN
  /\ At(w, "ready")
  /\ \/ /\ Leave(w, Terminal(local[w], "INVALID_REQUEST"))
        /\ UNCHANGED <<exec, faults>>
     \/ /\ Holds(w)
        /\ exec' = x
        /\ local' = [local EXCEPT ![w] = x]
        /\ pc' = [pc EXCEPT ![w] = "post"]
        /\ UNCHANGED faults
     \/ /\ ~Holds(w)
        /\ Leave(w, x)
        /\ UNCHANGED <<exec, faults>>
     \/ /\ faults < MaxFaults
        /\ faults' = faults + 1
        /\ Leave(w, x)
        /\ UNCHANGED exec
  /\ UNCHANGED <<leaseVars, replyVars, jenkinsVars, answers, configVars>>

\* buildWithParameters: refused; taken and answered; or the answer is missing,
\* and the request was taken, is on its way, or never left.
Post(w) ==
  /\ pc[w] = "post"
  /\ \/ /\ Leave(w, Terminal(local[w], "JENKINS_TRIGGER_FAILED"))
        /\ posts' = posts + 1
        /\ UNCHANGED <<jenkins, onTheWay>>
     \/ /\ Leave(w, Advance(local[w], "queued"))
        /\ posts' = posts + 1 /\ jenkins' = "queued"
        /\ UNCHANGED onTheWay
     \/ /\ Leave(w, local[w])
        /\ \/ posts' = posts + 1 /\ jenkins' = "queued" /\ UNCHANGED onTheWay
           \/ posts' = posts + 1 /\ onTheWay' = TRUE /\ UNCHANGED jenkins
           \/ UNCHANGED jenkinsVars
  /\ UNCHANGED <<exec, leaseVars, replyVars, answers, configVars, faults>>

\* What find makes of x: the queue item, or one of the last 100 builds.
Found(x) ==
  (IF jenkins = "queued" THEN {Advance(x, "queued")} ELSE {Answered(x)})
    \cup (IF jenkins \in {"building", "succeeded", "failed"}
          THEN {Advance(x, "building")} ELSE {})

\* Mutant: the search for the build has no deadline.
ReconcileForever(w) ==
  /\ At(w, "triggering")
  /\ \E x \in Found(local[w]) \cup {NetworkFailure(local[w])} : Leave(w, x)
  /\ UNCHANGED <<exec, leaseVars, replyVars, jenkinsVars, answers, configVars, faults>>

\* After a trigger without an answer the build is only looked for.
Reconcile(w) ==
  /\ At(w, "triggering")
  /\ \E x \in Found(local[w])
           \cup {NetworkFailure(local[w]), Terminal(local[w], "JENKINS_TRIGGER_UNCERTAIN")} :
       Leave(w, x)
  /\ UNCHANGED <<exec, leaseVars, replyVars, jenkinsVars, answers, configVars, faults>>

\* Mutant: a queue item that is gone counts as a build that was cancelled.
PollQueueGone(w) ==
  /\ At(w, "queued")
  /\ \E x \in {NetworkFailure(local[w]), Terminal(local[w], "JENKINS_QUEUE_TIMEOUT"),
               Answered(local[w])}
           \cup (IF jenkins # "queued"
                 THEN {Terminal(local[w], "JENKINS_TRIGGER_FAILED")} ELSE {}) :
       Leave(w, x)
  /\ UNCHANGED <<exec, leaseVars, replyVars, jenkinsVars, answers, configVars, faults>>

\* The queue item may be gone, and then the build is looked for.
PollQueue(w) ==
  /\ At(w, "queued")
  /\ \E x \in {NetworkFailure(local[w]), Terminal(local[w], "JENKINS_QUEUE_TIMEOUT"),
               Answered(local[w])}
           \cup (IF jenkins = "cancelled"
                 THEN {Terminal(local[w], "JENKINS_TRIGGER_FAILED")} ELSE {})
           \cup (IF jenkins \in {"building", "succeeded", "failed"}
                 THEN {Advance(local[w], "building")} ELSE {}) :
       Leave(w, x)
  /\ UNCHANGED <<exec, leaseVars, replyVars, jenkinsVars, answers, configVars, faults>>

PollBuild(w) ==
  /\ At(w, "building")
  /\ \E x \in {NetworkFailure(local[w]), Terminal(local[w], "JENKINS_BUILD_TIMEOUT")}
           \cup (IF jenkins = "building" THEN {Answered(local[w])}
                 ELSE {Advance(local[w], "result")}) :
       Leave(w, x)
  /\ UNCHANGED <<exec, leaseVars, replyVars, jenkinsVars, answers, configVars, faults>>

\* The console has the result, or is too long, or has none that is valid
\* (RESULT_UNAVAILABLE, or JENKINS_BUILD_FAILED if the build failed as well).
\* jenkins is what the result says; BUSINESS_FAILED stands for every code of a
\* result that is not a success.
FetchResult(w) ==
  LET verdict == IF jenkins = "succeeded" THEN "succeeded" ELSE "BUSINESS_FAILED"
      x == [Terminal(local[w], verdict) EXCEPT !.payload = verdict]
  IN
  /\ At(w, "result")
  /\ \E y \in {x, NetworkFailure(local[w]), Terminal(local[w], "RESULT_UNAVAILABLE"),
               Terminal(local[w], "RESULT_LIMIT_EXCEEDED")} :
       Leave(w, y)
  /\ UNCHANGED <<exec, leaseVars, replyVars, jenkinsVars, answers, configVars, faults>>

\* A store or queue call fails: the call leaves with what it has.
FailCall(w) ==
  /\ pc[w] \in {"step", "enqueue"}
  /\ faults < MaxFaults
  /\ faults' = faults + 1
  /\ Leave(w, local[w])
  /\ UNCHANGED <<exec, leaseVars, replyVars, jenkinsVars, answers, configVars>>

\* Mutant: the save does not look at the lease.
SaveUnfenced(w) ==
  /\ pc[w] = "save"
  /\ exec' = local[w]
  /\ leased' = FALSE
  /\ answers' = IF local[w].stage = "done"
                THEN answers \cup {local[w].class} ELSE answers
  /\ pc' = [pc EXCEPT ![w] = "idle"]
  /\ UNCHANGED <<owner, replyVars, jenkinsVars, local, configVars, faults>>

\* SaveAdapterExecution with release, and what the inbound worker is told.  A
\* call whose lease is gone changes nothing and answers nothing.
Save(w) ==
  /\ pc[w] = "save"
  /\ IF Holds(w)
     THEN /\ exec' = local[w]
          /\ leased' = FALSE
          /\ answers' = IF local[w].stage = "done"
                        THEN answers \cup {local[w].class} ELSE answers
     ELSE UNCHANGED <<exec, leased, answers>>
  /\ pc' = [pc EXCEPT ![w] = "idle"]
  /\ UNCHANGED <<owner, replyVars, jenkinsVars, local, configVars, faults>>

------------------------------------------------------------------------------
(* Around it *)

\* A call ends without its save; the lease stays.
Crash(w) ==
  /\ pc[w] # "idle"
  /\ faults < MaxFaults
  /\ faults' = faults + 1
  /\ pc' = [pc EXCEPT ![w] = "idle"]
  /\ UNCHANGED <<exec, leaseVars, replyVars, jenkinsVars, local, answers, configVars>>

\* The lease runs out; that its holder is still at work is a fault.
ExpireLease ==
  /\ leased
  /\ leased' = FALSE
  /\ IF pc[owner] = "idle" THEN UNCHANGED faults
     ELSE faults < MaxFaults /\ faults' = faults + 1
  /\ UNCHANGED <<exec, owner, replyVars, jenkinsVars, pc, local, answers, configVars>>

\* The process is started again, with another job.
ChangeConfig ==
  /\ changes < MaxConfigChanges
  /\ changes' = changes + 1
  /\ config' \in Configs \ {config}
  /\ pc' = [w \in Workers |-> "idle"]
  /\ UNCHANGED <<exec, leaseVars, replyVars, jenkinsVars, local, answers, request, faults>>

\* The outbound gateway delivers a reply, or gives it up; a dead letter that an
\* operator replays may yet be delivered.
Settle(status) ==
  CASE status = "accepted" -> {"succeeded", "failed"}
    [] status = "failed" -> {"succeeded"}
    [] OTHER -> {}

SettleReply ==
  /\ \/ \E s \in Settle(ack) : ack' = s /\ UNCHANGED result
     \/ \E s \in Settle(result.status) :
          result' = [result EXCEPT !.status = s] /\ UNCHANGED ack
  /\ UNCHANGED <<exec, leaseVars, jenkinsVars, pc, local, answers, configVars, faults>>

RunJenkins ==
  /\ \/ /\ onTheWay /\ onTheWay' = FALSE
        /\ jenkins' = "queued"
     \/ /\ jenkins = "queued" /\ jenkins' \in {"building", "cancelled"}
        /\ UNCHANGED onTheWay
     \/ /\ jenkins = "building" /\ jenkins' \in {"succeeded", "failed"}
        /\ UNCHANGED onTheWay
  /\ UNCHANGED <<exec, leaseVars, replyVars, posts, pc, local, answers, configVars, faults>>

------------------------------------------------------------------------------
Step(w) ==
  \/ Parse(w) \/ Acknowledge(w) \/ Report(w) \/ Enqueue(w) \/ Trigger(w) \/ Post(w)
  \/ Reconcile(w) \/ PollQueue(w) \/ PollBuild(w) \/ FetchResult(w) \/ Save(w)

Next ==
  \/ \E w \in Workers : Claim(w) \/ Step(w) \/ FailCall(w) \/ Crash(w)
  \/ ExpireLease \/ ChangeConfig \/ SettleReply \/ RunJenkins

Spec == Init /\ [][Next]_vars

------------------------------------------------------------------------------
(* Safety *)

\* "It never blindly repeats the POST": whatever is lost, retried, reclaimed or
\* replayed, Jenkins is asked for one build, whose intent is saved first; and "If an
\* acknowledgment cannot be confirmed, the Adapter does not trigger Jenkins": the
\* user has the acknowledgment before anything is run.
TriggerOnce == posts <= 1 /\ (posts > 0 => ack = "succeeded")

\* The inbound delivery succeeds only for what is no request, or for a build that
\* succeeded and whose result the user has; and every call that finds the execution
\* done says the same, on a replay too.
AnswersAreTrue ==
  /\ Cardinality(answers) <= 1
  /\ None \in answers
       => \/ request = "none"
          \/ jenkins = "succeeded" /\ result = [status |-> "succeeded", payload |-> "succeeded"]

Rank(stage) ==
  CASE stage = "new" -> 0 [] stage = "acknowledging" -> 1 [] stage = "ready" -> 2
    [] stage = "triggering" -> 3 [] stage = "queued" -> 4 [] stage = "building" -> 5
    [] stage = "result" -> 6 [] stage = "terminal" -> 7 [] stage = "done" -> 8

\* The lease fences: no late call takes the execution back to where it was, or
\* replaces the verdict.
ProgressIsKept ==
  [][/\ exec' = exec \/ Rank(exec.stage) <= Rank(exec'.stage)
     /\ exec.verdict # None => exec'.verdict = exec.verdict]_vars

------------------------------------------------------------------------------
(* Refinement *)

Promise == INSTANCE BuildRequest
  WITH acknowledged <- ack = "succeeded",
       build        <- IF posts = 0 THEN "none"
                       ELSE IF jenkins \in {"succeeded", "failed"} THEN jenkins ELSE "asked",
       verdict      <- exec.verdict,
       told         <- IF result.status = "succeeded" THEN result.payload ELSE None,
       outcome      <- IF exec.stage # "done" THEN "open"
                       ELSE IF exec.class = None THEN "ok" ELSE "failed"

\* The adapter implements the promise: whatever overlaps, is lost or late, what
\* the user is told is true of the build and stays so; after INVALID_REQUEST or
\* a timed-out acknowledgment nothing is built, after JENKINS_TRIGGER_FAILED
\* nothing runs.
KeepsPromise == Promise!Spec

------------------------------------------------------------------------------
(* Liveness *)

\* The inbound worker calls again while the entry is pending; calls go on;
\* leases run out; a stage that is looked at again and again times out.
Fairness ==
  /\ WF_vars(\E w \in Workers : Claim(w))
  /\ \A w \in Workers : WF_vars(Step(w))
  /\ WF_vars(ExpireLease)
  /\ SF_vars(\E w \in Workers :
               Step(w) /\ local'[w].stage \in {"terminal", "done"} /\ local' # local)

FairSpec == Spec /\ Fairness

\* Every execution ends, whatever Jenkins and the chat do: "failures become
\* traceable inbound DLQ deliveries", the others complete.
ExecutionEnds == <>(exec.stage = "done")
==============================================================================
