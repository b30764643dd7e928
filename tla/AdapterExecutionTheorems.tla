----------------------- MODULE AdapterExecutionTheorems -----------------------
(***************************************************************************)
(* Theorems about the embedded adapter, for every number of callers, every *)
(* set of jobs, every number of failures allowed, and every bound.         *)
(***************************************************************************)
EXTENDS AdapterExecution, FiniteSetTheorems, TLAPS

(* The invariant *)

PCs == {"idle", "step", "enqueue", "post", "save"}
Delivered == [status |-> "succeeded", payload |-> "succeeded"]

\* What any copy of the execution says, also that of a call whose lease is gone, is
\* true of the replies and of Jenkins: a, j and r are ack, jenkins and result.
Sound(x, a, j, r, q) ==
  /\ x.stage \in {"ready", "triggering", "queued", "building", "result"} => a = "succeeded"
  /\ x.verdict # None => x.stage \in {"terminal", "done"}
  /\ x.stage = "terminal" /\ x.class = None => j = "succeeded" /\ x.payload = "succeeded"
  /\ x.stage = "done" /\ x.class = None => q = "none" \/ (j = "succeeded" /\ r = Delivered)

\* y is x or further on, with the same verdict, and what is done stays as it is.
Forward(x, y) ==
  /\ Rank(x.stage) <= Rank(y.stage)
  /\ x.verdict # None => y.verdict = x.verdict
  /\ x.stage = "done" => y = x

CopiesSound ==
  /\ Sound(exec, ack, jenkins, result, request)
  /\ \A w \in Workers : Sound(local[w], ack, jenkins, result, request)

Fired == posts > 0 \/ \E w \in Workers : pc[w] = "post"

\* Only the call that holds the lease saves, and its copy is ahead of what is saved.
HolderAhead ==
  \A w \in Workers : Holds(w) /\ pc[w] # "idle" =>
    /\ Forward(exec, local[w])
    /\ Fired => Rank(local[w].stage) >= 3

\* The trigger that was sent, or is about to be, is the only one, and its intent is saved.
OneTrigger ==
  /\ posts <= 1 /\ (posts > 0 => ack = "succeeded")
  /\ Fired => Rank(exec.stage) >= 3
  /\ \A w \in Workers : pc[w] = "post" =>
       /\ posts = 0 /\ local[w].stage = "triggering"
       /\ \A v \in Workers : pc[v] = "post" => v = w
  /\ posts = 0 => jenkins = None /\ ~onTheWay
  /\ onTheWay => jenkins = None
  /\ \A w \in Workers : pc[w] = "enqueue" => local[w].stage \in {"acknowledging", "terminal"}

AnswersSaved == answers \subseteq (IF exec.stage = "done" THEN {exec.class} ELSE {})

AdapterInv == TypeOK /\ CopiesSound /\ HolderAhead /\ OneTrigger /\ AnswersSaved

------------------------------------------------------------------------------
(* The moves of an execution *)

\* Rank numbers the stages in their order.
LEMMA Ranks ==
  /\ Rank("new") = 0 /\ Rank("acknowledging") = 1 /\ Rank("ready") = 2
  /\ Rank("triggering") = 3 /\ Rank("queued") = 4 /\ Rank("building") = 5
  /\ Rank("result") = 6 /\ Rank("terminal") = 7 /\ Rank("done") = 8
BY DEF Rank

\* The ranks are numbers.
LEMMA RankType == \A s \in Stage : Rank(s) \in 0 .. 8
BY Ranks DEF Stage

\* To move from x to y is sound when the replies and Jenkins are as a, j, r and q say.
Moves(x, y, a, j, r, q) ==
  y \in Execution /\ Forward(x, y) /\ Sound(y, a, j, r, q)

\* Staying where one is.
LEMMA StayMove ==
  ASSUME NEW x \in Execution, NEW a, NEW j, NEW r, NEW q, Sound(x, a, j, r, q)
  PROVE  Moves(x, x, a, j, r, q)
BY RankType DEF Moves, Forward, Execution

\* Another stage before the end.
LEMMA AdvanceMove ==
  ASSUME NEW x \in Execution, NEW a, NEW j, NEW r, NEW q, Sound(x, a, j, r, q),
         NEW s \in Stage \ {"terminal", "done"}, Rank(x.stage) <= Rank(s),
         s \notin {"new", "acknowledging"} => a = "succeeded"
  PROVE  Moves(x, Advance(x, s), a, j, r, q)
<1> DEFINE y == Advance(x, s)
<1>0. 0 \in 0 .. MaxFailures
  BY ConstantsAssumption
<1>1. y \in Execution
  BY <1>0 DEF Advance, Execution
<1>2. y.stage = s /\ y.verdict = x.verdict /\ y.class = x.class /\ y.payload = x.payload
  BY DEF Advance, Execution
<1>3. x.stage \notin {"terminal", "done"}
  BY Ranks DEF Stage
<1> HIDE DEF y
<1>4. Forward(x, y)
  BY <1>2, <1>3 DEF Forward
<1>5. Sound(y, a, j, r, q)
  BY <1>2, <1>3 DEF Sound, Stage
<1> QED BY <1>1, <1>4, <1>5 DEF Moves, y

\* The end, without success.
LEMMA TerminalMove ==
  ASSUME NEW x \in Execution, NEW a, NEW j, NEW r, NEW q, Sound(x, a, j, r, q),
         x.stage \notin {"terminal", "done"}, NEW v \in Verdict \ {"succeeded"}
  PROVE  Moves(x, Terminal(x, v), a, j, r, q)
<1> DEFINE y == Terminal(x, v)
<1>1. 0 \in 0 .. MaxFailures /\ "terminal" \in Stage /\ v \in Class
  BY ConstantsAssumption DEF Stage, Class
<1>2. y \in Execution
  BY <1>1 DEF Terminal, Advance, Execution
<1>3. y.stage = "terminal" /\ y.verdict = v /\ y.class = v
  BY DEF Terminal, Advance, Execution
<1>4. v # None
  BY DEF Verdict, None
<1>5. Rank(x.stage) <= Rank("terminal")
  BY Ranks DEF Execution, Stage
<1> HIDE DEF y
<1>6. Forward(x, y)
  BY <1>3, <1>5 DEF Forward, Sound
<1>7. Sound(y, a, j, r, q)
  BY <1>3, <1>4 DEF Sound
<1> QED BY <1>2, <1>6, <1>7 DEF Moves, y

\* An answer, or a failure that is counted, leaves stage and verdict.
Counted(x, n, c) == [x EXCEPT !.failures = n, !.class = c]

\* To count is to stay where one is.
LEMMA CountMove ==
  ASSUME NEW x \in Execution, NEW a, NEW j, NEW r, NEW q, Sound(x, a, j, r, q),
         x.stage \notin {"terminal", "done"},
         NEW n \in 0 .. MaxFailures, NEW c \in Class
  PROVE  Moves(x, Counted(x, n, c), a, j, r, q)
<1> DEFINE y == Counted(x, n, c)
<1>1. y \in Execution
  BY DEF Counted, Execution
<1>2. y.stage = x.stage /\ y.verdict = x.verdict
  BY DEF Counted, Execution
<1>3. Rank(x.stage) <= Rank(x.stage)
  BY RankType DEF Execution
<1> HIDE DEF y
<1>4. Forward(x, y)
  BY <1>2, <1>3 DEF Forward
<1>5. Sound(y, a, j, r, q)
  BY <1>2 DEF Sound
<1> QED BY <1>1, <1>4, <1>5 DEF Moves, y

\* Too many failures end the execution.
LEMMA FailureMove ==
  ASSUME NEW x \in Execution, NEW a, NEW j, NEW r, NEW q, Sound(x, a, j, r, q),
         x.stage \notin {"terminal", "done"}
  PROVE  Moves(x, NetworkFailure(x), a, j, r, q)
<1>1. x.failures \in Nat
  BY ConstantsAssumption DEF Execution
<1>2. CASE x.failures + 1 < MaxFailures
  <2>1. x.failures + 1 \in 0 .. MaxFailures /\ "jenkins_unavailable" \in Class
    BY <1>1, <1>2, ConstantsAssumption DEF Class
  <2>2. NetworkFailure(x) = Counted(x, x.failures + 1, "jenkins_unavailable")
    BY <1>2 DEF NetworkFailure, Counted
  <2> QED BY <2>1, <2>2, CountMove
<1>3. CASE ~(x.failures + 1 < MaxFailures)
  <2>1. NetworkFailure(x) = Terminal(x, "JENKINS_UNAVAILABLE")
    BY <1>3 DEF NetworkFailure
  <2> QED BY <2>1, TerminalMove DEF Verdict
<1> QED BY <1>2, <1>3

\* An answer clears the failures.
LEMMA AnsweredMove ==
  ASSUME NEW x \in Execution, NEW a, NEW j, NEW r, NEW q, Sound(x, a, j, r, q),
         x.stage \notin {"terminal", "done"}
  PROVE  Moves(x, Answered(x), a, j, r, q)
<1>1. 0 \in 0 .. MaxFailures /\ x.class \in Class
  BY ConstantsAssumption DEF Execution
<1>2. Answered(x) = Counted(x, 0, x.class)
  BY DEF Answered, Counted, Execution
<1> QED BY <1>1, <1>2, CountMove

\* An execution that is done, with an error class.
LEMMA DoneMove ==
  ASSUME NEW x \in Execution, NEW a, NEW j, NEW r, NEW q, Sound(x, a, j, r, q),
         x.stage # "done", NEW c \in Class \ {None}
  PROVE  Moves(x, Done(x, c), a, j, r, q)
<1> DEFINE y == Done(x, c)
<1>1. "done" \in Stage
  BY DEF Stage
<1>2. y \in Execution
  BY <1>1 DEF Done, Execution
<1>3. y.stage = "done" /\ y.verdict = x.verdict /\ y.class = c
  BY DEF Done, Execution
<1>4. Rank(x.stage) <= Rank("done")
  BY Ranks DEF Execution, Stage
<1> HIDE DEF y
<1>5. Forward(x, y)
  BY <1>3, <1>4 DEF Forward
<1>6. Sound(y, a, j, r, q)
  BY <1>3 DEF Sound
<1> QED BY <1>2, <1>5, <1>6 DEF Moves, y

------------------------------------------------------------------------------
(* The steps of a call *)

\* What the replies, Jenkins and the configuration may do while a call works.
Later ==
  /\ ack = "succeeded" => ack' = "succeeded"
  /\ jenkins = "succeeded" => jenkins' = "succeeded"
  /\ result = Delivered => result' = Delivered
  /\ request' = request

\* What a copy says stays true.
LEMMA SoundStays ==
  ASSUME Later, NEW x, Sound(x, ack, jenkins, result, request)
  PROVE  Sound(x, ack', jenkins', result', request')
BY DEF Later, Sound

\* The types that the steps of a call have to keep.
ReplyTypes ==
  /\ ack \in ReplyStatus
  /\ result \in [status : ReplyStatus, payload : Verdict \cup {None}]
  /\ faults \in 0 .. MaxFaults

\* A call moves its copy, and does nothing else that others could see but replies.
LEMMA LocalStep ==
  ASSUME AdapterInv, NEW w \in Workers, pc[w] # "idle", NEW p \in PCs \ {"post"}, NEW x,
         local' = [local EXCEPT ![w] = x], pc' = [pc EXCEPT ![w] = p],
         Later, Moves(local[w], x, ack', jenkins', result', request'), ReplyTypes',
         p = "enqueue" => x.stage \in {"acknowledging", "terminal"},
         UNCHANGED <<exec, leaseVars, jenkinsVars, answers, configVars>>
  PROVE  AdapterInv'
<1>1. /\ TypeOK /\ exec \in Execution /\ local[w] \in Execution /\ x \in Execution
      /\ pc \in [Workers -> PCs]
  BY DEF AdapterInv, TypeOK, Moves, PCs
<1>2. /\ local'[w] = x /\ \A v \in Workers \ {w} : local'[v] = local[v]
      /\ pc'[w] = p /\ \A v \in Workers \ {w} : pc'[v] = pc[v]
  BY <1>1 DEF TypeOK
<1>3. TypeOK'
  BY <1>1 DEF TypeOK, ReplyTypes, PCs, leaseVars, jenkinsVars, configVars
<1>4. CopiesSound'
  <2>1. Sound(exec, ack', jenkins', result', request')
    BY SoundStays DEF AdapterInv, CopiesSound
  <2>2. \A v \in Workers \ {w} : Sound(local[v], ack', jenkins', result', request')
    BY SoundStays DEF AdapterInv, CopiesSound
  <2>3. Sound(x, ack', jenkins', result', request')
    BY DEF Moves
  <2> QED BY <1>2, <2>1, <2>2, <2>3 DEF CopiesSound
<1>5. Fired' => Fired
  BY <1>2 DEF Fired, jenkinsVars
<1>6. HolderAhead'
  <2>1. ASSUME NEW v \in Workers, Holds(v)', pc'[v] # "idle"
        PROVE  Forward(exec, local'[v]) /\ (Fired' => Rank(local'[v].stage) >= 3)
    <3>1. Holds(v) /\ pc[v] # "idle"
      BY <1>2, <2>1 DEF Holds, leaseVars
    <3>2. Forward(exec, local[v]) /\ (Fired => Rank(local[v].stage) >= 3)
      BY <3>1 DEF AdapterInv, HolderAhead
    <3>3. CASE v # w
      BY <1>2, <1>5, <3>2, <3>3
    <3>4. CASE v = w
      <4>1. Forward(local[w], x)
        BY DEF Moves
      <4>2. Rank(exec.stage) \in Nat /\ Rank(local[w].stage) \in Nat /\ Rank(x.stage) \in Nat
        BY <1>1, RankType DEF Execution
      <4> QED BY <1>2, <1>5, <3>2, <3>4, <4>1, <4>2 DEF Forward
    <3> QED BY <3>3, <3>4
  <2> QED BY <2>1 DEF HolderAhead
<1>7. OneTrigger'
  BY <1>2, <1>5 DEF AdapterInv, OneTrigger, Later, jenkinsVars
<1>8. AnswersSaved'
  BY DEF AdapterInv, AnswersSaved
<1> QED BY <1>3, <1>4, <1>6, <1>7, <1>8 DEF AdapterInv

\* A call that is at work has a copy that is typed and sound.
LEMMA CopyFacts ==
  ASSUME AdapterInv, NEW w \in Workers
  PROVE  /\ local[w] \in Execution
         /\ Sound(local[w], ack, jenkins, result, request)
BY DEF AdapterInv, TypeOK, CopiesSound

\* A step that leaves with a sound move of the copy, and touches nothing else.
LEMMA LeaveStep ==
  ASSUME AdapterInv, NEW w \in Workers, pc[w] # "idle", NEW x, Leave(w, x),
         Moves(local[w], x, ack, jenkins, result, request), faults' \in 0 .. MaxFaults,
         UNCHANGED <<exec, leaseVars, replyVars, jenkinsVars, answers, configVars>>
  PROVE  AdapterInv'
<1>1. Later /\ UNCHANGED <<ack, jenkins, result, request>>
  BY DEF Later, replyVars, jenkinsVars, configVars
<1>2. ReplyTypes'
  BY <1>1 DEF ReplyTypes, AdapterInv, TypeOK
<1>3. local' = [local EXCEPT ![w] = x] /\ pc' = [pc EXCEPT ![w] = "save"]
  BY DEF Leave
<1> QED BY <1>1, <1>2, <1>3, LocalStep DEF PCs

\* The faults are within their bound.
LEMMA FaultsStay == AdapterInv => faults \in 0 .. MaxFaults
BY DEF AdapterInv, TypeOK

\* Parse: a request goes on, what is none ends, also without an error.
LEMMA ParseKeeps ==
  ASSUME AdapterInv, NEW w \in Workers, Parse(w)
  PROVE  AdapterInv'
<1> DEFINE x == local[w]
<1>1. /\ x \in Execution /\ Sound(x, ack, jenkins, result, request)
      /\ x.stage = "new" /\ pc[w] # "idle"
  BY CopyFacts DEF Parse, At
<1>2. faults' \in 0 .. MaxFaults
  BY FaultsStay DEF Parse
<1>3. UNCHANGED <<exec, leaseVars, replyVars, jenkinsVars, answers, configVars>>
  BY DEF Parse
<1>4. request \in {"none", "invalid", "valid"}
  BY DEF AdapterInv, TypeOK
<1>5. CASE request = "invalid"
  <2>1. Moves(x, Terminal(x, "INVALID_REQUEST"), ack, jenkins, result, request)
    BY <1>1, TerminalMove DEF Verdict
  <2>2. Leave(w, Terminal(x, "INVALID_REQUEST"))
    BY <1>5 DEF Parse
  <2> QED BY <1>1, <1>2, <1>3, <2>1, <2>2, LeaveStep
<1>6. CASE request = "none"
  <2> DEFINE y == Done(x, x.class)
  <2>1. y \in Execution /\ y.stage = "done" /\ y.verdict = x.verdict
    BY <1>1 DEF Done, Execution, Stage
  <2>2. Rank(x.stage) <= Rank(y.stage)
    BY <1>1, <2>1, Ranks
  <2>3. Leave(w, y)
    BY <1>6 DEF Parse
  <2> HIDE DEF y
  <2>4. Moves(x, y, ack, jenkins, result, request)
    BY <1>1, <1>6, <2>1, <2>2 DEF Moves, Forward, Sound
  <2> QED BY <1>1, <1>2, <1>3, <2>3, <2>4, LeaveStep
<1>7. CASE request = "valid"
  <2>1. Moves(x, Advance(x, "acknowledging"), ack, jenkins, result, request)
    BY <1>1, AdvanceMove, Ranks DEF Stage
  <2>2. Leave(w, Advance(x, "acknowledging"))
    BY <1>7 DEF Parse
  <2> QED BY <1>1, <1>2, <1>3, <2>1, <2>2, LeaveStep
<1> QED BY <1>4, <1>5, <1>6, <1>7

\* Acknowledge: only an acknowledgment that was delivered makes the request ready.
LEMMA AcknowledgeKeeps ==
  ASSUME AdapterInv, NEW w \in Workers, Acknowledge(w)
  PROVE  AdapterInv'
<1> DEFINE x == local[w]
<1>1. /\ x \in Execution /\ Sound(x, ack, jenkins, result, request)
      /\ x.stage = "acknowledging" /\ pc[w] = "step"
  BY CopyFacts DEF Acknowledge, At
<1>2. UNCHANGED <<exec, leaseVars, result, jenkinsVars, answers, configVars, faults>>
  BY DEF Acknowledge
<1>3. faults' \in 0 .. MaxFaults /\ ack \in ReplyStatus
  BY <1>2, FaultsStay DEF AdapterInv, TypeOK
<1>4. ack # None => ack' = ack
  BY DEF Acknowledge
<1>5. CASE ack = "succeeded" /\ Leave(w, Advance(x, "ready"))
  <2>1. Moves(x, Advance(x, "ready"), ack, jenkins, result, request)
    BY <1>1, <1>5, AdvanceMove, Ranks DEF Stage
  <2>2. UNCHANGED replyVars
    BY <1>2, <1>4, <1>5 DEF replyVars, None
  <2> QED BY <1>1, <1>2, <1>3, <1>5, <2>1, <2>2, LeaveStep
<1>6. CASE ack \in {"succeeded", "failed"} /\ Leave(w, Done(x, "adapter_ack_failed"))
  <2>1. Moves(x, Done(x, "adapter_ack_failed"), ack, jenkins, result, request)
    BY <1>1, DoneMove DEF Class, None
  <2>2. UNCHANGED replyVars
    BY <1>2, <1>4, <1>6 DEF replyVars, None
  <2> QED BY <1>1, <1>2, <1>3, <1>6, <2>1, <2>2, LeaveStep
<1>7. CASE ack \notin {"succeeded", "failed"} /\ pc' = [pc EXCEPT ![w] = "enqueue"] /\ UNCHANGED local
  <2>1. Later
    BY <1>2, <1>7 DEF Later, jenkinsVars, configVars
  <2>2. Moves(x, x, ack', jenkins', result', request')
    BY <1>1, <2>1, SoundStays, StayMove
  <2>3. local' = [local EXCEPT ![w] = x]
    BY <1>7 DEF AdapterInv, TypeOK
  <2>4. ReplyTypes'
    BY <1>2, <1>3 DEF Acknowledge, ReplyTypes, ReplyStatus, AdapterInv, TypeOK
  <2> QED BY <1>1, <1>2, <1>7, <2>1, <2>2, <2>3, <2>4, LocalStep DEF PCs
<1> QED BY <1>5, <1>6, <1>7 DEF Acknowledge

\* Report: a success is told only with the payload the user has.
LEMMA ReportKeeps ==
  ASSUME AdapterInv, NEW w \in Workers, Report(w)
  PROVE  AdapterInv'
<1> DEFINE payload == IF local[w].payload = None THEN local[w].verdict ELSE local[w].payload
           x == [local[w] EXCEPT !.payload = payload]
<1>1. /\ local[w] \in Execution /\ Sound(local[w], ack, jenkins, result, request)
      /\ local[w].stage = "terminal" /\ pc[w] = "step"
  BY CopyFacts DEF Report, At
<1>2. UNCHANGED <<exec, leaseVars, ack, jenkinsVars, answers, configVars, faults>>
  BY DEF Report
<1>3. /\ faults \in 0 .. MaxFaults /\ ack \in ReplyStatus
      /\ result \in [status : ReplyStatus, payload : Verdict \cup {None}]
  BY DEF AdapterInv, TypeOK
<1>4. /\ x \in Execution /\ x.stage = "terminal" /\ x.verdict = local[w].verdict
      /\ x.class = local[w].class /\ x.payload = payload
      /\ payload \in Verdict \cup {None}
      /\ local[w].payload # None => payload = local[w].payload
  BY <1>1 DEF Execution
<1>5. /\ result' = IF result.status = None
                   THEN [status |-> "created", payload |-> payload] ELSE result
      /\ \/ result'.payload # payload /\ Leave(w, x)
         \/ /\ result'.payload = payload
            /\ \/ result.status = "succeeded" /\ Leave(w, [x EXCEPT !.stage = "done"])
               \/ result.status = "failed" /\ Leave(w, Done(x, "adapter_reply_failed"))
               \/ /\ result.status \notin {"succeeded", "failed"}
                  /\ local' = [local EXCEPT ![w] = x]
                  /\ pc' = [pc EXCEPT ![w] = "enqueue"]
  BY DEF Report
<1> HIDE DEF x, payload
<1>6. result' \in [status : ReplyStatus, payload : Verdict \cup {None}]
  BY <1>3, <1>4, <1>5 DEF ReplyStatus
<1>7. Later
  BY <1>2, <1>5 DEF Later, Delivered, None, jenkinsVars, configVars
<1>8. ReplyTypes'
  BY <1>2, <1>3, <1>6 DEF ReplyTypes
<1>9. Sound(local[w], ack', jenkins', result', request')
  BY <1>1, <1>7, SoundStays
<1>10. Sound(x, ack', jenkins', result', request')
  BY <1>1, <1>4, <1>9 DEF Sound, None
<1>11. Forward(local[w], x)
  BY <1>1, <1>4, Ranks DEF Forward
<1>12. Moves(local[w], x, ack', jenkins', result', request')
  BY <1>4, <1>10, <1>11 DEF Moves
<1>13. CASE Leave(w, x)
  BY <1>1, <1>2, <1>7, <1>8, <1>12, <1>13, LocalStep DEF PCs, Leave
<1>14. CASE /\ result'.payload = payload /\ result.status = "succeeded"
            /\ Leave(w, [x EXCEPT !.stage = "done"])
  <2> DEFINE y == [x EXCEPT !.stage = "done"]
  <2>1. /\ y \in Execution /\ y.stage = "done" /\ y.verdict = local[w].verdict
        /\ y.class = local[w].class
    BY <1>4 DEF Execution, Stage
  <2>2. result' = [status |-> "succeeded", payload |-> payload]
    BY <1>3, <1>5, <1>14 DEF None
  <2>3. local[w].class = None => payload = "succeeded"
    BY <1>1, <1>4 DEF Sound, None
  <2>4. local' = [local EXCEPT ![w] = y] /\ pc' = [pc EXCEPT ![w] = "save"]
    BY <1>14 DEF Leave
  <2> HIDE DEF y
  <2>5. Sound(y, ack', jenkins', result', request')
    BY <1>1, <1>9, <2>1, <2>2, <2>3 DEF Sound, Delivered
  <2>6. Forward(local[w], y)
    BY <1>1, <2>1, Ranks DEF Forward
  <2>7. Moves(local[w], y, ack', jenkins', result', request')
    BY <2>1, <2>5, <2>6 DEF Moves
  <2> QED BY <1>1, <1>2, <1>7, <1>8, <2>4, <2>7, LocalStep DEF PCs
<1>15. CASE Leave(w, Done(x, "adapter_reply_failed"))
  <2> DEFINE y == Done(x, "adapter_reply_failed")
  <2>1. Moves(x, y, ack', jenkins', result', request')
    BY <1>4, <1>10, DoneMove DEF Class, None
  <2>2. local' = [local EXCEPT ![w] = y] /\ pc' = [pc EXCEPT ![w] = "save"]
    BY <1>15 DEF Leave
  <2> HIDE DEF y
  <2>3. Moves(local[w], y, ack', jenkins', result', request')
    BY <1>1, <1>4, <1>11, <2>1 DEF Moves, Forward
  <2> QED BY <1>1, <1>2, <1>7, <1>8, <2>2, <2>3, LocalStep DEF PCs
<1>16. CASE local' = [local EXCEPT ![w] = x] /\ pc' = [pc EXCEPT ![w] = "enqueue"]
  BY <1>1, <1>2, <1>4, <1>7, <1>8, <1>12, <1>16, LocalStep DEF PCs
<1> QED BY <1>5, <1>13, <1>14, <1>15, <1>16

\* Enqueue: a reply that timed out ends the call with an error class.
LEMMA EnqueueKeeps ==
  ASSUME AdapterInv, NEW w \in Workers, Enqueue(w)
  PROVE  AdapterInv'
<1> DEFINE x == local[w]
<1>1. /\ x \in Execution /\ Sound(x, ack, jenkins, result, request)
      /\ x.stage \in {"acknowledging", "terminal"} /\ pc[w] = "enqueue"
  BY CopyFacts DEF Enqueue, AdapterInv, OneTrigger
<1>2. UNCHANGED <<exec, leaseVars, jenkinsVars, answers, configVars, faults>>
  BY DEF Enqueue
<1>3. /\ faults \in 0 .. MaxFaults /\ ack \in ReplyStatus
      /\ result \in [status : ReplyStatus, payload : Verdict \cup {None}]
  BY DEF AdapterInv, TypeOK
<1>4. \/ ack' = Accepted(ack) /\ UNCHANGED result
      \/ result' = [result EXCEPT !.status = Accepted(@)] /\ UNCHANGED ack
  BY DEF Enqueue
<1>5. \A s \in ReplyStatus : Accepted(s) \in ReplyStatus /\ (s = "succeeded" => Accepted(s) = s)
  BY DEF Accepted, ReplyStatus
<1>6. /\ ack' \in ReplyStatus
      /\ result' \in [status : ReplyStatus, payload : Verdict \cup {None}]
  BY <1>3, <1>4, <1>5
<1>7. result = Delivered => result' = Delivered
  BY <1>3, <1>4, <1>5 DEF Delivered
<1>8. Later /\ ReplyTypes'
  BY <1>2, <1>3, <1>4, <1>5, <1>6, <1>7 DEF Later, ReplyTypes, jenkinsVars, configVars
<1>9. Sound(x, ack', jenkins', result', request')
  BY <1>1, <1>8, SoundStays
<1>10. PICK y \in {x, Done(x, "adapter_ack_failed"), Done(x, "adapter_reply_failed")} : Leave(w, y)
  BY DEF Enqueue
<1>11. Moves(x, y, ack', jenkins', result', request')
  <2>1. "adapter_ack_failed" \in Class \ {None} /\ "adapter_reply_failed" \in Class \ {None}
    BY DEF Class, None
  <2> QED BY <1>1, <1>9, <1>10, <2>1, StayMove, DoneMove
<1>12. local' = [local EXCEPT ![w] = y] /\ pc' = [pc EXCEPT ![w] = "save"]
  BY <1>10 DEF Leave
<1> QED BY <1>1, <1>2, <1>8, <1>11, <1>12, LocalStep DEF PCs

\* Reconcile, PollQueue and PollBuild, which only look at Jenkins.
LEMMA LooksKeep ==
  ASSUME AdapterInv, NEW w \in Workers, Reconcile(w) \/ PollQueue(w) \/ PollBuild(w)
  PROVE  AdapterInv'
<1> DEFINE x == local[w]
<1>1. /\ x \in Execution /\ Sound(x, ack, jenkins, result, request) /\ pc[w] # "idle"
      /\ x.stage \in {"triggering", "queued", "building"}
  BY CopyFacts DEF Reconcile, PollQueue, PollBuild, At
<1>2. faults' \in 0 .. MaxFaults
  BY FaultsStay DEF Reconcile, PollQueue, PollBuild
<1>3. UNCHANGED <<exec, leaseVars, replyVars, jenkinsVars, answers, configVars>>
  BY DEF Reconcile, PollQueue, PollBuild
<1>4. PICK y : /\ Leave(w, y)
               /\ \/ y = NetworkFailure(x) \/ y = Answered(x)
                  \/ \E v \in Verdict \ {"succeeded"} : y = Terminal(x, v)
                  \/ \E s \in {"queued", "building", "result"} :
                       y = Advance(x, s) /\ Rank(x.stage) <= Rank(s)
  <2>1. {"JENKINS_TRIGGER_UNCERTAIN", "JENKINS_QUEUE_TIMEOUT", "JENKINS_TRIGGER_FAILED",
         "JENKINS_BUILD_TIMEOUT"} \subseteq Verdict \ {"succeeded"}
    BY DEF Verdict
  <2>2. CASE Reconcile(w)
    <3>1. PICK y \in {Advance(x, "queued"), Answered(x), Advance(x, "building"),
                      NetworkFailure(x), Terminal(x, "JENKINS_TRIGGER_UNCERTAIN")} : Leave(w, y)
      BY <2>2 DEF Reconcile, Found
    <3>2. x.stage = "triggering"
      BY <2>2 DEF Reconcile, At
    <3> QED BY <2>1, <3>1, <3>2, Ranks
  <2>3. CASE PollQueue(w)
    <3>1. PICK y \in {NetworkFailure(x), Terminal(x, "JENKINS_QUEUE_TIMEOUT"), Answered(x),
                      Terminal(x, "JENKINS_TRIGGER_FAILED"), Advance(x, "building")} : Leave(w, y)
      BY <2>3 DEF PollQueue
    <3>2. x.stage = "queued"
      BY <2>3 DEF PollQueue, At
    <3> QED BY <2>1, <3>1, <3>2, Ranks
  <2>4. CASE PollBuild(w)
    <3>1. PICK y \in {NetworkFailure(x), Terminal(x, "JENKINS_BUILD_TIMEOUT"), Answered(x),
                      Advance(x, "result")} : Leave(w, y)
      BY <2>4 DEF PollBuild
    <3>2. x.stage = "building"
      BY <2>4 DEF PollBuild, At
    <3> QED BY <2>1, <3>1, <3>2, Ranks
  <2> QED BY <2>2, <2>3, <2>4
<1>5. Moves(x, y, ack, jenkins, result, request)
  <2>1. ack = "succeeded"
    BY <1>1 DEF Sound
  <2>2. {"queued", "building", "result"} \subseteq Stage \ {"terminal", "done"}
    BY DEF Stage
  <2> QED BY <1>1, <1>4, <2>1, <2>2, FailureMove, AnsweredMove, TerminalMove, AdvanceMove
<1> QED BY <1>1, <1>2, <1>3, <1>4, <1>5, LeaveStep

\* FetchResult: success is what Jenkins says.
LEMMA FetchResultKeeps ==
  ASSUME AdapterInv, NEW w \in Workers, FetchResult(w)
  PROVE  AdapterInv'
<1> DEFINE x == local[w]
           verdict == IF jenkins = "succeeded" THEN "succeeded" ELSE "BUSINESS_FAILED"
           z == [Terminal(x, verdict) EXCEPT !.payload = verdict]
<1>1. /\ x \in Execution /\ Sound(x, ack, jenkins, result, request) /\ pc[w] # "idle"
      /\ x.stage = "result"
  BY CopyFacts DEF FetchResult, At
<1>2. faults' \in 0 .. MaxFaults
  BY FaultsStay DEF FetchResult
<1>3. UNCHANGED <<exec, leaseVars, replyVars, jenkinsVars, answers, configVars>>
  BY DEF FetchResult
<1>4. PICK y \in {z, NetworkFailure(x), Terminal(x, "RESULT_UNAVAILABLE"),
                  Terminal(x, "RESULT_LIMIT_EXCEEDED")} : Leave(w, y)
  BY DEF FetchResult
<1>5. Moves(x, z, ack, jenkins, result, request)
  <2>1. 0 \in 0 .. MaxFailures /\ "terminal" \in Stage /\ verdict \in Verdict
        /\ (IF verdict = "succeeded" THEN None ELSE verdict) \in Class
    BY ConstantsAssumption DEF Stage, Class, Verdict
  <2>2. /\ z \in Execution /\ z.stage = "terminal" /\ z.verdict = verdict
        /\ z.payload = verdict /\ z.class = IF verdict = "succeeded" THEN None ELSE verdict
    <3> HIDE DEF verdict
    <3> QED BY <1>1, <2>1 DEF Terminal, Advance, Execution
  <2>3. z.class = None => jenkins = "succeeded" /\ z.payload = "succeeded"
    BY <2>2 DEF None
  <2> HIDE DEF z, verdict
  <2>4. Sound(z, ack, jenkins, result, request)
    BY <2>2, <2>3 DEF Sound
  <2>5. Forward(x, z)
    BY <1>1, <2>2, Ranks DEF Forward, Sound
  <2> QED BY <2>2, <2>4, <2>5 DEF Moves
<1> HIDE DEF z
<1>6. Moves(x, y, ack, jenkins, result, request)
  <2>1. {"RESULT_UNAVAILABLE", "RESULT_LIMIT_EXCEEDED"} \subseteq Verdict \ {"succeeded"}
    BY DEF Verdict
  <2> QED BY <1>1, <1>4, <1>5, <2>1, FailureMove, TerminalMove
<1> QED BY <1>1, <1>2, <1>3, <1>4, <1>6, LeaveStep

\* A call that fails leaves with what it has.
LEMMA FailCallKeeps ==
  ASSUME AdapterInv, NEW w \in Workers, FailCall(w)
  PROVE  AdapterInv'
<1>1. /\ local[w] \in Execution /\ Sound(local[w], ack, jenkins, result, request)
      /\ pc[w] # "idle"
  BY CopyFacts DEF FailCall
<1>2. faults' \in 0 .. MaxFaults
  BY FaultsStay, ConstantsAssumption DEF FailCall
<1> QED BY <1>1, <1>2, StayMove, LeaveStep DEF FailCall

\* Trigger: the lease is what makes the saved intent the only one.
LEMMA TriggerKeeps ==
  ASSUME AdapterInv, NEW w \in Workers, Trigger(w)
  PROVE  AdapterInv'
<1> DEFINE x == Advance(local[w], "triggering")
<1>1. /\ local[w] \in Execution /\ Sound(local[w], ack, jenkins, result, request)
      /\ pc[w] = "step" /\ local[w].stage = "ready"
  BY CopyFacts DEF Trigger, At
<1>2. UNCHANGED <<leaseVars, replyVars, jenkinsVars, answers, configVars>>
  BY DEF Trigger
<1>3. faults' \in 0 .. MaxFaults
  BY FaultsStay, ConstantsAssumption DEF Trigger
<1>4. Moves(local[w], x, ack, jenkins, result, request)
  <2>1. ack = "succeeded"
    BY <1>1 DEF Sound
  <2> QED BY <1>1, <2>1, AdvanceMove, Ranks DEF Stage
<1>5. CASE UNCHANGED exec /\ \E y \in {x, Terminal(local[w], "INVALID_REQUEST")} : Leave(w, y)
  <2>1. Moves(local[w], Terminal(local[w], "INVALID_REQUEST"), ack, jenkins, result, request)
    BY <1>1, TerminalMove DEF Verdict
  <2> QED BY <1>1, <1>2, <1>3, <1>4, <1>5, <2>1, LeaveStep
<1>6. CASE /\ Holds(w) /\ exec' = x
           /\ local' = [local EXCEPT ![w] = x]
           /\ pc' = [pc EXCEPT ![w] = "post"]
  <2>1. x \in Execution /\ x.stage = "triggering" /\ Sound(x, ack, jenkins, result, request)
    BY <1>1, <1>4 DEF Moves, Advance, Execution
  <2> HIDE DEF x
  <2>2. UNCHANGED <<owner, leased, ack, result, jenkins, onTheWay, posts, answers, request,
                    config, changes>>
    BY <1>2 DEF leaseVars, replyVars, jenkinsVars, configVars
  <2>3. /\ local'[w] = x /\ \A v \in Workers \ {w} : local'[v] = local[v]
        /\ pc'[w] = "post" /\ \A v \in Workers \ {w} : pc'[v] = pc[v]
    BY <1>6 DEF AdapterInv, TypeOK
  <2>4. ~Fired /\ posts = 0
    <3>1. ~Fired
      BY <1>1, <1>6, Ranks DEF AdapterInv, HolderAhead
    <3> QED BY <3>1 DEF Fired, AdapterInv, TypeOK
  <2>5. TypeOK'
    BY <1>3, <1>6, <2>1, <2>2 DEF AdapterInv, TypeOK
  <2>6. CopiesSound'
    BY <1>6, <2>1, <2>2, <2>3 DEF AdapterInv, CopiesSound
  <2>7. HolderAhead'
    <3>1. \A v \in Workers : Holds(v)' => v = w
      BY <1>6, <2>2 DEF Holds
    <3>2. Forward(x, x) /\ Rank(x.stage) >= 3
      BY <2>1, Ranks DEF Forward
    <3> QED BY <1>6, <2>3, <3>1, <3>2 DEF HolderAhead
  <2>8. OneTrigger'
    BY <1>6, <2>1, <2>2, <2>3, <2>4, Ranks DEF AdapterInv, OneTrigger, Fired
  <2>9. AnswersSaved'
    <3>1. exec.stage # "done"
      BY <1>1, <1>6, Ranks DEF AdapterInv, HolderAhead, Forward
    <3> QED BY <1>6, <2>1, <2>2, <3>1 DEF AdapterInv, AnswersSaved
  <2> QED BY <2>5, <2>6, <2>7, <2>8, <2>9 DEF AdapterInv
<1> QED BY <1>5, <1>6 DEF Trigger

\* Post: the trigger is sent, or lost before it is.
LEMMA PostKeeps ==
  ASSUME AdapterInv, NEW w \in Workers, Post(w)
  PROVE  AdapterInv'
<1> DEFINE x == local[w]
<1>1. /\ x \in Execution /\ Sound(x, ack, jenkins, result, request)
      /\ pc[w] = "post" /\ x.stage = "triggering" /\ posts = 0
      /\ jenkins = None /\ ~onTheWay
      /\ \A v \in Workers \ {w} : pc[v] # "post"
  BY CopyFacts DEF Post, AdapterInv, OneTrigger
<1>2. UNCHANGED <<exec, owner, leased, ack, result, answers, request, config, changes, faults>>
  BY DEF Post, leaseVars, replyVars, configVars
<1>3. /\ posts' \in {0, 1} /\ onTheWay' \in BOOLEAN /\ jenkins' \in {None, "queued"}
      /\ posts' = 0 => jenkins' = None /\ ~onTheWay'
      /\ onTheWay' => jenkins' = None
  <2>1. onTheWay = FALSE
    BY <1>1 DEF AdapterInv, TypeOK
  <2>2. \/ posts' = posts + 1 /\ UNCHANGED onTheWay /\ jenkins' \in {jenkins, "queued"}
        \/ posts' = posts + 1 /\ onTheWay' = TRUE /\ jenkins' = jenkins
        \/ posts' = posts /\ UNCHANGED onTheWay /\ jenkins' = jenkins
    BY DEF Post, jenkinsVars
  <2>3. CASE posts' = posts + 1 /\ UNCHANGED onTheWay /\ jenkins' \in {jenkins, "queued"}
    <3>1. posts' = 1 /\ jenkins' \in {None, "queued"}
      BY <1>1, <2>3
    <3>2. onTheWay' \in BOOLEAN /\ ~onTheWay'
      BY <2>1, <2>3
    <3> QED BY <3>1, <3>2
  <2>4. CASE posts' = posts + 1 /\ onTheWay' = TRUE /\ jenkins' = jenkins
    <3>1. posts' = 1 /\ jenkins' = None
      BY <1>1, <2>4
    <3> QED BY <2>4, <3>1
  <2>5. CASE posts' = posts /\ UNCHANGED onTheWay /\ jenkins' = jenkins
    <3>1. posts' = 0 /\ jenkins' = None
      BY <1>1, <2>5
    <3>2. onTheWay' \in BOOLEAN /\ ~onTheWay'
      BY <2>1, <2>5
    <3> QED BY <3>1, <3>2
  <2> QED BY <2>2, <2>3, <2>4, <2>5
<1>4. PICK y \in {x, Advance(x, "queued"), Terminal(x, "JENKINS_TRIGGER_FAILED")} : Leave(w, y)
  BY DEF Post
<1>5. ack = "succeeded"
  BY <1>1 DEF Sound
<1>6. Later
  BY <1>1, <1>2 DEF Later, None
<1>7. Moves(x, y, ack', jenkins', result', request')
  <2>1. Sound(x, ack', jenkins', result', request')
    BY <1>1, <1>6, SoundStays
  <2>2. "queued" \in Stage \ {"terminal", "done"} /\ "JENKINS_TRIGGER_FAILED" \in Verdict \ {"succeeded"}
    BY DEF Stage, Verdict
  <2>3. ack' = "succeeded"
    BY <1>2, <1>5
  <2>4. Rank(x.stage) <= Rank("queued")
    BY <1>1, Ranks
  <2> QED BY <1>1, <1>4, <2>1, <2>2, <2>3, <2>4, StayMove, AdvanceMove, TerminalMove
<1>8. /\ local'[w] = y /\ \A v \in Workers \ {w} : local'[v] = local[v]
      /\ pc'[w] = "save" /\ \A v \in Workers \ {w} : pc'[v] = pc[v]
      /\ local' = [local EXCEPT ![w] = y] /\ pc' = [pc EXCEPT ![w] = "save"]
  BY <1>4 DEF Leave, AdapterInv, TypeOK
<1>9. TypeOK'
  BY <1>2, <1>3, <1>7, <1>8 DEF AdapterInv, TypeOK, Moves
<1>10. CopiesSound'
  <2>1. /\ Sound(exec, ack', jenkins', result', request')
        /\ \A v \in Workers : Sound(local[v], ack', jenkins', result', request')
    BY <1>6, SoundStays DEF AdapterInv, CopiesSound
  <2> QED BY <1>2, <1>7, <1>8, <2>1 DEF CopiesSound, Moves
<1>11. Fired
  BY <1>1 DEF Fired
<1>12. HolderAhead'
  <2>1. ASSUME NEW v \in Workers, Holds(v)', pc'[v] # "idle"
        PROVE  Forward(exec, local'[v]) /\ Rank(local'[v].stage) >= 3
    <3>1. Holds(v) /\ pc[v] # "idle"
      BY <1>1, <1>2, <1>8, <2>1 DEF Holds
    <3>2. Forward(exec, local[v]) /\ Rank(local[v].stage) >= 3
      BY <1>11, <3>1 DEF AdapterInv, HolderAhead
    <3>3. Rank(exec.stage) \in Nat /\ Rank(x.stage) \in Nat /\ Rank(y.stage) \in Nat
      BY <1>1, <1>7, RankType DEF Execution, AdapterInv, TypeOK, Moves
    <3>4. Forward(x, y)
      BY <1>7 DEF Moves
    <3> QED BY <1>8, <3>2, <3>3, <3>4 DEF Forward
  <2> QED BY <1>2, <2>1 DEF HolderAhead
<1>13. OneTrigger'
  BY <1>1, <1>2, <1>3, <1>5, <1>8, <1>11 DEF AdapterInv, OneTrigger
<1>14. AnswersSaved'
  BY <1>2 DEF AdapterInv, AnswersSaved
<1> QED BY <1>9, <1>10, <1>12, <1>13, <1>14 DEF AdapterInv

\* Save: the holder puts down a copy that is ahead; another changes nothing.
LEMMA SaveKeeps ==
  ASSUME AdapterInv, NEW w \in Workers, Save(w)
  PROVE  AdapterInv'
<1>1. /\ UNCHANGED <<owner, ack, result, jenkins, onTheWay, posts, local, request, config,
                     changes, faults>>
      /\ pc[w] = "save" /\ pc' = [pc EXCEPT ![w] = "idle"]
  BY DEF Save, replyVars, jenkinsVars, configVars
<1>2. pc'[w] = "idle" /\ \A v \in Workers \ {w} : pc'[v] = pc[v]
  BY <1>1 DEF AdapterInv, TypeOK
<1>3. Fired' => Fired
  BY <1>1, <1>2 DEF Fired
<1>4. local[w] \in Execution /\ Sound(local[w], ack, jenkins, result, request)
  BY CopyFacts
<1>5. CASE /\ Holds(w) /\ exec' = local[w] /\ leased' = FALSE
           /\ answers' = IF local[w].stage = "done" THEN answers \cup {local[w].class} ELSE answers
  <2>1. Forward(exec, local[w]) /\ (Fired => Rank(local[w].stage) >= 3)
    BY <1>1, <1>5 DEF AdapterInv, HolderAhead
  <2>2. TypeOK'
    BY <1>1, <1>4, <1>5 DEF AdapterInv, TypeOK, Execution
  <2>3. CopiesSound'
    BY <1>1, <1>4, <1>5 DEF AdapterInv, CopiesSound
  <2>4. HolderAhead'
    BY <1>5 DEF HolderAhead, Holds
  <2>5. OneTrigger'
    BY <1>1, <1>2, <1>3, <1>5, <2>1 DEF AdapterInv, OneTrigger
  <2>6. AnswersSaved'
    <3>1. exec.stage = "done" => local[w] = exec
      BY <2>1 DEF Forward
    <3> QED BY <1>5, <3>1 DEF AdapterInv, AnswersSaved
  <2> QED BY <2>2, <2>3, <2>4, <2>5, <2>6 DEF AdapterInv
<1>6. CASE UNCHANGED <<exec, leased, answers>>
  <2>1. TypeOK'
    BY <1>1, <1>6 DEF AdapterInv, TypeOK
  <2>2. CopiesSound'
    BY <1>1, <1>6 DEF AdapterInv, CopiesSound
  <2>3. HolderAhead'
    BY <1>1, <1>2, <1>3, <1>6 DEF AdapterInv, HolderAhead, Holds
  <2>4. OneTrigger'
    BY <1>1, <1>2, <1>3, <1>6 DEF AdapterInv, OneTrigger
  <2>5. AnswersSaved'
    BY <1>6 DEF AdapterInv, AnswersSaved
  <2> QED BY <2>1, <2>2, <2>3, <2>4, <2>5 DEF AdapterInv
<1> QED BY <1>5, <1>6 DEF Save

\* Claim: the copy that is loaded is ahead of what is saved.
LEMMA ClaimKeeps ==
  ASSUME AdapterInv, NEW w \in Workers, Claim(w)
  PROVE  AdapterInv'
<1>1. /\ exec \in Execution /\ Sound(exec, ack, jenkins, result, request)
      /\ result.payload \in Verdict \cup {None}
  BY DEF AdapterInv, TypeOK, CopiesSound
<1>2. UNCHANGED <<exec, ack, result, jenkins, onTheWay, posts, answers, request, config,
                  changes, faults>>
  BY DEF Claim, replyVars, jenkinsVars, configVars
<1>3. Moves(exec, Loaded, ack, jenkins, result, request)
  <2> DEFINE x == IF exec.stage = "terminal" /\ exec.payload = None
                  THEN [exec EXCEPT !.payload = result.payload] ELSE exec
  <2>1. /\ x \in Execution /\ x.stage = exec.stage /\ x.verdict = exec.verdict
        /\ x.class = exec.class
        /\ exec.stage = "done" => x = exec
        /\ exec.payload # None => x.payload = exec.payload
    BY <1>1 DEF Execution
  <2>2. Loaded = IF x.job # config /\ x.stage \notin {"terminal", "done"}
                 THEN Terminal(x, "ADAPTER_CONFIG_CHANGED") ELSE x
    BY DEF Loaded
  <2> HIDE DEF x
  <2>3. Sound(x, ack, jenkins, result, request)
    BY <1>1, <2>1 DEF Sound, None
  <2>4. Rank(exec.stage) <= Rank(exec.stage)
    BY <1>1, RankType DEF Execution
  <2>5. Moves(exec, x, ack, jenkins, result, request)
    BY <2>1, <2>3, <2>4 DEF Moves, Forward
  <2>6. CASE x.job # config /\ x.stage \notin {"terminal", "done"}
    <3>1. Moves(x, Terminal(x, "ADAPTER_CONFIG_CHANGED"), ack, jenkins, result, request)
      BY <2>1, <2>3, <2>6, TerminalMove DEF Verdict
    <3>2. exec.verdict = None
      BY <1>1, <2>1, <2>6 DEF Sound
    <3> QED BY <2>1, <2>2, <2>6, <3>1, <3>2 DEF Moves, Forward
  <2> QED BY <2>2, <2>5, <2>6
<1>4. /\ pc[w] = "idle" /\ owner' = w /\ leased' = TRUE
      /\ local' = [local EXCEPT ![w] = Loaded]
  BY DEF Claim
<1>5. PICK p \in {"save", "step"} : pc' = [pc EXCEPT ![w] = p]
  BY DEF Claim
<1>6. /\ local'[w] = Loaded /\ \A v \in Workers \ {w} : local'[v] = local[v]
      /\ pc'[w] = p /\ \A v \in Workers \ {w} : pc'[v] = pc[v]
  BY <1>4, <1>5 DEF AdapterInv, TypeOK
<1>7. Fired' => Fired
  BY <1>2, <1>6 DEF Fired
<1>8. Loaded \in Execution
  BY <1>3 DEF Moves
<1>9. TypeOK'
  BY <1>2, <1>4, <1>5, <1>8 DEF AdapterInv, TypeOK
<1>10. CopiesSound'
  BY <1>2, <1>3, <1>6 DEF AdapterInv, CopiesSound, Moves
<1>11. HolderAhead'
  <2>1. \A v \in Workers : Holds(v)' => v = w
    BY <1>4 DEF Holds
  <2>2. Forward(exec, Loaded)
    BY <1>3 DEF Moves
  <2>3. Rank(exec.stage) \in Nat /\ Rank(Loaded.stage) \in Nat
    BY <1>1, <1>8, RankType DEF Execution
  <2>4. Fired => Rank(Loaded.stage) >= 3
    BY <2>2, <2>3 DEF Forward, AdapterInv, OneTrigger
  <2> QED BY <1>2, <1>6, <1>7, <2>1, <2>2, <2>4 DEF HolderAhead
<1>12. OneTrigger'
  BY <1>2, <1>4, <1>6, <1>7 DEF AdapterInv, OneTrigger
<1>13. AnswersSaved'
  BY <1>2 DEF AdapterInv, AnswersSaved
<1> QED BY <1>9, <1>10, <1>11, <1>12, <1>13 DEF AdapterInv

------------------------------------------------------------------------------
(* Around the calls *)

\* What happens around the calls: calls may end, leases run out, the job change,
\* replies settle and Jenkins work, but nothing saves or sends.
LEMMA AroundKeeps ==
  ASSUME AdapterInv, Later,
         pc' \in [Workers -> PCs], \A w \in Workers : pc'[w] \in {pc[w], "idle"},
         leased' \in BOOLEAN, leased' => leased,
         UNCHANGED <<exec, owner, posts, local, answers>>,
         posts = 0 => UNCHANGED <<jenkins, onTheWay>>,
         onTheWay' => onTheWay /\ jenkins' = jenkins, onTheWay' \in BOOLEAN,
         jenkins' \in {None, "queued", "building", "succeeded", "failed", "cancelled"},
         config' \in Configs, changes' \in 0 .. MaxConfigChanges, ReplyTypes'
  PROVE  AdapterInv'
<1>1. TypeOK'
  BY DEF AdapterInv, TypeOK, ReplyTypes, PCs, Later
<1>2. CopiesSound'
  BY SoundStays DEF AdapterInv, CopiesSound
<1>3. Fired' => Fired
  BY DEF Fired
<1>4. HolderAhead'
  BY <1>3 DEF AdapterInv, HolderAhead, Holds
<1>5. OneTrigger'
  BY <1>3 DEF AdapterInv, OneTrigger, Later
<1>6. AnswersSaved'
  BY DEF AdapterInv, AnswersSaved
<1> QED BY <1>1, <1>2, <1>4, <1>5, <1>6 DEF AdapterInv

\* A call that crashes, a lease that runs out, a restart with another job.
LEMMA FaultsKeep ==
  ASSUME AdapterInv, (\E w \in Workers : Crash(w)) \/ ExpireLease \/ ChangeConfig
  PROVE  AdapterInv'
<1>1. UNCHANGED <<exec, owner, ack, result, jenkins, onTheWay, posts, local, answers, request>>
  BY DEF Crash, ExpireLease, ChangeConfig, leaseVars, replyVars, jenkinsVars, configVars
<1>2. Later
  BY <1>1 DEF Later
<1>3. /\ TypeOK /\ ack \in ReplyStatus /\ onTheWay \in BOOLEAN
      /\ result \in [status : ReplyStatus, payload : Verdict \cup {None}]
      /\ jenkins \in {None, "queued", "building", "succeeded", "failed", "cancelled"}
  BY DEF AdapterInv, TypeOK
<1>4. faults' \in 0 .. MaxFaults
  BY FaultsStay, ConstantsAssumption DEF Crash, ExpireLease, ChangeConfig
<1>5. ReplyTypes'
  BY <1>1, <1>3, <1>4 DEF ReplyTypes
<1>6. pc' \in [Workers -> PCs] /\ \A w \in Workers : pc'[w] \in {pc[w], "idle"}
  BY <1>3 DEF Crash, ExpireLease, ChangeConfig, TypeOK, PCs
<1>7. leased' \in BOOLEAN /\ (leased' => leased)
  <2>1. leased \in BOOLEAN
    BY <1>3 DEF TypeOK
  <2>2. leased' = leased \/ leased' = FALSE
    BY DEF Crash, ExpireLease, ChangeConfig, leaseVars
  <2>3. CASE leased' = leased
    <3>1. leased' => leased
      BY <2>3
    <3>2. leased' \in BOOLEAN
      BY <2>1, <2>3
    <3> QED BY <3>1, <3>2
  <2>4. CASE leased' = FALSE
    <3>1. leased' => leased
      BY <2>4
    <3>2. leased' \in BOOLEAN
      BY <2>4
    <3> QED BY <3>1, <3>2
  <2> QED BY <2>2, <2>3, <2>4
<1>8. config' \in Configs /\ changes' \in 0 .. MaxConfigChanges
  BY <1>3, ConstantsAssumption DEF Crash, ExpireLease, ChangeConfig, configVars, TypeOK
<1>9. onTheWay' \in BOOLEAN /\ (onTheWay' => onTheWay)
  BY <1>1, <1>3
<1>10. jenkins' \in {None, "queued", "building", "succeeded", "failed", "cancelled"}
  BY <1>1, <1>3
<1> QED BY <1>1, <1>2, <1>5, <1>6, <1>7, <1>8, <1>9, <1>10, AroundKeeps

\* A reply is delivered or given up; what was delivered stays so.
LEMMA SettleKeeps ==
  ASSUME AdapterInv, SettleReply
  PROVE  AdapterInv'
<1>1. /\ UNCHANGED <<exec, owner, leased, jenkins, onTheWay, posts, pc, local, answers,
                     request, config, changes, faults>>
      /\ TypeOK
  BY DEF SettleReply, leaseVars, jenkinsVars, configVars, AdapterInv
<1>2. \A s : Settle(s) \subseteq ReplyStatus
  BY DEF Settle, ReplyStatus
<1>3. Settle("succeeded") = {}
  BY DEF Settle
<1>4. /\ ack' \in ReplyStatus
      /\ result' \in [status : ReplyStatus, payload : Verdict \cup {None}]
  BY <1>1, <1>2 DEF SettleReply, TypeOK
<1>5. ack = "succeeded" => ack' = "succeeded"
  BY <1>3 DEF SettleReply
<1>6. result = Delivered => result' = Delivered
  <2>1. Delivered.status = "succeeded"
    BY DEF Delivered
  <2> QED BY <1>3, <2>1 DEF SettleReply
<1>7. Later /\ ReplyTypes'
  BY <1>1, <1>4, <1>5, <1>6 DEF Later, ReplyTypes, TypeOK
<1>8. /\ pc \in [Workers -> PCs] /\ leased \in BOOLEAN /\ onTheWay \in BOOLEAN
      /\ jenkins \in {None, "queued", "building", "succeeded", "failed", "cancelled"}
      /\ config \in Configs /\ changes \in 0 .. MaxConfigChanges
  BY <1>1 DEF TypeOK, PCs
<1>9. pc' \in [Workers -> PCs] /\ \A w \in Workers : pc'[w] \in {pc[w], "idle"}
  BY <1>1, <1>8
<1>10. leased' \in BOOLEAN /\ (leased' => leased) /\ onTheWay' \in BOOLEAN /\ (onTheWay' => onTheWay)
  BY <1>1, <1>8
<1>11. /\ jenkins' \in {None, "queued", "building", "succeeded", "failed", "cancelled"}
       /\ config' \in Configs /\ changes' \in 0 .. MaxConfigChanges
  BY <1>1, <1>8
<1> QED BY <1>1, <1>7, <1>9, <1>10, <1>11, AroundKeeps

\* Jenkins takes a trigger that was on its way, or works on the build it has.
LEMMA JenkinsKeeps ==
  ASSUME AdapterInv, RunJenkins
  PROVE  AdapterInv'
<1>1. /\ UNCHANGED <<exec, owner, leased, ack, result, posts, pc, local, answers, request,
                     config, changes, faults>>
      /\ TypeOK /\ OneTrigger
  BY DEF RunJenkins, leaseVars, replyVars, configVars, AdapterInv
<1>2. /\ jenkins # "succeeded" /\ posts # 0
      /\ jenkins' \in {"queued", "building", "succeeded", "failed", "cancelled"}
      /\ onTheWay' \in BOOLEAN /\ ~onTheWay'
  <2>1. onTheWay \in BOOLEAN
    BY <1>1 DEF TypeOK
  <2>2. CASE onTheWay /\ onTheWay' = FALSE /\ jenkins' = "queued"
    BY <1>1, <2>2 DEF OneTrigger, None
  <2>3. CASE jenkins = "queued" /\ jenkins' \in {"building", "cancelled"} /\ UNCHANGED onTheWay
    <3>1. ~onTheWay /\ posts # 0
      BY <1>1, <2>3 DEF OneTrigger, None
    <3>2. onTheWay' \in BOOLEAN /\ ~onTheWay'
      BY <2>1, <2>3, <3>1
    <3> QED BY <2>3, <3>1, <3>2
  <2>4. CASE jenkins = "building" /\ jenkins' \in {"succeeded", "failed"} /\ UNCHANGED onTheWay
    <3>1. ~onTheWay /\ posts # 0
      BY <1>1, <2>4 DEF OneTrigger, None
    <3>2. onTheWay' \in BOOLEAN /\ ~onTheWay'
      BY <2>1, <2>4, <3>1
    <3> QED BY <2>4, <3>1, <3>2
  <2> QED BY <2>2, <2>3, <2>4 DEF RunJenkins
<1>3. Later
  BY <1>1, <1>2 DEF Later
<1>4. /\ pc \in [Workers -> PCs] /\ leased \in BOOLEAN /\ ReplyTypes
      /\ config \in Configs /\ changes \in 0 .. MaxConfigChanges
  BY <1>1 DEF TypeOK, PCs, ReplyTypes
<1>5. ReplyTypes'
  BY <1>1, <1>4 DEF ReplyTypes
<1>6. pc' \in [Workers -> PCs] /\ \A w \in Workers : pc'[w] \in {pc[w], "idle"}
  BY <1>1, <1>4
<1>7. /\ leased' \in BOOLEAN /\ (leased' => leased)
      /\ config' \in Configs /\ changes' \in 0 .. MaxConfigChanges
  BY <1>1, <1>4
<1> QED BY <1>1, <1>2, <1>3, <1>5, <1>6, <1>7, AroundKeeps

------------------------------------------------------------------------------
(* The theorems *)

\* A new execution is sound: nothing was replied or run yet.
LEMMA AdapterInit == Init => AdapterInv
<1> SUFFICES ASSUME Init PROVE AdapterInv
  OBVIOUS
<1>1. New(config) \in Execution
  BY ConstantsAssumption DEF Init, New, Execution, Stage, Class
<1>2. /\ New(config).stage = "new" /\ New(config).verdict = None
  BY DEF New
<1>3. exec = New(config) /\ \A w \in Workers : local[w] = New(config) /\ pc[w] = "idle"
  BY DEF Init
<1>4. TypeOK
  <2>1. 0 \in 0 .. MaxConfigChanges /\ 0 \in 0 .. MaxFaults
    BY ConstantsAssumption
  <2> QED BY <1>1, <2>1 DEF Init, TypeOK, ReplyStatus
<1>5. CopiesSound
  BY <1>2, <1>3 DEF CopiesSound, Sound
<1>6. HolderAhead
  BY <1>3 DEF HolderAhead
<1>7. OneTrigger
  BY <1>3 DEF Init, OneTrigger, Fired
<1>8. AnswersSaved
  BY DEF Init, AnswersSaved
<1> QED BY <1>4, <1>5, <1>6, <1>7, <1>8 DEF AdapterInv

\* Every step keeps the invariant.
LEMMA AdapterNext == AdapterInv /\ [Next]_vars => AdapterInv'
<1> SUFFICES ASSUME AdapterInv, [Next]_vars PROVE AdapterInv'
  OBVIOUS
<1>1. ASSUME NEW w \in Workers, Step(w) PROVE AdapterInv'
  BY <1>1, ParseKeeps, AcknowledgeKeeps, ReportKeeps, EnqueueKeeps, TriggerKeeps, PostKeeps,
     LooksKeep, FetchResultKeeps, SaveKeeps
  DEF Step
<1>2. ASSUME NEW w \in Workers, Claim(w) PROVE AdapterInv'
  BY <1>2, ClaimKeeps
<1>3. ASSUME NEW w \in Workers, FailCall(w) PROVE AdapterInv'
  BY <1>3, FailCallKeeps
<1>4. CASE (\E w \in Workers : Crash(w)) \/ ExpireLease \/ ChangeConfig
  BY <1>4, FaultsKeep
<1>5. CASE SettleReply
  BY <1>5, SettleKeeps
<1>6. CASE RunJenkins
  BY <1>6, JenkinsKeeps
<1>7. CASE UNCHANGED vars
  BY <1>7 DEF vars, leaseVars, replyVars, jenkinsVars, configVars, AdapterInv, TypeOK,
              CopiesSound, HolderAhead, Holds, Fired, OneTrigger, AnswersSaved
<1> QED BY <1>1, <1>2, <1>3, <1>4, <1>5, <1>6, <1>7 DEF Next

\* The invariant holds always.
LEMMA AdapterAlways == Spec => []AdapterInv
BY AdapterInit, AdapterNext, PTL DEF Spec

\* Type correctness of the execution, its copies, the replies and the lease.
THEOREM ExecutionTyped == Spec => []TypeOK
<1>1. AdapterInv => TypeOK
  BY DEF AdapterInv
<1> QED BY <1>1, AdapterAlways, PTL

\* A saved or held intent that was sent had an acknowledgment the user has.
LEMMA InvTriggerOnce == AdapterInv => TriggerOnce
BY DEF AdapterInv, OneTrigger, TriggerOnce

\* However many calls overlap, crash, lose their lease or are repeated by a replay, the
\* POST to Jenkins is sent at most once, and not before the user has the acknowledgment:
\* the intent is saved under the lease, before the POST, and a copy that is loaded
\* after it never goes back to ready.
THEOREM TriggerAtMostOnce == Spec => []TriggerOnce
BY InvTriggerOnce, AdapterAlways, PTL

\* One answer, and the good one only with what it says.
LEMMA InvAnswers == AdapterInv => AnswersAreTrue
<1> SUFFICES ASSUME AdapterInv PROVE AnswersAreTrue
  OBVIOUS
<1>1. answers = {} \/ (exec.stage = "done" /\ answers = {exec.class})
  BY DEF AdapterInv, AnswersSaved
<1>2. Cardinality(answers) \in {0, 1}
  BY <1>1, FS_EmptySet, FS_Singleton
<1>3. None \in answers => request = "none" \/ (jenkins = "succeeded" /\ result = Delivered)
  BY <1>1 DEF AdapterInv, CopiesSound, Sound
<1> QED BY <1>2, <1>3 DEF AnswersAreTrue, Delivered

\* The inbound worker is told one thing however often it calls, and success only for
\* what is no request or for a build that succeeded and whose result the user has.
THEOREM AnswersTrue == Spec => []AnswersAreTrue
BY InvAnswers, AdapterAlways, PTL

\* Only the holder of the lease saves, and what it saves is ahead.
LEMMA StepProgress ==
  ASSUME AdapterInv, [Next]_vars
  PROVE  \/ exec' = exec
         \/ /\ Rank(exec.stage) <= Rank(exec'.stage)
            /\ exec.verdict # None => exec'.verdict = exec.verdict
<1>1. CASE \E w \in Workers : Save(w) \/ Trigger(w)
  <2>1. PICK w \in Workers : Save(w) \/ Trigger(w)
    BY <1>1
  <2>2. CASE UNCHANGED exec
    BY <2>2
  <2>3. CASE Save(w) /\ ~UNCHANGED exec
    <3>1. Holds(w) /\ pc[w] # "idle" /\ exec' = local[w]
      BY <2>3 DEF Save
    <3> QED BY <3>1 DEF AdapterInv, HolderAhead, Forward
  <2>4. CASE Trigger(w) /\ ~UNCHANGED exec
    <3>1. /\ Holds(w) /\ pc[w] # "idle" /\ local[w].stage = "ready"
          /\ exec' = Advance(local[w], "triggering")
      BY <2>4 DEF Trigger, At
    <3>2. Forward(exec, local[w]) /\ local[w] \in Execution /\ exec.stage \in Stage
      BY <3>1 DEF AdapterInv, HolderAhead, TypeOK, Execution
    <3>3. exec'.stage = "triggering" /\ exec'.verdict = local[w].verdict
      BY <3>1, <3>2 DEF Advance, Execution
    <3>4. Rank(exec.stage) \in Nat /\ Rank(exec.stage) <= Rank("ready")
      BY <3>1, <3>2, RankType DEF Forward
    <3>5. Rank(exec.stage) <= Rank("triggering")
      BY <3>4, Ranks
    <3> QED BY <3>2, <3>3, <3>5 DEF Forward
  <2> QED BY <2>1, <2>2, <2>3, <2>4
<1>2. CASE ~(\E w \in Workers : Save(w) \/ Trigger(w))
  BY <1>2 DEF Next, Step, Claim, Parse, Acknowledge, Report, Enqueue, Post, Reconcile,
     PollQueue, PollBuild, FetchResult, FailCall, Crash, ExpireLease, ChangeConfig,
     SettleReply, RunJenkins, vars
<1> QED BY <1>1, <1>2

\* The lease fences: whatever a late call does, the saved execution never goes back a
\* stage, and a verdict once saved is never replaced.
THEOREM ProgressKept == Spec => ProgressIsKept
<1>1. AdapterInv /\ [Next]_vars =>
        [/\ exec' = exec \/ Rank(exec.stage) <= Rank(exec'.stage)
         /\ exec.verdict # None => exec'.verdict = exec.verdict]_vars
  BY StepProgress
<1> QED BY <1>1, AdapterAlways, PTL DEF Spec, ProgressIsKept

------------------------------------------------------------------------------
(* The adapter keeps its promise *)

\* What became of the trigger; "lost" was refused.
Fate == IF posts = 0 THEN "none"
        ELSE IF jenkins # None THEN jenkins
        ELSE IF onTheWay THEN "sent" ELSE "lost"

Seen == {"queued", "building", "succeeded", "failed", "cancelled"}

\* A verdict says the truth about the build and the request: a, f and q are ack,
\* Fate and request.
TrueVerdict(v, a, f, q) ==
  /\ v = "succeeded" => f = "succeeded"
  /\ v = "BUSINESS_FAILED" => f = "failed"
  /\ v = "JENKINS_TRIGGER_FAILED" => f \in {"lost", "cancelled"}
  /\ v \in {"JENKINS_TRIGGER_UNCERTAIN", "JENKINS_UNAVAILABLE"} => a = "succeeded"
  /\ v \in {"JENKINS_QUEUE_TIMEOUT", "JENKINS_BUILD_TIMEOUT", "RESULT_UNAVAILABLE",
            "RESULT_LIMIT_EXCEEDED"} => f \in Seen
  /\ v \notin {None, "INVALID_REQUEST", "ADAPTER_CONFIG_CHANGED"} => q = "valid"
  /\ v = "INVALID_REQUEST" => q # "none"

\* So does any copy of the execution, also that of a call whose lease is gone.
Truth(x, a, f, q) ==
  /\ x.stage = "new" => x.class = None
  /\ x.stage \notin {"new", "terminal", "done"} => q = "valid"
  /\ x.stage = "queued" => f \in Seen
  /\ x.stage = "building" => f \in {"building", "succeeded", "failed"}
  /\ x.stage = "result" => f \in {"succeeded", "failed"}
  /\ x.stage = "terminal" => x.verdict # None
  /\ x.stage = "done" /\ x.verdict = None /\ x.class # None => q = "valid"
  /\ x.verdict \notin {None, "succeeded"} => x.class # None
  /\ TrueVerdict(x.verdict, a, f, q)
  /\ x.payload # None =>
       x.stage \in {"terminal", "done"} /\ x.payload \in {x.verdict, "ADAPTER_CONFIG_CHANGED"}

CopiesTrue ==
  /\ Truth(exec, ack, Fate, request)
  /\ \A w \in Workers : Truth(local[w], ack, Fate, request)

\* What ended before it was triggered is not triggered.
NeverBuilt(x) == x.verdict = "INVALID_REQUEST" \/ (x.stage = "done" /\ x.verdict = None)

EndedUnbuilt ==
  /\ NeverBuilt(exec) => ~Fired
  /\ \A w \in Workers : Holds(w) /\ pc[w] # "idle" /\ NeverBuilt(local[w]) => ~Fired

\* A call that reports or ends has no other verdict than the one that is saved, unless
\* it found the job changed.
Reports(p, x) == p # "idle" /\ (x.stage = "done" \/ (x.stage = "terminal" /\ p # "save"))

ReportsSaved ==
  \A w \in Workers : Reports(pc[w], local[w]) =>
    local[w].verdict \in {None, exec.verdict, "ADAPTER_CONFIG_CHANGED"}

\* Nor has the reply, and a request is acknowledged only if it is one.
RepliesTrue ==
  /\ result.payload \in {None, exec.verdict, "ADAPTER_CONFIG_CHANGED"}
  /\ result.status # None => result.payload # None
  /\ ack # None => request = "valid"

PromiseInv == CopiesTrue /\ EndedUnbuilt /\ ReportsSaved /\ RepliesTrue

\* What the acknowledgment and Jenkins do while a call works, said of the fate.
TruthLater ==
  /\ ack = "succeeded" => ack' = "succeeded"
  /\ request' = request
  /\ Fate \in Seen => Fate' \in Seen
  /\ Fate \in {"building", "succeeded", "failed"} => Fate' \in {"building", "succeeded", "failed"}
  /\ Fate \in {"lost", "cancelled", "succeeded", "failed"} => Fate' = Fate

\* What is true of a copy stays so.
LEMMA TruthStays ==
  ASSUME TruthLater, NEW x, Truth(x, ack, Fate, request)
  PROVE  Truth(x, ack', Fate', request')
BY DEF TruthLater, Truth, TrueVerdict

\* Another stage before the end.
LEMMA TruthAdvance ==
  ASSUME NEW x \in Execution, NEW a, NEW f, NEW q, Truth(x, a, f, q), x.verdict = None,
         x.stage \notin {"terminal", "done"}, q = "valid",
         NEW s \in Stage \ {"new", "terminal", "done"},
         s = "queued" => f \in Seen,
         s = "building" => f \in {"building", "succeeded", "failed"},
         s = "result" => f \in {"succeeded", "failed"}
  PROVE  Truth(Advance(x, s), a, f, q)
<1> DEFINE y == Advance(x, s)
<1>1. y.stage = s /\ y.verdict = x.verdict /\ y.class = x.class /\ y.payload = x.payload
  BY DEF Advance, Execution
<1> HIDE DEF y
<1>2. x.payload = None
  BY DEF Truth
<1> QED BY <1>1, <1>2 DEF Truth, y

\* The end, with a verdict that is true.
LEMMA TruthTerminal ==
  ASSUME NEW x \in Execution, NEW a, NEW f, NEW q, Truth(x, a, f, q), x.verdict = None,
         x.stage \notin {"terminal", "done"}, NEW v \in Verdict, TrueVerdict(v, a, f, q)
  PROVE  Truth(Terminal(x, v), a, f, q)
<1> DEFINE y == Terminal(x, v)
<1>1. /\ y.stage = "terminal" /\ y.verdict = v /\ y.payload = x.payload
      /\ y.class = IF v = "succeeded" THEN None ELSE v
  BY DEF Terminal, Advance, Execution
<1>2. v # None
  BY DEF Verdict, None
<1> HIDE DEF y
<1>3. x.payload = None
  BY DEF Truth
<1> QED BY <1>1, <1>2, <1>3 DEF Truth, y

\* A failure that is counted, an answer, and an end without a verdict of its own.
LEMMA TruthCounted ==
  ASSUME NEW x \in Execution, NEW a, NEW f, NEW q, Truth(x, a, f, q), x.verdict = None,
         x.stage \notin {"new", "terminal", "done"}, NEW n, NEW c
  PROVE  Truth(Counted(x, n, c), a, f, q)
<1> DEFINE y == Counted(x, n, c)
<1>1. y.stage = x.stage /\ y.verdict = x.verdict /\ y.payload = x.payload
  BY DEF Counted, Execution
<1> HIDE DEF y
<1> QED BY <1>1 DEF Truth, y

\* A call to Jenkins that failed leaves the truth as it was.
LEMMA TruthFailure ==
  ASSUME NEW x \in Execution, NEW a, NEW f, NEW q, Truth(x, a, f, q), x.verdict = None,
         x.stage \notin {"new", "terminal", "done"}, a = "succeeded", q = "valid"
  PROVE  Truth(NetworkFailure(x), a, f, q)
<1>1. TrueVerdict("JENKINS_UNAVAILABLE", a, f, q) /\ "JENKINS_UNAVAILABLE" \in Verdict
  BY DEF TrueVerdict, Verdict
<1>2. Truth(Terminal(x, "JENKINS_UNAVAILABLE"), a, f, q)
  BY <1>1, TruthTerminal
<1>3. Truth(Counted(x, x.failures + 1, "jenkins_unavailable"), a, f, q)
  BY TruthCounted
<1> QED BY <1>2, <1>3 DEF NetworkFailure, Counted

\* So does one that was answered.
LEMMA TruthAnswered ==
  ASSUME NEW x \in Execution, NEW a, NEW f, NEW q, Truth(x, a, f, q), x.verdict = None,
         x.stage \notin {"new", "terminal", "done"}
  PROVE  Truth(Answered(x), a, f, q)
<1> DEFINE y == Answered(x)
<1>1. y.stage = x.stage /\ y.verdict = x.verdict /\ y.payload = x.payload
  BY DEF Answered, Execution
<1> HIDE DEF y
<1> QED BY <1>1 DEF Truth, y

\* The end of the work, after the report or without one.
LEMMA TruthDone ==
  ASSUME NEW x \in Execution, NEW a, NEW f, NEW q, Truth(x, a, f, q),
         NEW c \in Class, c = None => x.verdict = None,
         x.verdict = None /\ c # None => q = "valid", x.payload = None \/ x.stage = "terminal"
  PROVE  /\ Truth(Done(x, c), a, f, q) /\ Done(x, c).verdict = x.verdict
         /\ Done(x, c).stage = "done"
<1> DEFINE y == Done(x, c)
<1>1. y.stage = "done" /\ y.verdict = x.verdict /\ y.payload = x.payload /\ y.class = c
  BY DEF Done, Execution
<1> HIDE DEF y
<1>2. Truth(y, a, f, q)
  BY <1>1 DEF Truth
<1> QED BY <1>1, <1>2 DEF y

\* A call moves its copy to what is true of it.
LEMMA LocalPromise ==
  ASSUME AdapterInv, PromiseInv, NEW w \in Workers, pc[w] # "idle",
         NEW p \in {"enqueue", "save"}, NEW y,
         local' = [local EXCEPT ![w] = y], pc' = [pc EXCEPT ![w] = p],
         UNCHANGED <<exec, owner, leased>>, TruthLater, Fired' => Fired, RepliesTrue',
         Truth(y, ack', Fate', request'), Holds(w) /\ NeverBuilt(y) => ~Fired,
         Reports(p, y) => y.verdict \in {None, exec.verdict, "ADAPTER_CONFIG_CHANGED"}
  PROVE  PromiseInv'
<1>1. /\ local'[w] = y /\ \A v \in Workers \ {w} : local'[v] = local[v]
      /\ pc'[w] = p /\ \A v \in Workers \ {w} : pc'[v] = pc[v]
  BY DEF AdapterInv, TypeOK
<1>2. CopiesTrue'
  <2>1. \A v \in Workers \ {w} : Truth(local[v], ack', Fate', request')
    BY TruthStays DEF PromiseInv, CopiesTrue
  <2>2. Truth(exec, ack', Fate', request')
    BY TruthStays DEF PromiseInv, CopiesTrue
  <2> QED BY <1>1, <2>1, <2>2 DEF CopiesTrue
<1>3. EndedUnbuilt'
  <2>1. \A v \in Workers : Holds(v)' <=> Holds(v)
    BY DEF Holds
  <2> QED BY <1>1, <2>1 DEF PromiseInv, EndedUnbuilt
<1>4. ReportsSaved'
  BY <1>1 DEF PromiseInv, ReportsSaved
<1> QED BY <1>2, <1>3, <1>4 DEF PromiseInv

\* The fate is that of the trigger and the build.
LEMMA FateStays ==
  ASSUME UNCHANGED <<ack, request>>, UNCHANGED jenkinsVars
  PROVE  Fate' = Fate /\ TruthLater
BY DEF Fate, TruthLater, jenkinsVars

\* A call that leaves and has seen the replies as they were.
LEMMA LeavePromise ==
  ASSUME AdapterInv, PromiseInv, NEW w \in Workers, pc[w] # "idle", NEW y, Leave(w, y),
         UNCHANGED <<exec, leaseVars, replyVars, jenkinsVars, configVars>>,
         Truth(y, ack, Fate, request), Holds(w) /\ NeverBuilt(y) => ~Fired,
         y.stage = "done" => y.verdict \in {None, exec.verdict, "ADAPTER_CONFIG_CHANGED"}
  PROVE  PromiseInv'
<1>1. UNCHANGED <<exec, owner, leased, ack, result, request>>
  BY DEF leaseVars, replyVars, configVars
<1>2. Fate' = Fate /\ TruthLater
  BY <1>1, FateStays
<1>3. local' = [local EXCEPT ![w] = y] /\ pc' = [pc EXCEPT ![w] = "save"]
  BY DEF Leave
<1>4. Fired' => Fired
  BY <1>3 DEF Fired, jenkinsVars, AdapterInv, TypeOK
<1>5. RepliesTrue'
  BY <1>1 DEF PromiseInv, RepliesTrue
<1> QED BY <1>1, <1>2, <1>3, <1>4, <1>5, LocalPromise DEF Reports

\* A copy before the end has no verdict, and the holder's, before the trigger, says
\* that nothing was sent.
LEMMA EarlyCopy ==
  ASSUME AdapterInv, PromiseInv, NEW w \in Workers
  PROVE  /\ local[w] \in Execution /\ Truth(local[w], ack, Fate, request)
         /\ local[w].stage \notin {"terminal", "done"} => local[w].verdict = None
         /\ local[w].stage \in {"new", "acknowledging", "ready"} /\ pc[w] # "idle" /\ Holds(w)
              => ~Fired
         /\ local[w].stage \in {"ready", "triggering", "queued", "building", "result"}
              => ack = "succeeded"
<1>1. local[w] \in Execution /\ Sound(local[w], ack, jenkins, result, request)
  BY CopyFacts
<1>2. ASSUME local[w].stage \in {"new", "acknowledging", "ready"}, pc[w] # "idle", Holds(w), Fired
      PROVE  FALSE
  <2>1. Rank(local[w].stage) >= 3
    BY <1>2 DEF AdapterInv, HolderAhead
  <2> QED BY <1>2, <2>1, Ranks
<1> QED BY <1>1, <1>2 DEF Sound, PromiseInv, CopiesTrue

\* Parse refuses only what is no request.
LEMMA ParsePromise ==
  ASSUME AdapterInv, PromiseInv, NEW w \in Workers, Parse(w)
  PROVE  PromiseInv'
<1> DEFINE x == local[w]
<1>1. /\ x \in Execution /\ Truth(x, ack, Fate, request) /\ x.stage = "new" /\ pc[w] # "idle"
      /\ x.verdict = None /\ (Holds(w) => ~Fired)
  BY EarlyCopy DEF Parse, At
<1>2. UNCHANGED <<exec, leaseVars, replyVars, jenkinsVars, configVars>>
  BY DEF Parse
<1>3. \/ request = "invalid" /\ Leave(w, Terminal(x, "INVALID_REQUEST"))
      \/ request = "none" /\ Leave(w, Done(x, x.class))
      \/ request = "valid" /\ Leave(w, Advance(x, "acknowledging"))
  BY DEF Parse, AdapterInv, TypeOK
<1> HIDE DEF x
<1>4. CASE request = "invalid" /\ Leave(w, Terminal(x, "INVALID_REQUEST"))
  <2>1. TrueVerdict("INVALID_REQUEST", ack, Fate, request) /\ "INVALID_REQUEST" \in Verdict
    BY <1>4 DEF TrueVerdict, Verdict, None
  <2>2. Truth(Terminal(x, "INVALID_REQUEST"), ack, Fate, request)
    BY <1>1, <2>1, TruthTerminal
  <2>3. Terminal(x, "INVALID_REQUEST").stage # "done"
    BY <1>1 DEF Terminal, Advance, Execution
  <2> QED BY <1>1, <1>2, <1>4, <2>2, <2>3, LeavePromise
<1>5. CASE request = "none" /\ Leave(w, Done(x, x.class))
  <2>1. x.class = None /\ x.payload = None /\ x.class \in Class
    BY <1>1 DEF Truth, Execution
  <2>2. /\ Truth(Done(x, x.class), ack, Fate, request) /\ Done(x, x.class).verdict = None
        /\ Done(x, x.class).stage = "done"
    BY <1>1, <2>1, TruthDone
  <2> QED BY <1>1, <1>2, <1>5, <2>2, LeavePromise
<1>6. CASE request = "valid" /\ Leave(w, Advance(x, "acknowledging"))
  <2>1. Truth(Advance(x, "acknowledging"), ack, Fate, request)
    BY <1>1, <1>6, TruthAdvance DEF Stage
  <2>2. Advance(x, "acknowledging").stage = "acknowledging"
    BY <1>1 DEF Advance, Execution
  <2> QED BY <1>1, <1>2, <1>6, <2>1, <2>2, LeavePromise
<1> QED BY <1>3, <1>4, <1>5, <1>6

\* Acknowledge goes on to trigger only after the reply has succeeded.
LEMMA AcknowledgePromise ==
  ASSUME AdapterInv, PromiseInv, NEW w \in Workers, Acknowledge(w)
  PROVE  PromiseInv'
<1> DEFINE x == local[w]
<1>1. /\ x \in Execution /\ Truth(x, ack, Fate, request) /\ x.stage = "acknowledging"
      /\ pc[w] # "idle" /\ x.verdict = None /\ (Holds(w) => ~Fired)
  BY EarlyCopy DEF Acknowledge, At
<1>2. /\ UNCHANGED <<exec, owner, leased, result, request, jenkins, onTheWay, posts>>
      /\ ack' = IF ack = None THEN "created" ELSE ack
  BY DEF Acknowledge, leaseVars, jenkinsVars, configVars
<1>3. request = "valid" /\ x.payload = None
  BY <1>1 DEF Truth
<1>4. Fate' = Fate /\ TruthLater
  BY <1>2 DEF Fate, TruthLater, None
<1>5. RepliesTrue'
  BY <1>2, <1>3 DEF PromiseInv, RepliesTrue
<1>6. Truth(x, ack', Fate', request')
  BY <1>1, <1>4, TruthStays
<1>7. \/ Leave(w, Advance(x, "ready"))
      \/ Leave(w, Done(x, "adapter_ack_failed"))
      \/ pc' = [pc EXCEPT ![w] = "enqueue"] /\ local' = local
  BY DEF Acknowledge
<1>8. Fired' => Fired
  BY <1>2, <1>7 DEF Fired, Leave, AdapterInv, TypeOK
<1> HIDE DEF x
<1>9. CASE Leave(w, Advance(x, "ready"))
  <2>1. Advance(x, "ready").stage = "ready" /\ Advance(x, "ready").verdict = None
    BY <1>1 DEF Advance, Execution
  <2>2. Truth(Advance(x, "ready"), ack', Fate', request')
    BY <1>1, <1>2, <1>3, <1>6, TruthAdvance DEF Stage
  <2> QED BY <1>1, <1>2, <1>4, <1>5, <1>8, <1>9, <2>1, <2>2, LocalPromise
          DEF Leave, Reports
<1>10. CASE Leave(w, Done(x, "adapter_ack_failed"))
  <2>1. "adapter_ack_failed" \in Class \ {None}
    BY DEF Class, None
  <2>2. /\ Truth(Done(x, "adapter_ack_failed"), ack', Fate', request')
        /\ Done(x, "adapter_ack_failed").verdict = None
    BY <1>1, <1>2, <1>3, <1>6, <2>1, TruthDone
  <2> QED BY <1>1, <1>2, <1>4, <1>5, <1>8, <1>10, <2>2, LocalPromise DEF Leave
<1>11. CASE pc' = [pc EXCEPT ![w] = "enqueue"] /\ local' = local
  <2>1. local' = [local EXCEPT ![w] = x]
    BY <1>11 DEF AdapterInv, TypeOK, x
  <2> QED BY <1>1, <1>2, <1>4, <1>5, <1>6, <1>8, <1>11, <2>1, LocalPromise DEF Reports
<1> QED BY <1>7, <1>9, <1>10, <1>11

\* What the worker reports is the payload the execution has, or its verdict.
LEMMA ReportPromise ==
  ASSUME AdapterInv, PromiseInv, NEW w \in Workers, Report(w)
  PROVE  PromiseInv'
<1> DEFINE z == local[w]
           payload == IF local[w].payload = None THEN local[w].verdict ELSE local[w].payload
           x == [local[w] EXCEPT !.payload = payload]
<1>1. /\ z \in Execution /\ Truth(z, ack, Fate, request) /\ z.stage = "terminal" /\ pc[w] = "step"
  BY EarlyCopy DEF Report, At
<1>2. /\ z.verdict # None /\ z.verdict \in {exec.verdict, "ADAPTER_CONFIG_CHANGED"}
      /\ z.payload \in {None, z.verdict, "ADAPTER_CONFIG_CHANGED"}
  BY <1>1 DEF Truth, PromiseInv, ReportsSaved, Reports
<1>3. /\ payload \in {z.verdict, "ADAPTER_CONFIG_CHANGED"} /\ payload # None
      /\ payload \in {exec.verdict, "ADAPTER_CONFIG_CHANGED"} /\ payload \in Verdict \cup {None}
  BY <1>1, <1>2 DEF None, Execution
<1>4. /\ UNCHANGED <<exec, owner, leased, ack, request, jenkins, onTheWay, posts>>
      /\ result' = IF result.status = None
                   THEN [status |-> "created", payload |-> payload] ELSE result
  BY DEF Report, leaseVars, jenkinsVars, configVars
<1>5. Fate' = Fate /\ TruthLater
  BY <1>4 DEF Fate, TruthLater
<1> HIDE DEF payload
<1>6. RepliesTrue'
  BY <1>3, <1>4 DEF PromiseInv, RepliesTrue
<1>7. /\ x \in Execution /\ x.stage = "terminal" /\ x.verdict = z.verdict
      /\ x.payload = payload /\ x.class = z.class
  BY <1>1, <1>3 DEF Execution
<1>8. \/ Leave(w, x) \/ Leave(w, [x EXCEPT !.stage = "done"])
      \/ Leave(w, Done(x, "adapter_reply_failed"))
      \/ local' = [local EXCEPT ![w] = x] /\ pc' = [pc EXCEPT ![w] = "enqueue"]
  BY DEF Report, payload
<1> HIDE DEF x
<1>9. Fired' => Fired
  BY <1>4, <1>8 DEF Fired, Leave, AdapterInv, TypeOK
<1>10. Truth(x, ack', Fate', request')
  BY <1>1, <1>3, <1>4, <1>5, <1>7 DEF Truth
<1>11. PICK y : /\ y = x \/ y = [x EXCEPT !.stage = "done"] \/ y = Done(x, "adapter_reply_failed")
                /\ local' = [local EXCEPT ![w] = y]
                /\ \/ pc' = [pc EXCEPT ![w] = "enqueue"]
                   \/ pc' = [pc EXCEPT ![w] = "save"]
  BY <1>8 DEF Leave
<1>12. y.verdict = z.verdict /\ Truth(y, ack', Fate', request')
  <2>1. "adapter_reply_failed" \in Class \ {None}
    BY DEF Class, None
  <2>2. CASE y = Done(x, "adapter_reply_failed")
    BY <1>2, <1>7, <1>10, <2>1, <2>2, TruthDone
  <2>3. CASE y = [x EXCEPT !.stage = "done"]
    <3>1. /\ y.stage = "done" /\ y.verdict = x.verdict /\ y.payload = x.payload
          /\ y.class = x.class
      BY <1>7, <2>3 DEF Execution
    <3> QED BY <1>2, <1>7, <1>10, <3>1 DEF Truth
  <2> QED BY <1>7, <1>10, <1>11, <2>2, <2>3
<1>13. Holds(w) /\ NeverBuilt(y) => ~Fired
  BY <1>1, <1>2, <1>12 DEF NeverBuilt, PromiseInv, EndedUnbuilt
<1> QED BY <1>1, <1>2, <1>4, <1>5, <1>6, <1>9, <1>11, <1>12, <1>13, LocalPromise

\* The reply is queued, or has timed out.
LEMMA EnqueuePromise ==
  ASSUME AdapterInv, PromiseInv, NEW w \in Workers, Enqueue(w)
  PROVE  PromiseInv'
<1> DEFINE x == local[w]
<1>1. /\ x \in Execution /\ Truth(x, ack, Fate, request) /\ pc[w] = "enqueue"
      /\ x.stage \in {"acknowledging", "terminal"}
      /\ x.stage \notin {"terminal", "done"} => x.verdict = None
      /\ x.stage \in {"new", "acknowledging", "ready"} /\ Holds(w) => ~Fired
  BY EarlyCopy DEF Enqueue, AdapterInv, OneTrigger
<1>2. /\ UNCHANGED <<exec, owner, leased, request, jenkins, onTheWay, posts>>
      /\ \/ ack' = Accepted(ack) /\ UNCHANGED result
         \/ result' = [result EXCEPT !.status = Accepted(@)] /\ UNCHANGED ack
  BY DEF Enqueue, leaseVars, jenkinsVars, configVars
<1>3. \A s : /\ Accepted(s) = None => s = None
             /\ s = None => Accepted(s) = None
             /\ s = "succeeded" => Accepted(s) = s
  BY DEF Accepted, None
<1>4. Fate' = Fate /\ TruthLater
  BY <1>2, <1>3 DEF Fate, TruthLater
<1>5. RepliesTrue'
  <2>1. result \in [status : ReplyStatus, payload : Verdict \cup {None}]
    BY DEF AdapterInv, TypeOK
  <2>2. /\ result'.payload = result.payload
        /\ result'.status = result.status \/ result'.status = Accepted(result.status)
        /\ ack' = ack \/ ack' = Accepted(ack)
    BY <1>2, <2>1
  <2> QED BY <1>2, <1>3, <2>2 DEF PromiseInv, RepliesTrue
<1>6. PICK y : /\ \/ y = x
                  \/ y = Done(x, "adapter_ack_failed") /\ x.stage = "acknowledging"
                  \/ y = Done(x, "adapter_reply_failed") /\ x.stage # "acknowledging"
               /\ Leave(w, y)
  BY DEF Enqueue
<1>7. Fired' => Fired
  BY <1>2, <1>6 DEF Fired, Leave, AdapterInv, TypeOK
<1> HIDE DEF x
<1>8. Truth(x, ack', Fate', request')
  BY <1>1, <1>4, TruthStays
<1>9. y.verdict = x.verdict /\ Truth(y, ack', Fate', request')
  <2>1. {"adapter_ack_failed", "adapter_reply_failed"} \subseteq Class \ {None}
    BY DEF Class, None
  <2>2. CASE y = Done(x, "adapter_ack_failed") /\ x.stage = "acknowledging"
    <3>1. request' = "valid" /\ x.payload = None
      BY <1>1, <1>2, <2>2 DEF Truth
    <3> QED BY <1>1, <1>8, <2>1, <2>2, <3>1, TruthDone
  <2>3. CASE y = Done(x, "adapter_reply_failed") /\ x.stage # "acknowledging"
    <3>1. x.verdict # None /\ x.stage = "terminal"
      BY <1>1, <2>3 DEF Truth
    <3> QED BY <1>1, <1>8, <2>1, <2>3, <3>1, TruthDone
  <2> QED BY <1>6, <1>8, <2>2, <2>3
<1>10. x.verdict \in {None, exec.verdict, "ADAPTER_CONFIG_CHANGED"}
  BY <1>1 DEF PromiseInv, ReportsSaved, Reports, x
<1>11. Holds(w) /\ NeverBuilt(y) => ~Fired
  <2>1. CASE x.stage = "acknowledging"
    BY <1>1, <2>1
  <2>2. CASE x.stage = "terminal"
    <3>1. x.verdict # None
      BY <1>1, <2>2 DEF Truth
    <3> QED BY <1>1, <1>9, <3>1 DEF NeverBuilt, PromiseInv, EndedUnbuilt, x
  <2> QED BY <1>1, <2>1, <2>2
<1> QED BY <1>1, <1>2, <1>4, <1>5, <1>6, <1>7, <1>9, <1>10, <1>11, LocalPromise DEF Leave

\* What Jenkins has is what became of the trigger.
LEMMA FateSeen ==
  ASSUME AdapterInv
  PROVE  /\ \A j \in Seen : jenkins = j <=> Fate = j
         /\ jenkins \notin Seen <=> Fate \in {"none", "sent", "lost"}
BY DEF AdapterInv, TypeOK, OneTrigger, Fate, Seen, None

\* The end of a look at Jenkins: not yet the end of the execution.
LEMMA LookPromise ==
  ASSUME AdapterInv, PromiseInv, NEW w \in Workers, pc[w] # "idle", NEW y, Leave(w, y),
         UNCHANGED <<exec, leaseVars, replyVars, jenkinsVars, configVars>>,
         Truth(y, ack, Fate, request), y.stage # "done", y.verdict # "INVALID_REQUEST"
  PROVE  PromiseInv'
BY LeavePromise DEF NeverBuilt

\* The verdicts of a look, with what each of them needs.
LEMMA LookTruth ==
  ASSUME NEW x \in Execution, NEW a, NEW f, NEW q, Truth(x, a, f, q), x.verdict = None,
         x.stage \notin {"new", "terminal", "done"}, a = "succeeded",
         NEW v \in Verdict \ {"INVALID_REQUEST"}, TrueVerdict(v, a, f, q),
         NEW s \in {"triggering", "queued", "building", "result"},
         NEW y, \/ y = NetworkFailure(x) \/ y = Answered(x) \/ y = Terminal(x, v)
                \/ /\ y = Advance(x, s)
                   /\ s = "queued" => f \in Seen
                   /\ s = "building" => f \in {"building", "succeeded", "failed"}
                   /\ s = "result" => f \in {"succeeded", "failed"}
  PROVE  Truth(y, a, f, q) /\ y.stage # "done" /\ y.verdict # "INVALID_REQUEST"
<1>1. q = "valid" /\ None # "INVALID_REQUEST"
  BY DEF Truth, None
<1>2. ASSUME NEW u \in Verdict
      PROVE  Terminal(x, u).stage = "terminal" /\ Terminal(x, u).verdict = u
  BY DEF Terminal, Advance, Execution
<1>3. CASE y = NetworkFailure(x)
  <2>1. y.stage \in {x.stage, "terminal"} /\ y.verdict \in {x.verdict, "JENKINS_UNAVAILABLE"}
    BY <1>3 DEF NetworkFailure, Terminal, Advance, Execution
  <2>2. Truth(y, a, f, q)
    BY <1>1, <1>3, TruthFailure
  <2> QED BY <1>1, <2>1, <2>2
<1>4. CASE y = Answered(x)
  <2>1. y.stage = x.stage /\ y.verdict = x.verdict
    BY <1>4 DEF Answered, Execution
  <2>2. Truth(y, a, f, q)
    BY <1>4, TruthAnswered
  <2> QED BY <1>1, <2>1, <2>2
<1>5. CASE y = Terminal(x, v)
  <2>1. Truth(y, a, f, q)
    BY <1>5, TruthTerminal
  <2> QED BY <1>2, <1>5, <2>1
<1>6. CASE /\ y = Advance(x, s)
           /\ s = "queued" => f \in Seen
           /\ s = "building" => f \in {"building", "succeeded", "failed"}
           /\ s = "result" => f \in {"succeeded", "failed"}
  <2>1. y.stage = s /\ y.verdict = x.verdict
    BY <1>6 DEF Advance, Execution
  <2>2. s \in Stage \ {"new", "terminal", "done"}
    BY DEF Stage
  <2>3. Truth(y, a, f, q)
    BY <1>1, <1>6, <2>2, TruthAdvance
  <2> QED BY <1>1, <2>1, <2>3
<1> QED BY <1>3, <1>4, <1>5, <1>6

\* Reconcile, PollQueue and PollBuild find what there is.
LEMMA LooksPromise ==
  ASSUME AdapterInv, PromiseInv, NEW w \in Workers, Reconcile(w) \/ PollQueue(w) \/ PollBuild(w)
  PROVE  PromiseInv'
<1> DEFINE x == local[w]
<1>1. /\ x \in Execution /\ Truth(x, ack, Fate, request) /\ pc[w] # "idle"
      /\ x.stage \in {"triggering", "queued", "building"} /\ x.verdict = None
      /\ ack = "succeeded"
  BY EarlyCopy DEF Reconcile, PollQueue, PollBuild, At
<1>2. UNCHANGED <<exec, leaseVars, replyVars, jenkinsVars, configVars>>
  BY DEF Reconcile, PollQueue, PollBuild
<1>3. request = "valid"
  BY <1>1 DEF Truth
<1>4. {"JENKINS_TRIGGER_UNCERTAIN", "JENKINS_QUEUE_TIMEOUT", "JENKINS_TRIGGER_FAILED",
       "JENKINS_BUILD_TIMEOUT"} \subseteq Verdict \ {"INVALID_REQUEST"}
  BY DEF Verdict
<1>5. PICK y :
        /\ Leave(w, y)
        /\ \E v \in Verdict \ {"INVALID_REQUEST"}, s \in {"triggering", "queued", "building", "result"} :
             /\ TrueVerdict(v, ack, Fate, request)
             /\ \/ y = NetworkFailure(x) \/ y = Answered(x) \/ y = Terminal(x, v)
                \/ /\ y = Advance(x, s)
                   /\ s = "queued" => Fate \in Seen
                   /\ s = "building" => Fate \in {"building", "succeeded", "failed"}
                   /\ s = "result" => Fate \in {"succeeded", "failed"}
  <2>0. TrueVerdict("JENKINS_TRIGGER_UNCERTAIN", ack, Fate, request)
    BY <1>1, <1>3 DEF TrueVerdict
  <2>1. CASE Reconcile(w)
    <3>1. PICK y : /\ Leave(w, y)
                   /\ \/ y = Advance(x, "queued") /\ jenkins = "queued"
                      \/ y = Advance(x, "building") /\ jenkins \in {"building", "succeeded", "failed"}
                      \/ y = Answered(x) \/ y = NetworkFailure(x)
                      \/ y = Terminal(x, "JENKINS_TRIGGER_UNCERTAIN")
      BY <2>1 DEF Reconcile, Found
    <3>2. /\ jenkins = "queued" => Fate \in Seen
          /\ jenkins \in {"building", "succeeded", "failed"}
               => Fate \in {"building", "succeeded", "failed"}
      BY FateSeen DEF Seen
    <3> QED BY <1>4, <2>0, <3>1, <3>2
  <2>2. CASE PollQueue(w)
    <3>1. PICK y : /\ Leave(w, y)
                   /\ \/ y = Answered(x) \/ y = NetworkFailure(x)
                      \/ y = Terminal(x, "JENKINS_QUEUE_TIMEOUT")
                      \/ y = Terminal(x, "JENKINS_TRIGGER_FAILED") /\ jenkins = "cancelled"
                      \/ y = Advance(x, "building") /\ jenkins \in {"building", "succeeded", "failed"}
      BY <2>2 DEF PollQueue
    <3>2. /\ jenkins = "cancelled" => Fate = "cancelled"
          /\ jenkins \in {"building", "succeeded", "failed"}
               => Fate \in {"building", "succeeded", "failed"}
      BY FateSeen DEF Seen
    <3>3. Fate \in Seen
      BY <1>1, <2>2 DEF PollQueue, At, Truth
    <3>4. TrueVerdict("JENKINS_QUEUE_TIMEOUT", ack, Fate, request)
      BY <1>3, <3>3 DEF TrueVerdict
    <3>5. Fate = "cancelled" => TrueVerdict("JENKINS_TRIGGER_FAILED", ack, Fate, request)
      BY <1>3 DEF TrueVerdict
    <3> QED BY <1>4, <3>1, <3>2, <3>4, <3>5
  <2>3. CASE PollBuild(w)
    <3>1. PICK y : /\ Leave(w, y)
                   /\ \/ y = Answered(x) \/ y = NetworkFailure(x)
                      \/ y = Terminal(x, "JENKINS_BUILD_TIMEOUT")
                      \/ y = Advance(x, "result") /\ jenkins # "building"
      BY <2>3 DEF PollBuild
    <3>2. Fate \in {"building", "succeeded", "failed"} /\ Fate \in Seen
      BY <1>1, <2>3 DEF PollBuild, At, Truth, Seen
    <3>3. jenkins # "building" => Fate \in {"succeeded", "failed"}
      BY <3>2, FateSeen
    <3>4. TrueVerdict("JENKINS_BUILD_TIMEOUT", ack, Fate, request)
      BY <1>3, <3>2 DEF TrueVerdict
    <3> QED BY <1>4, <3>1, <3>3, <3>4
  <2> QED BY <2>1, <2>2, <2>3
<1> HIDE DEF x
<1>6. Truth(y, ack, Fate, request) /\ y.stage # "done" /\ y.verdict # "INVALID_REQUEST"
  BY <1>1, <1>5, LookTruth
<1> QED BY <1>1, <1>2, <1>5, <1>6, LookPromise

\* The result that is fetched is that of the build.
LEMMA FetchPromise ==
  ASSUME AdapterInv, PromiseInv, NEW w \in Workers, FetchResult(w)
  PROVE  PromiseInv'
<1> DEFINE x == local[w]
           verdict == IF jenkins = "succeeded" THEN "succeeded" ELSE "BUSINESS_FAILED"
           z == [Terminal(x, verdict) EXCEPT !.payload = verdict]
<1>1. /\ x \in Execution /\ Truth(x, ack, Fate, request) /\ pc[w] # "idle"
      /\ x.stage = "result" /\ x.verdict = None /\ ack = "succeeded"
  BY EarlyCopy DEF FetchResult, At
<1>2. UNCHANGED <<exec, leaseVars, replyVars, jenkinsVars, configVars>>
  BY DEF FetchResult
<1>3. request = "valid" /\ Fate \in {"succeeded", "failed"} /\ Fate \in Seen
  BY <1>1 DEF Truth, Seen
<1>4. verdict \in Verdict /\ TrueVerdict(verdict, ack, Fate, request)
  <2>1. verdict = IF Fate = "succeeded" THEN "succeeded" ELSE "BUSINESS_FAILED"
    BY <1>3, FateSeen DEF Seen
  <2> QED BY <1>3, <2>1 DEF TrueVerdict, Verdict
<1>5. PICK y : /\ Leave(w, y)
               /\ \/ y = z \/ y = NetworkFailure(x) \/ y = Terminal(x, "RESULT_UNAVAILABLE")
                  \/ y = Terminal(x, "RESULT_LIMIT_EXCEEDED")
  BY DEF FetchResult
<1>6. CASE y = z
  <2>1. /\ verdict # "INVALID_REQUEST"
        /\ Terminal(x, verdict).verdict = verdict /\ Terminal(x, verdict).stage = "terminal"
        /\ y.stage = "terminal" /\ y.verdict = verdict /\ y.payload = verdict
        /\ y.class = Terminal(x, verdict).class
    BY <1>1, <1>6 DEF Terminal, Advance, Execution
  <2> HIDE DEF verdict
  <2>2. Truth(Terminal(x, verdict), ack, Fate, request)
    BY <1>1, <1>4, TruthTerminal
  <2>3. Truth(y, ack, Fate, request)
    BY <2>1, <2>2 DEF Truth
  <2> QED BY <1>1, <1>2, <1>5, <2>1, <2>3, LookPromise
<1> HIDE DEF z, x
<1>7. CASE y # z
  <2>1. /\ TrueVerdict("RESULT_UNAVAILABLE", ack, Fate, request)
        /\ TrueVerdict("RESULT_LIMIT_EXCEEDED", ack, Fate, request)
        /\ {"RESULT_UNAVAILABLE", "RESULT_LIMIT_EXCEEDED"} \subseteq Verdict \ {"INVALID_REQUEST"}
    BY <1>3 DEF TrueVerdict, Verdict
  <2>2. PICK v \in Verdict \ {"INVALID_REQUEST"} :
          TrueVerdict(v, ack, Fate, request) /\ (y = NetworkFailure(x) \/ y = Terminal(x, v))
    BY <1>5, <1>7, <2>1
  <2>3. Truth(y, ack, Fate, request) /\ y.stage # "done" /\ y.verdict # "INVALID_REQUEST"
    BY <1>1, <2>2, LookTruth
  <2> QED BY <1>1, <1>2, <1>5, <2>3, LookPromise
<1> QED BY <1>6, <1>7

\* A call that fails leaves with what it has.
LEMMA FailCallPromise ==
  ASSUME AdapterInv, PromiseInv, NEW w \in Workers, FailCall(w)
  PROVE  PromiseInv'
<1>1. /\ local[w] \in Execution /\ Truth(local[w], ack, Fate, request)
      /\ pc[w] \in {"step", "enqueue"} /\ Leave(w, local[w])
  BY EarlyCopy DEF FailCall
<1>2. UNCHANGED <<exec, leaseVars, replyVars, jenkinsVars, configVars>>
  BY DEF FailCall
<1>3. Holds(w) /\ NeverBuilt(local[w]) => ~Fired
  BY <1>1 DEF PromiseInv, EndedUnbuilt
<1>4. local[w].stage = "done"
        => local[w].verdict \in {None, exec.verdict, "ADAPTER_CONFIG_CHANGED"}
  BY <1>1 DEF PromiseInv, ReportsSaved, Reports
<1> QED BY <1>1, <1>2, <1>3, <1>4, LeavePromise

\* The intent that is saved is of a request that has no verdict.
LEMMA TriggerPromise ==
  ASSUME AdapterInv, PromiseInv, NEW w \in Workers, Trigger(w)
  PROVE  PromiseInv'
<1> DEFINE x == local[w]
           z == Advance(x, "triggering")
<1>1. /\ x \in Execution /\ Truth(x, ack, Fate, request) /\ x.stage = "ready" /\ pc[w] = "step"
      /\ x.verdict = None /\ (Holds(w) => ~Fired)
  BY EarlyCopy DEF Trigger, At
<1>2. UNCHANGED <<leaseVars, replyVars, jenkinsVars, configVars>>
  BY DEF Trigger
<1>3. request = "valid"
  BY <1>1 DEF Truth
<1>4. /\ z.stage = "triggering" /\ z.verdict = None
      /\ Terminal(x, "INVALID_REQUEST").stage = "terminal"
  BY <1>1 DEF Advance, Terminal, Execution
<1>5. Truth(z, ack, Fate, request)
  BY <1>1, <1>3, TruthAdvance DEF Stage
<1>6. Truth(Terminal(x, "INVALID_REQUEST"), ack, Fate, request)
  <2>1. TrueVerdict("INVALID_REQUEST", ack, Fate, request) /\ "INVALID_REQUEST" \in Verdict
    BY <1>3 DEF TrueVerdict, Verdict
  <2> QED BY <1>1, <2>1, TruthTerminal
<1>7. CASE UNCHANGED exec /\ \E y \in {z, Terminal(x, "INVALID_REQUEST")} : Leave(w, y)
  <2> HIDE DEF x, z
  <2>1. PICK y \in {z, Terminal(x, "INVALID_REQUEST")} : Leave(w, y)
    BY <1>7
  <2> QED BY <1>1, <1>2, <1>4, <1>5, <1>6, <1>7, <2>1, LeavePromise
<1>8. CASE /\ Holds(w) /\ exec' = z
           /\ local' = [local EXCEPT ![w] = z]
           /\ pc' = [pc EXCEPT ![w] = "post"]
  <2> HIDE DEF z
  <2>1. UNCHANGED <<owner, leased, ack, result, jenkins, onTheWay, posts, request>>
    BY <1>2 DEF leaseVars, replyVars, jenkinsVars, configVars
  <2>2. /\ local'[w] = z /\ \A v \in Workers \ {w} : local'[v] = local[v]
        /\ pc'[w] = "post" /\ \A v \in Workers \ {w} : pc'[v] = pc[v]
    BY <1>8 DEF AdapterInv, TypeOK
  <2>3. exec.verdict = None
    <3>1. Forward(exec, x)
      BY <1>1, <1>8 DEF AdapterInv, HolderAhead
    <3> QED BY <1>1, <3>1 DEF Forward
  <2>4. Fate' = Fate
    BY <2>1 DEF Fate
  <2>5. CopiesTrue'
    BY <1>5, <1>8, <2>1, <2>2, <2>4 DEF PromiseInv, CopiesTrue
  <2>6. EndedUnbuilt'
    <3>1. ~NeverBuilt(z)
      BY <1>4 DEF NeverBuilt, None
    <3>2. \A v \in Workers : Holds(v)' => v = w
      BY <1>8, <2>1 DEF Holds
    <3> QED BY <1>8, <2>2, <3>1, <3>2 DEF EndedUnbuilt
  <2>7. ReportsSaved'
    BY <1>4, <1>8, <2>2, <2>3 DEF PromiseInv, ReportsSaved, Reports
  <2>8. RepliesTrue'
    BY <1>4, <1>8, <2>1, <2>3 DEF PromiseInv, RepliesTrue
  <2> QED BY <2>5, <2>6, <2>7, <2>8 DEF PromiseInv
<1> QED BY <1>7, <1>8 DEF Trigger

\* The trigger is refused, taken or lost.
LEMMA PostPromise ==
  ASSUME AdapterInv, PromiseInv, NEW w \in Workers, Post(w)
  PROVE  PromiseInv'
<1> DEFINE x == local[w]
<1>1. /\ x \in Execution /\ Truth(x, ack, Fate, request) /\ x.stage = "triggering"
      /\ pc[w] = "post" /\ posts = 0 /\ jenkins = None /\ onTheWay = FALSE
      /\ x.verdict = None
  <2>1. x.stage = "triggering" /\ posts = 0 /\ jenkins = None /\ ~onTheWay
    BY DEF Post, AdapterInv, OneTrigger
  <2>2. onTheWay = FALSE
    BY <2>1 DEF AdapterInv, TypeOK
  <2> QED BY <2>1, <2>2, EarlyCopy DEF Post
<1>2. /\ UNCHANGED <<exec, owner, leased, ack, result, request>>
      /\ Fate = "none" /\ Fired
  BY <1>1 DEF Post, leaseVars, replyVars, configVars, Fate, Fired
<1>3. TruthLater
  BY <1>2 DEF TruthLater, Seen
<1>4. RepliesTrue'
  BY <1>2 DEF PromiseInv, RepliesTrue
<1>5. request = "valid" /\ Truth(x, ack', Fate', request')
  BY <1>1, <1>3, TruthStays DEF Truth
<1>6. PICK y : /\ Leave(w, y)
               /\ \/ y = Terminal(x, "JENKINS_TRIGGER_FAILED") /\ Fate' = "lost"
                  \/ y = Advance(x, "queued") /\ Fate' = "queued"
                  \/ y = x
  <2>1. 0 + 1 # 0
    OBVIOUS
  <2> QED BY <1>1, <2>1 DEF Post, Fate, None
<1> HIDE DEF x
<1>7. Truth(y, ack', Fate', request') /\ ~NeverBuilt(y) /\ y.stage # "done"
  <2>1. None # "INVALID_REQUEST"
    BY DEF None
  <2>2. CASE y = Terminal(x, "JENKINS_TRIGGER_FAILED") /\ Fate' = "lost"
    <3>1. /\ TrueVerdict("JENKINS_TRIGGER_FAILED", ack', Fate', request')
          /\ "JENKINS_TRIGGER_FAILED" \in Verdict
      BY <1>2, <1>5, <2>2 DEF TrueVerdict, Verdict
    <3>2. y.stage = "terminal" /\ y.verdict = "JENKINS_TRIGGER_FAILED"
      BY <1>1, <2>2 DEF Terminal, Advance, Execution
    <3> QED BY <1>1, <1>5, <2>2, <3>1, <3>2, TruthTerminal DEF NeverBuilt
  <2>3. CASE y = Advance(x, "queued") /\ Fate' = "queued"
    <3>1. "queued" \in Seen /\ "queued" \in Stage
      BY DEF Seen, Stage
    <3>2. y.stage = "queued" /\ y.verdict = None
      BY <1>1, <2>3 DEF Advance, Execution
    <3> QED BY <1>1, <1>2, <1>5, <2>1, <2>3, <3>1, <3>2, TruthAdvance DEF NeverBuilt
  <2>4. CASE y = x
    BY <1>1, <1>5, <2>1, <2>4 DEF NeverBuilt
  <2> QED BY <1>6, <2>2, <2>3, <2>4
<1>8. local' = [local EXCEPT ![w] = y] /\ pc' = [pc EXCEPT ![w] = "save"]
  BY <1>6 DEF Leave
<1> QED BY <1>1, <1>2, <1>3, <1>4, <1>7, <1>8, LocalPromise DEF Reports

\* What the holder saves is what it may report.
LEMMA SavePromise ==
  ASSUME AdapterInv, PromiseInv, NEW w \in Workers, Save(w)
  PROVE  PromiseInv'
<1>1. /\ UNCHANGED <<owner, ack, result, jenkins, onTheWay, posts, local, request>>
      /\ pc[w] = "save" /\ pc' = [pc EXCEPT ![w] = "idle"]
  BY DEF Save, replyVars, jenkinsVars, configVars
<1>2. pc'[w] = "idle" /\ \A v \in Workers \ {w} : pc'[v] = pc[v]
  BY <1>1 DEF AdapterInv, TypeOK
<1>3. Fate' = Fate /\ (Fired' => Fired)
  BY <1>1, <1>2 DEF Fate, Fired
<1>4. CASE Holds(w) /\ exec' = local[w] /\ leased' = FALSE
  <2>1. exec.verdict # None => exec'.verdict = exec.verdict
    BY <1>1, <1>4 DEF AdapterInv, HolderAhead, Forward
  <2>2. CopiesTrue'
    BY <1>1, <1>3, <1>4 DEF PromiseInv, CopiesTrue
  <2>3. EndedUnbuilt'
    <3>1. NeverBuilt(exec') => ~Fired
      BY <1>1, <1>4 DEF PromiseInv, EndedUnbuilt
    <3>2. \A v \in Workers : ~Holds(v)'
      BY <1>4 DEF Holds
    <3> QED BY <1>3, <3>1, <3>2 DEF EndedUnbuilt
  <2>4. ReportsSaved'
    BY <1>1, <1>2, <2>1 DEF PromiseInv, ReportsSaved, Reports
  <2>5. RepliesTrue'
    BY <1>1, <2>1 DEF PromiseInv, RepliesTrue
  <2> QED BY <2>2, <2>3, <2>4, <2>5 DEF PromiseInv
<1>5. CASE UNCHANGED <<exec, leased>>
  <2>1. CopiesTrue'
    BY <1>1, <1>3, <1>5 DEF PromiseInv, CopiesTrue
  <2>2. EndedUnbuilt'
    BY <1>1, <1>2, <1>3, <1>5 DEF PromiseInv, EndedUnbuilt, Holds
  <2>3. ReportsSaved'
    BY <1>1, <1>2, <1>5 DEF PromiseInv, ReportsSaved, Reports
  <2>4. RepliesTrue'
    BY <1>1, <1>5 DEF PromiseInv, RepliesTrue
  <2> QED BY <2>1, <2>2, <2>3, <2>4 DEF PromiseInv
<1> QED BY <1>4, <1>5 DEF Save

\* What a call loads is what is saved, with the payload of the reply there is, or
\* ends because the job changed.
LEMMA ClaimPromise ==
  ASSUME AdapterInv, PromiseInv, NEW w \in Workers, Claim(w)
  PROVE  PromiseInv'
<1>1. /\ exec \in Execution /\ Truth(exec, ack, Fate, request)
      /\ exec.stage \notin {"terminal", "done"} => exec.verdict = None
      /\ result.payload \in {None, exec.verdict, "ADAPTER_CONFIG_CHANGED"}
  BY DEF AdapterInv, TypeOK, CopiesSound, Sound, PromiseInv, CopiesTrue, RepliesTrue
<1>2. /\ UNCHANGED <<exec, ack, result, jenkins, onTheWay, posts, request>>
      /\ pc[w] = "idle" /\ owner' = w /\ local' = [local EXCEPT ![w] = Loaded]
  BY DEF Claim, replyVars, jenkinsVars, configVars
<1>3. PICK p \in {"save", "step"} : pc' = [pc EXCEPT ![w] = p]
  BY DEF Claim
<1>4. /\ local'[w] = Loaded /\ \A v \in Workers \ {w} : local'[v] = local[v]
      /\ pc'[w] = p /\ \A v \in Workers \ {w} : pc'[v] = pc[v]
  BY <1>2, <1>3 DEF AdapterInv, TypeOK
<1>5. Fate' = Fate /\ (Fired' => Fired)
  BY <1>2, <1>4 DEF Fate, Fired
<1>6. /\ Truth(Loaded, ack, Fate, request)
      /\ Loaded.verdict \in {exec.verdict, "ADAPTER_CONFIG_CHANGED"}
      /\ Loaded.stage = "done" => exec.stage = "done"
  <2> DEFINE x == IF exec.stage = "terminal" /\ exec.payload = None
                  THEN [exec EXCEPT !.payload = result.payload] ELSE exec
  <2>1. /\ x.stage = exec.stage /\ x.verdict = exec.verdict /\ x.class = exec.class
        /\ \/ x.payload = exec.payload
           \/ x.stage = "terminal" /\ x.payload = result.payload
    BY <1>1 DEF Execution
  <2>2. x \in Execution
    BY <1>1 DEF AdapterInv, TypeOK, Execution
  <2>3. Loaded = IF x.job # config /\ x.stage \notin {"terminal", "done"}
                 THEN Terminal(x, "ADAPTER_CONFIG_CHANGED") ELSE x
    BY DEF Loaded
  <2> HIDE DEF x
  <2>4. Truth(x, ack, Fate, request)
    BY <1>1, <2>1 DEF Truth
  <2>5. CASE x.job # config /\ x.stage \notin {"terminal", "done"}
    <3>1. /\ TrueVerdict("ADAPTER_CONFIG_CHANGED", ack, Fate, request)
          /\ "ADAPTER_CONFIG_CHANGED" \in Verdict
      BY DEF TrueVerdict, Verdict
    <3>2. Truth(Terminal(x, "ADAPTER_CONFIG_CHANGED"), ack, Fate, request)
      BY <1>1, <2>1, <2>2, <2>4, <2>5, <3>1, TruthTerminal
    <3>3. /\ Terminal(x, "ADAPTER_CONFIG_CHANGED").verdict = "ADAPTER_CONFIG_CHANGED"
          /\ Terminal(x, "ADAPTER_CONFIG_CHANGED").stage = "terminal"
      BY <2>2 DEF Terminal, Advance, Execution
    <3> QED BY <2>3, <2>5, <3>2, <3>3
  <2> QED BY <2>1, <2>3, <2>4, <2>5
<1>7. CopiesTrue'
  BY <1>2, <1>4, <1>5, <1>6 DEF PromiseInv, CopiesTrue
<1>8. EndedUnbuilt'
  <2>1. \A v \in Workers : Holds(v)' => v = w
    BY <1>2 DEF Holds
  <2>2. NeverBuilt(Loaded) => NeverBuilt(exec)
    BY <1>6 DEF NeverBuilt, None
  <2> QED BY <1>2, <1>4, <1>5, <2>1, <2>2 DEF PromiseInv, EndedUnbuilt
<1>9. ReportsSaved'
  BY <1>2, <1>4, <1>6 DEF PromiseInv, ReportsSaved, Reports
<1>10. RepliesTrue'
  BY <1>2 DEF PromiseInv, RepliesTrue
<1> QED BY <1>7, <1>8, <1>9, <1>10 DEF PromiseInv

\* What goes on around the calls: calls end, leases run out, replies settle and Jenkins
\* works, but nothing saves or sends.
LEMMA AroundPromise ==
  ASSUME AdapterInv, PromiseInv, TruthLater, RepliesTrue',
         \A w \in Workers : pc'[w] \in {pc[w], "idle"}, leased' => leased,
         UNCHANGED <<exec, owner, posts, local>>
  PROVE  PromiseInv'
<1>1. CopiesTrue'
  BY TruthStays DEF PromiseInv, CopiesTrue
<1>2. Fired' => Fired
  BY DEF Fired
<1>3. EndedUnbuilt'
  BY <1>2 DEF PromiseInv, EndedUnbuilt, Holds
<1>4. ReportsSaved'
  BY DEF PromiseInv, ReportsSaved, Reports
<1> QED BY <1>1, <1>3, <1>4 DEF PromiseInv

\* A call that crashes, a lease that runs out, a restart with another job.
LEMMA FaultsPromise ==
  ASSUME AdapterInv, PromiseInv, (\E w \in Workers : Crash(w)) \/ ExpireLease \/ ChangeConfig
  PROVE  PromiseInv'
<1>1. UNCHANGED <<exec, owner, ack, result, jenkins, onTheWay, posts, local, request>>
  BY DEF Crash, ExpireLease, ChangeConfig, leaseVars, replyVars, jenkinsVars, configVars
<1>2. TruthLater
  BY <1>1 DEF TruthLater, Fate
<1>3. RepliesTrue'
  BY <1>1 DEF PromiseInv, RepliesTrue
<1>4. \A w \in Workers : pc'[w] \in {pc[w], "idle"}
  BY DEF Crash, ExpireLease, ChangeConfig, AdapterInv, TypeOK
<1>5. leased' => leased
  <2>1. leased' = leased \/ leased' = FALSE
    BY DEF Crash, ExpireLease, ChangeConfig, leaseVars
  <2>2. CASE leased' = leased
    BY <2>2
  <2>3. CASE leased' = FALSE
    BY <2>3
  <2> QED BY <2>1, <2>2, <2>3
<1> QED BY <1>1, <1>2, <1>3, <1>4, <1>5, AroundPromise

\* A reply that settles keeps its payload.
LEMMA SettlePromise ==
  ASSUME AdapterInv, PromiseInv, SettleReply
  PROVE  PromiseInv'
<1>1. UNCHANGED <<exec, owner, leased, jenkins, onTheWay, posts, pc, local, request>>
  BY DEF SettleReply, leaseVars, jenkinsVars, configVars
<1>2. \A s : Settle(s) # {} => s # None /\ s # "succeeded"
  BY DEF Settle, None
<1>3. /\ ack' = ack \/ (ack # None /\ ack # "succeeded")
      /\ result'.payload = result.payload
      /\ result'.status = result.status \/ result.status # None
  <2>1. result \in [status : ReplyStatus, payload : Verdict \cup {None}]
    BY DEF AdapterInv, TypeOK
  <2> QED BY <1>2, <2>1 DEF SettleReply
<1>4. TruthLater
  BY <1>1, <1>3 DEF TruthLater, Fate
<1>5. RepliesTrue'
  BY <1>1, <1>3 DEF PromiseInv, RepliesTrue
<1>6. (\A w \in Workers : pc'[w] \in {pc[w], "idle"}) /\ (leased' => leased)
  BY <1>1
<1> QED BY <1>1, <1>4, <1>5, <1>6, AroundPromise

\* A build that runs is one that was not refused or cancelled.
LEMMA FateRuns ==
  ASSUME AdapterInv, RunJenkins
  PROVE  \/ Fate = "sent" /\ Fate' = "queued"
         \/ Fate = "queued" /\ Fate' \in {"building", "cancelled"}
         \/ Fate = "building" /\ Fate' \in {"succeeded", "failed"}
<1>1. /\ posts' = posts /\ OneTrigger /\ onTheWay \in BOOLEAN
      /\ \/ onTheWay /\ jenkins' = "queued"
         \/ jenkins = "queued" /\ jenkins' \in {"building", "cancelled"}
         \/ jenkins = "building" /\ jenkins' \in {"succeeded", "failed"}
  BY DEF RunJenkins, AdapterInv, TypeOK
<1>2. posts # 0
  BY <1>1 DEF OneTrigger, None
<1>3. onTheWay => jenkins = None
  BY <1>1 DEF OneTrigger
<1> QED BY <1>1, <1>2, <1>3 DEF Fate, None

\* Jenkins moves the build on, and does not take back what was seen of it.
LEMMA JenkinsPromise ==
  ASSUME AdapterInv, PromiseInv, RunJenkins
  PROVE  PromiseInv'
<1>1. UNCHANGED <<exec, owner, leased, ack, result, posts, pc, local, request>>
  BY DEF RunJenkins, leaseVars, replyVars, configVars
<1>2. TruthLater
  BY <1>1, FateRuns DEF TruthLater, Seen
<1>3. RepliesTrue'
  BY <1>1 DEF PromiseInv, RepliesTrue
<1>4. (\A w \in Workers : pc'[w] \in {pc[w], "idle"}) /\ (leased' => leased)
  BY <1>1
<1> QED BY <1>1, <1>2, <1>3, <1>4, AroundPromise

\* At first there is nothing to be said.
LEMMA PromiseInit == Init => PromiseInv
<1> SUFFICES ASSUME Init PROVE PromiseInv
  OBVIOUS
<1>1. \A x : x = New(config) => /\ x.stage = "new" /\ x.class = None /\ x.verdict = None
                                /\ x.payload = None
  BY DEF New
<1>2. /\ exec = New(config) /\ \A w \in Workers : local[w] = New(config) /\ pc[w] = "idle"
      /\ posts = 0 /\ ack = None /\ result.status = None /\ result.payload = None
  BY DEF Init
<1>3. \A x, a, f, q : x = New(config) => Truth(x, a, f, q)
  BY <1>1 DEF Truth, TrueVerdict, None
<1>4. CopiesTrue
  BY <1>2, <1>3 DEF CopiesTrue
<1>5. EndedUnbuilt
  BY <1>2 DEF EndedUnbuilt, Fired
<1>6. ReportsSaved
  BY <1>2 DEF ReportsSaved, Reports
<1>7. RepliesTrue
  BY <1>2 DEF RepliesTrue
<1> QED BY <1>4, <1>5, <1>6, <1>7 DEF PromiseInv

\* Every step keeps it.
LEMMA PromiseNext == AdapterInv /\ PromiseInv /\ [Next]_vars => PromiseInv'
<1> SUFFICES ASSUME AdapterInv, PromiseInv, [Next]_vars PROVE PromiseInv'
  OBVIOUS
<1>1. ASSUME NEW w \in Workers, Step(w) PROVE PromiseInv'
  BY <1>1, ParsePromise, AcknowledgePromise, ReportPromise, EnqueuePromise, TriggerPromise,
     PostPromise, LooksPromise, FetchPromise, SavePromise
  DEF Step
<1>2. ASSUME NEW w \in Workers, Claim(w) \/ FailCall(w) PROVE PromiseInv'
  BY <1>2, ClaimPromise, FailCallPromise
<1>3. CASE (\E w \in Workers : Crash(w)) \/ ExpireLease \/ ChangeConfig
  BY <1>3, FaultsPromise
<1>4. CASE SettleReply \/ RunJenkins
  BY <1>4, SettlePromise, JenkinsPromise
<1>5. CASE UNCHANGED vars
  <2>1. UNCHANGED <<exec, owner, leased, ack, result, jenkins, onTheWay, posts, pc, local, request>>
    BY <1>5 DEF vars, leaseVars, replyVars, jenkinsVars, configVars
  <2>2. TruthLater
    BY <2>1 DEF TruthLater, Fate
  <2>3. RepliesTrue'
    BY <2>1 DEF PromiseInv, RepliesTrue
  <2> QED BY <2>1, <2>2, <2>3, AroundPromise
<1> QED BY <1>1, <1>2, <1>3, <1>4, <1>5 DEF Next

\* What the user is told is true, always.
LEMMA PromiseAlways == Spec => []PromiseInv
BY AdapterAlways, PromiseInit, PromiseNext, PTL DEF Spec

\* The fields of the promise, with the refinement's names.
Build == IF posts = 0 THEN "none"
         ELSE IF jenkins \in {"succeeded", "failed"} THEN jenkins ELSE "asked"
Told == IF result.status = "succeeded" THEN result.payload ELSE None
Outcome == IF exec.stage # "done" THEN "open" ELSE IF exec.class = None THEN "ok" ELSE "failed"

\* The refinement's build is the fate, without the steps on the way.
LEMMA BuildIs ==
  ASSUME AdapterInv
  PROVE  /\ Build = "none" <=> Fate = "none"
         /\ \A f \in {"succeeded", "failed"} : Build = f <=> Fate = f
         /\ Build = "asked" <=> Fate \notin {"none", "succeeded", "failed"}
BY DEF AdapterInv, TypeOK, OneTrigger, Build, Fate, None

\* What touches nothing that the promise speaks of.
LEMMA PromiseStutter ==
  ASSUME UNCHANGED <<request, Build, Told, Outcome>>, exec'.verdict = exec.verdict,
         ack = "succeeded" <=> ack' = "succeeded"
  PROVE  UNCHANGED Promise!vars
<1>1. (ack = "succeeded") = (ack' = "succeeded")
  OBVIOUS
<1> QED BY <1>1 DEF Promise!vars, Build, Told, Outcome

\* The actions that touch nothing that the promise speaks of.
LEMMA SilentSteps ==
  ASSUME [Next]_vars,
         ~ \E w \in Workers : Save(w) \/ Trigger(w) \/ Post(w) \/ Acknowledge(w)
                              \/ Report(w) \/ Enqueue(w),
         ~ SettleReply, ~ RunJenkins
  PROVE  UNCHANGED <<exec, ack, result, jenkins, posts, request>>
<1> USE DEF leaseVars, replyVars, jenkinsVars, configVars
<1>1. ASSUME NEW w \in Workers, Claim(w) \/ FailCall(w) \/ Crash(w)
      PROVE  UNCHANGED <<exec, ack, result, jenkins, posts, request>>
  BY <1>1 DEF Claim, FailCall, Crash
<1>2. ASSUME NEW w \in Workers,
             Parse(w) \/ Reconcile(w) \/ PollQueue(w) \/ PollBuild(w) \/ FetchResult(w)
      PROVE  UNCHANGED <<exec, ack, result, jenkins, posts, request>>
  BY <1>2 DEF Parse, Reconcile, PollQueue, PollBuild, FetchResult
<1>3. CASE ExpireLease \/ ChangeConfig \/ UNCHANGED vars
  BY <1>3 DEF ExpireLease, ChangeConfig, vars
<1> QED BY <1>1, <1>2, <1>3 DEF Next, Step

\* Replies that are created and queued are not seen; one that is delivered is.
LEMMA RepliesRefine ==
  ASSUME AdapterInv, PromiseInv,
         SettleReply \/ \E w \in Workers : Acknowledge(w) \/ Report(w) \/ Enqueue(w)
  PROVE  [Promise!Next]_(Promise!vars)
<1>1. /\ UNCHANGED <<exec, jenkins, posts, request>>
      /\ result \in [status : ReplyStatus, payload : Verdict \cup {None}]
      /\ None # "succeeded"
  BY DEF SettleReply, Acknowledge, Report, Enqueue, jenkinsVars, configVars, AdapterInv, TypeOK, None
<1>2. UNCHANGED <<Build, Outcome, request>> /\ exec'.verdict = exec.verdict
  BY <1>1 DEF Build, Outcome
<1>3. CASE \E w \in Workers : Acknowledge(w) \/ Report(w) \/ Enqueue(w)
  <2>1. ack' = ack \/ (ack = None /\ ack' = "created") \/ ack' = Accepted(ack)
    BY <1>3 DEF Acknowledge, Report, Enqueue
  <2>2. \/ result' = result \/ result' = [result EXCEPT !.status = Accepted(@)]
        \/ result.status = None /\ result'.status = "created"
    <3>1. ASSUME NEW w \in Workers, Report(w)
          PROVE  result' = result \/ (result.status = None /\ result'.status = "created")
      BY <3>1 DEF Report
    <3> QED BY <1>3, <3>1 DEF Acknowledge, Enqueue
  <2>3. \A s : Accepted(s) = "succeeded" <=> s = "succeeded"
    BY DEF Accepted
  <2>4. ack' = "succeeded" <=> ack = "succeeded"
    BY <1>1, <2>1, <2>3
  <2>5. Told' = Told
    BY <1>1, <2>2, <2>3 DEF Told
  <2> QED BY <1>2, <2>4, <2>5, PromiseStutter
<1>4. CASE SettleReply
  <2>1. \A s : s \in {"none", "created", "succeeded"} => Settle(s) = {}
    BY DEF Settle
  <2>2. CASE result' = result /\ ack # None /\ ack # "succeeded"
    <3>1. CASE ack' = "succeeded"
      <4>1. request = "valid" /\ Told' = Told
        BY <2>2 DEF PromiseInv, RepliesTrue, Told
      <4>2. Promise!Acknowledge
        BY <1>2, <3>1, <4>1 DEF Promise!Acknowledge, Build, Told, Outcome
      <4> QED BY <4>2 DEF Promise!Next
    <3>2. CASE ack' # "succeeded"
      <4>1. Told' = Told
        BY <2>2 DEF Told
      <4> QED BY <1>2, <2>2, <3>2, <4>1, PromiseStutter
    <3> QED BY <3>1, <3>2
  <2>3. CASE /\ ack' = ack /\ result.status # None /\ result.status # "succeeded"
             /\ result'.payload = result.payload
    <3>1. CASE result'.status = "succeeded"
      <4>1. /\ result.payload \in {exec.verdict, "ADAPTER_CONFIG_CHANGED"} \ {None}
            /\ Told = None /\ Told' = result.payload
        BY <2>3, <3>1 DEF PromiseInv, RepliesTrue, Told
      <4>2. Promise!Tell
        BY <1>2, <2>3, <4>1 DEF Promise!Tell, Promise!JobChanged, Build, Told, Outcome
      <4> QED BY <4>2 DEF Promise!Next
    <3>2. CASE result'.status # "succeeded"
      <4>1. Told' = Told
        BY <2>3, <3>2 DEF Told
      <4> QED BY <1>2, <2>3, <4>1, PromiseStutter
    <3> QED BY <3>1, <3>2
  <2>4. \/ result' = result /\ ack # None /\ ack # "succeeded"
        \/ /\ ack' = ack /\ result.status # None /\ result.status # "succeeded"
           /\ result'.payload = result.payload
    BY <1>1, <1>4, <2>1 DEF SettleReply, None
  <2> QED BY <2>2, <2>3, <2>4
<1> QED BY <1>3, <1>4

\* The POST asks for the build: of a request that may still end well, or whose end is unsure.
LEMMA PostRefines ==
  ASSUME AdapterInv, PromiseInv, NEW w \in Workers, Post(w)
  PROVE  [Promise!Next]_(Promise!vars)
<1>1. /\ UNCHANGED <<exec, ack, result, request>> /\ posts = 0 /\ jenkins = None /\ Fired
      /\ local[w].stage = "triggering"
  BY DEF Post, replyVars, configVars, AdapterInv, OneTrigger, Fired
<1>2. ack = "succeeded"
  BY <1>1, EarlyCopy
<1>3. UNCHANGED <<Told, Outcome, request>> /\ exec'.verdict = exec.verdict /\ Build = "none"
  BY <1>1 DEF Told, Outcome, Build
<1>4. CASE posts' = posts
  <2>1. Build' = Build
    BY <1>1, <1>4 DEF Build
  <2> QED BY <1>1, <1>3, <2>1, PromiseStutter
<1>5. CASE posts' = posts + 1
  <2>1. Build' = "asked"
    <3>1. jenkins' \in {None, "queued"}
      BY <1>1, <1>5 DEF Post, jenkinsVars
    <3>2. posts' # 0
      BY <1>1, <1>5
    <3> QED BY <3>1, <3>2 DEF Build, None
  <2>2. ~NeverBuilt(exec) /\ TrueVerdict(exec.verdict, ack, "none", request)
    <3>1. Fate = "none"
      BY <1>1 DEF Fate
    <3> QED BY <1>1, <3>1 DEF PromiseInv, EndedUnbuilt, CopiesTrue, Truth
  <2>3. exec.verdict \in Verdict \cup {None}
    BY DEF AdapterInv, TypeOK, Execution
  <2>4. exec.verdict \in Promise!Unsure \/ (exec.verdict = None /\ exec.stage # "done")
    BY <2>2, <2>3 DEF NeverBuilt, TrueVerdict, Verdict, Seen, Promise!Unsure, Promise!JobChanged
  <2>5. Promise!Ask
    BY <1>1, <1>2, <1>3, <2>1, <2>4 DEF Promise!Ask, Build, Told, Outcome
  <2> QED BY <2>5 DEF Promise!Next
<1> QED BY <1>4, <1>5 DEF Post, jenkinsVars

\* A build that ends is not one whose trigger was said to have failed.
LEMMA JenkinsRefines ==
  ASSUME AdapterInv, PromiseInv, RunJenkins
  PROVE  [Promise!Next]_(Promise!vars)
<1>1. UNCHANGED <<exec, ack, result, request>>
  BY DEF RunJenkins, replyVars, configVars
<1>2. UNCHANGED <<Told, Outcome, request>> /\ exec'.verdict = exec.verdict
  BY <1>1 DEF Told, Outcome
<1>3. AdapterInv'
  BY JenkinsKeeps
<1>4. Build = "asked"
  BY FateRuns, BuildIs
<1>5. CASE Fate = "building" /\ Fate' \in {"succeeded", "failed"}
  <2>1. Build' \in {"succeeded", "failed"}
    <3>1. posts # 0 /\ posts' = posts /\ jenkins' \in {"succeeded", "failed"}
      <4>1. jenkins = "building"
        BY <1>5, FateSeen DEF Seen
      <4> QED BY <4>1 DEF RunJenkins, AdapterInv, OneTrigger, None
    <3> QED BY <3>1 DEF Build
  <2>2. exec.verdict # "JENKINS_TRIGGER_FAILED"
    BY <1>5 DEF PromiseInv, CopiesTrue, Truth, TrueVerdict
  <2>3. Promise!Run
    BY <1>1, <1>2, <1>4, <2>1, <2>2 DEF Promise!Run, Build, Told, Outcome
  <2> QED BY <2>3 DEF Promise!Next
<1>6. CASE Fate' \in {"queued", "building", "cancelled"}
  <2>1. posts # 0 /\ posts' = posts /\ jenkins' \notin {"succeeded", "failed"}
    <3>1. posts' = posts /\ posts # 0
      BY DEF RunJenkins, AdapterInv, TypeOK, OneTrigger, None
    <3> QED BY <1>6, <3>1 DEF Fate, None
  <2>2. Build' = Build
    BY <1>4, <2>1 DEF Build
  <2> QED BY <1>1, <1>2, <2>2, PromiseStutter
<1> QED BY <1>5, <1>6, FateRuns

\* What the holder saves: the verdict it came to, or an end it may have come to.
LEMMA SaveRefines ==
  ASSUME AdapterInv, PromiseInv, PromiseInv', NEW w \in Workers, Save(w)
  PROVE  [Promise!Next]_(Promise!vars)
<1>1. UNCHANGED <<ack, result, jenkins, onTheWay, posts, request>> /\ pc[w] = "save"
  BY DEF Save, replyVars, jenkinsVars, configVars
<1>2. UNCHANGED <<Build, Told, request>> /\ Fate' = Fate
  BY <1>1 DEF Build, Told, Fate
<1>3. CASE UNCHANGED exec
  <2>1. Outcome' = Outcome
    BY <1>3 DEF Outcome
  <2> QED BY <1>1, <1>2, <1>3, <2>1, PromiseStutter
<1>4. CASE Holds(w) /\ exec' = local[w]
  <2> DEFINE y == local[w]
  <2>1. /\ Forward(exec, y) /\ Truth(y, ack, Fate, request) /\ (NeverBuilt(y) => ~Fired)
        /\ y \in Execution /\ exec \in Execution /\ Sound(y, ack, jenkins, result, request)
        /\ Sound(exec, ack, jenkins, result, request)
    BY <1>1, <1>4, CopyFacts
    DEF AdapterInv, TypeOK, HolderAhead, CopiesSound, PromiseInv, CopiesTrue, EndedUnbuilt
  <2>2. y.stage = "done" => y.verdict \in {None, exec.verdict, "ADAPTER_CONFIG_CHANGED"}
    BY <1>1 DEF PromiseInv, ReportsSaved, Reports
  <2>3. exec' = y
    BY <1>4
  <2>4. result.payload \in {None, y.verdict, "ADAPTER_CONFIG_CHANGED"}
    BY <1>1, <2>3 DEF PromiseInv, RepliesTrue
  <2>5. NeverBuilt(y) => Build = "none"
    <3>1. NeverBuilt(y) => ~(posts > 0) /\ posts \in Nat
      BY <2>1 DEF Fired, AdapterInv, TypeOK
    <3> QED BY <3>1 DEF Build
  <2> HIDE DEF y
  <2>6. CASE exec.stage = "done"
    BY <1>3, <2>1, <2>3, <2>6 DEF Forward
  <2>7. CASE exec.stage # "done" /\ y.verdict = exec.verdict /\ y.stage # "done"
    <3>1. Outcome' = Outcome
      BY <2>3, <2>7 DEF Outcome
    <3> QED BY <1>1, <1>2, <2>3, <2>7, <3>1, PromiseStutter
  <2>8. CASE exec.stage # "done" /\ y.verdict = exec.verdict /\ y.stage = "done"
    <3>1. Outcome = "open" /\ Outcome' = IF y.class = None THEN "ok" ELSE "failed"
      BY <2>3, <2>8 DEF Outcome
    <3>2. CASE y.class = None
      <4>1. y.verdict \in {None, "succeeded"}
        BY <2>1, <3>2 DEF Truth
      <4>2. request = "none" \/ Told = "succeeded"
        BY <2>1, <2>8, <3>2 DEF Sound, Delivered, Told
      <4>3. y.verdict = "succeeded" => request = "valid"
        BY <2>1 DEF Truth, TrueVerdict, None
      <4>4. y.verdict = None => Told # "succeeded"
        BY <2>4 DEF Told, None
      <4>5. \/ request = "none" /\ exec.verdict = None
            \/ exec.verdict = "succeeded" /\ Told = "succeeded"
        BY <2>8, <4>1, <4>2, <4>3, <4>4
      <4>6. Promise!End
        BY <1>1, <1>2, <2>3, <2>8, <3>1, <3>2, <4>5 DEF Promise!End, Build, Told, Outcome
      <4> QED BY <4>6 DEF Promise!Next
    <3>3. CASE y.class # None
      <4>1. y.verdict = None => request = "valid" /\ Build = "none"
        BY <2>1, <2>5, <2>8, <3>3 DEF Truth, NeverBuilt
      <4>2. Promise!End
        BY <1>1, <1>2, <2>3, <2>8, <3>1, <3>3, <4>1 DEF Promise!End, Build, Told, Outcome
      <4> QED BY <4>2 DEF Promise!Next
    <3> QED BY <3>2, <3>3
  <2>9. CASE exec.stage # "done" /\ y.verdict # exec.verdict
    <3>1. exec.verdict = None /\ y.verdict # None /\ y.verdict \in Verdict
      BY <2>1, <2>9 DEF Forward, Execution
    <3>2. Outcome = "open" /\ Outcome' = IF y.stage # "done" THEN "open"
                                         ELSE IF y.class = None THEN "ok" ELSE "failed"
      BY <2>3, <2>9 DEF Outcome
    <3>3. y.stage = "done" => y.verdict = "ADAPTER_CONFIG_CHANGED" /\ y.class # None
      BY <2>1, <2>2, <3>1 DEF Truth
    <3>4. Outcome' = "open" \/ (y.verdict = "ADAPTER_CONFIG_CHANGED" /\ Outcome' = "failed")
      BY <3>2, <3>3
    <3>5. Promise!Due(y.verdict)
      <4>1. TrueVerdict(y.verdict, ack, Fate, request)
        BY <2>1 DEF Truth
      <4>2. /\ Fate = "succeeded" => Build = "succeeded"
            /\ Fate = "failed" => Build = "failed"
            /\ Fate \in Seen \cup {"lost"} => Build # "none"
        BY BuildIs DEF Seen
      <4>3. y.verdict = "INVALID_REQUEST" => Build = "none"
        BY <2>5 DEF NeverBuilt
      <4> QED BY <3>1, <4>1, <4>2, <4>3
              DEF Promise!Due, Promise!Unsure, Promise!JobChanged, TrueVerdict, Verdict,
                  Build, Seen
    <3>6. exec'.verdict = y.verdict
      BY <2>3
    <3>7. Promise!Conclude
      BY <1>1, <1>2, <3>1, <3>2, <3>4, <3>5, <3>6
      DEF Promise!Conclude, Promise!JobChanged, Build, Told, Outcome
    <3> QED BY <3>7 DEF Promise!Next
  <2> QED BY <2>6, <2>7, <2>8, <2>9
<1> QED BY <1>3, <1>4 DEF Save

\* The intent is not a verdict.
LEMMA TriggerRefines ==
  ASSUME AdapterInv, PromiseInv, NEW w \in Workers, Trigger(w)
  PROVE  [Promise!Next]_(Promise!vars)
<1>1. UNCHANGED <<ack, result, jenkins, posts, request>>
  BY DEF Trigger, replyVars, jenkinsVars, configVars
<1>2. UNCHANGED <<Build, Told, request>>
  BY <1>1 DEF Build, Told
<1>3. exec'.verdict = exec.verdict /\ Outcome' = Outcome
  <2>1. CASE UNCHANGED exec
    BY <2>1 DEF Outcome
  <2>2. CASE Holds(w) /\ exec' = Advance(local[w], "triggering")
    <3>1. /\ local[w] \in Execution /\ local[w].verdict = None /\ local[w].stage = "ready"
          /\ Forward(exec, local[w])
      BY <2>2, EarlyCopy DEF Trigger, At, AdapterInv, HolderAhead
    <3>2. exec'.stage = "triggering" /\ exec'.verdict = None
      BY <2>2, <3>1 DEF Advance, Execution
    <3>3. exec.stage # "done" /\ exec.verdict = None
      BY <3>1 DEF Forward
    <3> QED BY <3>2, <3>3 DEF Outcome
  <2> QED BY <2>1, <2>2 DEF Trigger
<1> QED BY <1>1, <1>2, <1>3, PromiseStutter

\* The adapter implements what it promises of a message: one build at most, after the
\* acknowledgment; a verdict that is true of the build and stays so, whatever late calls
\* and lost answers do; and a delivery that succeeds only with what the user was told.
THEOREM AdapterKeepsPromise == Spec => KeepsPromise
<1>1. Init => Promise!Init
  <2> SUFFICES ASSUME Init PROVE Promise!Init
    OBVIOUS
  <2>1. /\ exec.stage = "new" /\ exec.verdict = None
        /\ posts = 0 /\ ack = None /\ result.status = None
    BY DEF Init, New
  <2>2. (ack = "succeeded") = FALSE /\ None # "succeeded"
    BY <2>1 DEF None
  <2> QED BY <2>1, <2>2 DEF Init, Promise!Init
<1>2. ASSUME AdapterInv, PromiseInv, PromiseInv', [Next]_vars
      PROVE  [Promise!Next]_(Promise!vars)
  <2>1. ASSUME NEW w \in Workers, Save(w) \/ Trigger(w) \/ Post(w)
        PROVE  [Promise!Next]_(Promise!vars)
    BY <1>2, <2>1, SaveRefines, TriggerRefines, PostRefines
  <2>2. CASE SettleReply \/ \E w \in Workers : Acknowledge(w) \/ Report(w) \/ Enqueue(w)
    BY <1>2, <2>2, RepliesRefine
  <2>3. CASE RunJenkins
    BY <1>2, <2>3, JenkinsRefines
  <2>4. CASE UNCHANGED <<exec, ack, result, jenkins, posts, request>>
    <3>1. UNCHANGED <<Build, Told, Outcome>>
      BY <2>4 DEF Build, Told, Outcome
    <3> QED BY <2>4, <3>1, PromiseStutter
  <2> QED BY <1>2, <2>1, <2>2, <2>3, <2>4, SilentSteps
<1> QED BY <1>1, <1>2, AdapterAlways, PromiseAlways, PTL DEF Spec, KeepsPromise, Promise!Spec
===============================================================================
