------------------------ MODULE UpdatePipelineTheorems ------------------------
(***************************************************************************)
(* Theorems about what becomes of an update, for any number of bots, chats, *)
(* bridges, backends, routes and faults, and queues of any size.            *)
(***************************************************************************)
EXTENDS UpdatePipeline, FiniteSetTheorems, SequenceTheorems, WellFoundedInduction, TLAPS

(* The types *)

\* The texts messages may have, and who a message or its copy is between.
Texts == UNION {c.texts : c \in Configs}
Ends == Bots \X (Chats \cup Bridges)
Messages == [chat : Chats \cup Bridges, msg : Nat, text : Texts, reply : Nat]
Mappings == [from : Ends, fromMsg : Nat, to : Ends, toMsg : Nat]
Saved == [from : Ends, fromMsg : Nat, to : Ends, toMsg : Nat, then : {"route", "confirm"}]

\* What a worker that is not idle works on.
Jobs == [pc : {"reverse", "route", "llm", "save", "confirm"}, bot : Bots, id : Nat,
         message : Messages, ack : BOOLEAN, route : Nat, row : {NoRow} \cup Saved]
Sends == [kind : {"answer", "route", "llm"}, route : Nat, bot : Bots, update : Nat,
          from : (Chats \cup Bridges) \X Nat, answers : Nat, to : Chats, msg : Nat, reply : Nat]

\* Every variable that routing uses has its type ...
Typed ==
  /\ config \in Configs
  /\ inbox \in [Bots -> Seq(Messages)]
  /\ lastMsg \in [Chats -> Nat]
  /\ offset \in [Bots -> Nat \ {0}]
  /\ worker \in [Workers -> {Idle} \cup Jobs]
  /\ \A w \in Workers : (worker[w] # Idle /\ worker[w].pc = "save") => worker[w].row \in Saved
  /\ mappings \in Seq(Mappings)
  /\ bridged \in 0 .. MaxBridged /\ faults \in 0 .. MaxFaults
  /\ sends \in SUBSET Sends

\* ... the users write no more than the bound allows ...
Bounded == IsFiniteSet(Updates) /\ Cardinality(Updates) <= MaxMessages

\* ... and each worker has an update of its own: a poll loop the one at the offset,
\* the handler of a bridge one that no other handler has or had.
Busy(w) == worker[w] # Idle
Assigned ==
  /\ \A b \in Bots : offset[b] <= Len(inbox[b]) + 1
  /\ \A b \in Bots : Busy(b) =>
       Bot(b) = b /\ worker[b].id = offset[b] /\ offset[b] <= Len(inbox[b])
  /\ \A x \in Bridges : Busy(x) =>
       Bot(x) = BotOf[x] /\ worker[x].id \in BridgeBase .. BridgeBase + bridged - 1
  /\ \A x, y \in Bridges : (x # y /\ Busy(x) /\ Busy(y)) => worker[x].id # worker[y].id

TypeInv == Typed /\ Bounded /\ Assigned

(* Routing *)

\* What a worker is about to do, or will when it has saved its row.
Stage(w) == IF worker[w].pc = "save" THEN worker[w].row.then ELSE worker[w].pc

\* A message that a worker may have sent before it came to its stage.
Before(w, s) ==
  CASE s.kind = "answer" -> Stage(w) # "reverse"
    [] s.kind = "route"  -> Stage(w) # "reverse" /\ (Stage(w) = "route" => s.route <= worker[w].route)
    [] s.kind = "llm"    -> Stage(w) = "confirm"

Key(s) == <<s.bot, s.update>>

\* Messages are about updates that were taken, and, as long as its update was not
\* given up, a worker has sent nothing beyond its stage.
Traced ==
  /\ \A s \in sends :
       \/ /\ Real(s.update) /\ s.update <= offset[s.bot]
          /\ s.update = offset[s.bot] => Busy(s.bot) \/ Key(s) \in retried
       \/ ~Real(s.update) /\ s.update < BridgeBase + bridged
  /\ \A w \in Workers : Busy(w) => \A s \in sends :
       (Key(s) = <<Bot(w), worker[w].id>> /\ Key(s) \notin retried) => Before(w, s)

\* A row that leads back is about a copy that was sent, or a message that was answered.
Backing(ss, row) == \E t \in ss :
  \/ /\ t.kind # "answer" /\ t.to = row.to[2] /\ t.msg = row.toMsg
     /\ t.from[1] = row.from[2]
  \/ t.kind = "answer" /\ t.from = <<row.to[2], row.toMsg>> /\ t.to = row.from[2]
Backed ==
  /\ \A i \in DOMAIN mappings : Backing(sends, mappings[i])
  /\ \A w \in Workers : (Busy(w) /\ worker[w].pc = "save") => Backing(sends, worker[w].row)

------------------------------------------------------------------------------
(* Greatest and least *)

\* A set of numbers that is not empty has a least one.
LEMMA MinIn ==
  ASSUME NEW S \in SUBSET Nat, S # {}
  PROVE  Min(S) \in S /\ \A y \in S : Min(S) <= y
<1>1. PICK x \in S : \A y \in S : <<y, x>> \notin OpToRel(<, Nat)
  BY WFMin, NatLessThanWellFounded
<1>2. \A y \in S : x <= y
  <2>1. TAKE y \in S
  <2>2. x \in Nat /\ y \in Nat
    OBVIOUS
  <2>3. ~(y < x)
    BY <1>1, <2>2 DEF OpToRel
  <2> QED BY <2>2, <2>3
<1> QED BY <1>2 DEF Min

\* A set of numbers up to a bound that is not empty has a greatest one.
LEMMA MaxIn ==
  ASSUME NEW n \in Nat, NEW S \in SUBSET (0 .. n), S # {}
  PROVE  Max(S) \in S /\ \A y \in S : y <= Max(S)
<1> DEFINE T == {n - y : y \in S}
<1>1. \A y \in S : y \in Nat /\ n - y \in Nat
  <2>1. \A y \in 0 .. n : y \in Nat /\ n - y \in Nat
    OBVIOUS
  <2> QED BY <2>1
<1>2. T \in SUBSET Nat /\ T # {}
  BY <1>1
<1>3. Min(T) \in T /\ \A y \in T : Min(T) <= y
  BY <1>2, MinIn
<1>4. PICK x \in S : Min(T) = n - x
  BY <1>3
<1>5. \A y \in S : y <= x
  <2>1. TAKE y \in S
  <2>2. n - y \in T
    OBVIOUS
  <2>3. n - x <= n - y
    BY <1>3, <1>4, <2>2
  <2>4. x \in Nat /\ y \in Nat
    BY <1>1
  <2> HIDE DEF T
  <2> QED BY <2>3, <2>4
<1>6. \E z \in S : \A y \in S : z >= y
  <2>1. \A y \in S : x >= y
    BY <1>1, <1>5
  <2> QED BY <2>1
<1>7. Max(S) \in S /\ \A y \in S : Max(S) >= y
  BY <1>6 DEF Max
<1> QED BY <1>1, <1>7

------------------------------------------------------------------------------
(* The updates *)

\* What is known of a worker that is not idle.
LEMMA JobFields ==
  ASSUME Typed, NEW w \in Workers, Busy(w)
  PROVE  /\ worker[w] \in Jobs /\ Bot(w) \in Bots /\ worker[w].id \in Nat
         /\ Message(w) \in Messages /\ worker[w].route \in Nat
BY DEF Typed, Busy, Jobs, Bot, Message

\* A worker at some step is not idle.
LEMMA AtBusy ==
  ASSUME NEW w \in Workers, NEW pc, At(w, pc), pc # "idle"
  PROVE  Busy(w)
BY DEF At, Busy, Idle

\* A bot has no more updates than there are messages.
LEMMA FewUpdates ==
  ASSUME Typed, Bounded, NEW b \in Bots
  PROVE  Len(inbox[b]) \in Nat /\ Len(inbox[b]) <= MaxMessages /\ Len(inbox[b]) < BridgeBase
<1> DEFINE n == Len(inbox[b]) S == {b} \X (1 .. n)
<1>1. n \in Nat /\ DOMAIN inbox[b] = 1 .. n
  BY DEF Typed
<1>2. S \subseteq Updates
  <2>1. {<<b, id>> : id \in DOMAIN inbox[b]} \subseteq Updates
    BY DEF Updates
  <2> QED BY <1>1, <2>1
<1>3. IsFiniteSet(S) /\ Cardinality(S) = n
  <2>1. IsFiniteSet({b}) /\ Cardinality({b}) = 1
    BY FS_Singleton
  <2>2. IsFiniteSet(1 .. n) /\ Cardinality(1 .. n) = n
    BY <1>1, FS_Interval
  <2>3. IsFiniteSet(S) /\ Cardinality(S) = Cardinality({b}) * Cardinality(1 .. n)
    BY <2>1, <2>2, FS_Product
  <2> QED BY <1>1, <2>1, <2>2, <2>3
<1>4. Cardinality(S) <= Cardinality(Updates)
  BY <1>2, FS_Subset DEF Bounded
<1>5. Cardinality(Updates) \in Nat
  BY FS_CardinalityType DEF Bounded
<1> QED BY <1>1, <1>3, <1>4, <1>5, PipelineAssumption DEF Bounded

------------------------------------------------------------------------------
(* What routing does *)

\* What comes after a step: reverse routing, the routes one by one, the model.
Follows(w, kind, route, then) ==
  \/ worker[w].pc = "reverse" /\ kind = "answer" /\ route = 0 /\ then = "route"
  \/ worker[w].pc = "route" /\ kind = "route" /\ route > worker[w].route /\ then = "route"
  \/ worker[w].pc = "route" /\ kind = "none" /\ route = 0 /\ then = "llm"
  \/ worker[w].pc = "llm" /\ kind = "llm" /\ route = 0 /\ then = "confirm"

\* Nothing was sent.
Skipped(w) == \E kind \in {"answer", "route", "llm", "none"}, route \in Nat,
                 then \in {"route", "llm", "confirm"} :
  Skip(w, route, then) /\ Follows(w, kind, route, then)

\* A message was sent, and a row is saved next that leads back from it.
Sent(w) == \E s \in Sends, row \in Saved :
  /\ Key(s) = <<Bot(w), worker[w].id>>
  /\ s.msg = lastMsg[s.to] + 1 /\ lastMsg' = [lastMsg EXCEPT ![s.to] = @ + 1]
  /\ sends' = sends \cup {s}
  /\ worker' = [worker EXCEPT ![w] = [@ EXCEPT !.pc = "save", !.route = s.route, !.row = row]]
  /\ Follows(w, s.kind, s.route, row.then)
  /\ s.kind # "answer" =>
       s.to = row.to[2] /\ s.msg = row.toMsg /\ s.from[1] = row.from[2]
  /\ s.kind = "answer" =>
       /\ s.from = <<row.to[2], row.toMsg>> /\ s.to = row.from[2]
       /\ s.answers # 0 => \E i \in DOMAIN mappings :
            /\ mappings[i].to[2] = s.from[1] /\ mappings[i].toMsg = s.answers
            /\ mappings[i].from[2] = s.to

Routing(w) == ApplyReverseRoutes(w) \/ ApplyRoutes(w) \/ ApplyLLMRoutes(w)

\* The worker sent s.
Posted(w, kind, route, to, row, s) ==
  /\ s.kind = kind /\ s.route = route /\ s.to = to /\ s.msg = lastMsg[to] + 1
  /\ s.from = <<Message(w).chat, Message(w).msg>> /\ s.answers = Message(w).reply
  /\ Key(s) = <<Bot(w), worker[w].id>>
  /\ sends' = sends \cup {s} /\ lastMsg' = [lastMsg EXCEPT ![to] = @ + 1]
  /\ worker' = [worker EXCEPT ![w] = [@ EXCEPT !.pc = "save", !.route = route, !.row = row]]

\* A message that is sent is about the worker's update, and from its message.
LEMMA SendIs ==
  ASSUME Typed, NEW w \in Workers, Busy(w), NEW kind \in {"answer", "route", "llm"},
         NEW route \in Nat, NEW to, NEW reply \in Nat, NEW row \in Saved,
         Send(w, kind, route, to, reply, row)
  PROVE  \E s \in Sends : Posted(w, kind, route, to, row, s)
<1> DEFINE s == [kind |-> kind, route |-> route, bot |-> Bot(w), update |-> worker[w].id,
                 from |-> <<Message(w).chat, Message(w).msg>>, answers |-> Message(w).reply,
                 to |-> to, msg |-> lastMsg[to] + 1, reply |-> reply]
<1>1. to \in Chats /\ sends' = sends \cup {s} /\ lastMsg' = [lastMsg EXCEPT ![to] = @ + 1]
  BY DEF Send
<1>2. worker' = [worker EXCEPT ![w] = [@ EXCEPT !.pc = "save", !.route = route, !.row = row]]
  BY DEF Send
<1>3. lastMsg[to] + 1 \in Nat
  BY <1>1 DEF Typed
<1>4. /\ Bot(w) \in Bots /\ worker[w].id \in Nat /\ Message(w).chat \in Chats \cup Bridges
      /\ Message(w).msg \in Nat /\ Message(w).reply \in Nat
  BY JobFields DEF Messages
<1>5. s \in Sends
  BY <1>1, <1>3, <1>4 DEF Sends
<1>6. Key(s) = <<Bot(w), worker[w].id>>
  BY DEF Key
<1> QED BY <1>1, <1>2, <1>5, <1>6 DEF Posted

\* A copy is sent, or not.
LEMMA CopyIs ==
  ASSUME Typed, NEW w \in Workers, Busy(w), NEW kind \in {"route", "llm"}, NEW route \in Nat,
         NEW r, r.target \in Managed, NEW then \in {"route", "confirm"},
         Copy(w, kind, route, r, then), Follows(w, kind, route, then)
  PROVE  Skipped(w) \/ Sent(w)
<1> DEFINE m == Message(w)
           to == IF r.dest = "same" THEN m.chat ELSE r.dest
           row == [from |-> <<Bot(w), m.chat>>, fromMsg |-> m.msg,
                   to |-> <<r.target, to>>, toMsg |-> lastMsg[to] + 1, then |-> then]
<1>1. Skip(w, route, then) \/ Send(w, kind, route, to, 0, row)
  BY DEF Copy, Refused
<1>2. CASE Skip(w, route, then)
  BY <1>2 DEF Skipped
<1>3. CASE Send(w, kind, route, to, 0, row)
  <2>1. to \in Chats
    BY <1>3 DEF Send
  <2>2. Bot(w) \in Bots /\ m.chat \in Chats \cup Bridges /\ m.msg \in Nat
    BY JobFields DEF Messages
  <2>3. r.target \in Bots
    BY ConfigsAssumption DEF Typed, Managed
  <2>4. lastMsg[to] + 1 \in Nat
    BY <2>1 DEF Typed
  <2>5. row \in Saved
    BY <2>1, <2>2, <2>3, <2>4 DEF Saved, Ends
  <2>6. row.to[2] = to /\ row.toMsg = lastMsg[to] + 1 /\ row.from[2] = m.chat /\ row.then = then
    OBVIOUS
  <2> HIDE DEF row
  <2> HIDE DEF to
  <2>7. PICK s \in Sends : Posted(w, kind, route, to, row, s)
    BY <1>3, <2>5, SendIs, 0 \in Nat
  <2>8. /\ s.kind = kind /\ s.route = route /\ s.to = to /\ s.msg = lastMsg[to] + 1
        /\ s.from = <<m.chat, m.msg>> /\ Key(s) = <<Bot(w), worker[w].id>>
        /\ sends' = sends \cup {s} /\ lastMsg' = [lastMsg EXCEPT ![to] = @ + 1]
        /\ worker' = [worker EXCEPT ![w] = [@ EXCEPT !.pc = "save", !.route = route, !.row = row]]
    BY <2>7 DEF Posted
  <2> HIDE DEF m
  <2>9. s.from[1] = m.chat
    BY <2>8
  <2> QED BY <2>5, <2>6, <2>8, <2>9 DEF Sent
<1> QED BY <1>1, <1>2, <1>3

\* The mapping an answer goes by is one of the rows that fit it.
LEMMA MappingFits ==
  ASSUME Typed, NEW b, NEW m, NEW row \in Mapping(b, m)
  PROVE  \E i \in DOMAIN mappings : /\ row = mappings[i] /\ row.to = <<b, m.chat>>
                                    /\ m.reply # 0 => row.toMsg = m.reply
<1> DEFINE rows == {i \in RowsTo(b, m) : m.reply # 0 => mappings[i].toMsg = m.reply}
<1>1. rows # {} /\ row = mappings[Max(rows)]
  BY DEF Mapping
<1>2. Len(mappings) \in Nat /\ DOMAIN mappings = 1 .. Len(mappings)
  BY DEF Typed
<1>3. rows \in SUBSET DOMAIN mappings
  BY DEF RowsTo
<1>4. rows \in SUBSET (0 .. Len(mappings))
  <2>1. 1 .. Len(mappings) \subseteq 0 .. Len(mappings)
    BY <1>2
  <2> QED BY <1>2, <1>3, <2>1
<1> HIDE DEF rows
<1>5. Max(rows) \in rows
  BY <1>1, <1>2, <1>4, MaxIn
<1> QED BY <1>1, <1>3, <1>5 DEF rows, RowsTo

\* An answer is sent, or not.
LEMMA ReverseIs ==
  ASSUME Typed, NEW w \in Workers, ApplyReverseRoutes(w)
  PROVE  Busy(w) /\ (Skipped(w) \/ Sent(w))
<1> DEFINE m == Message(w)
           back(row) == [from |-> row.from, fromMsg |-> lastMsg[row.from[2]] + 1,
                         to |-> <<Bot(w), m.chat>>, toMsg |-> m.msg, then |-> "route"]
<1>1. Busy(w) /\ worker[w].pc = "reverse"
  BY AtBusy DEF ApplyReverseRoutes, At
<1>2. \/ Skip(w, 0, "route")
      \/ \E row \in Mapping(Bot(w), m) : \E reply \in {row.fromMsg, 0} :
           Send(w, "answer", 0, row.from[2], reply, back(row))
  BY DEF ApplyReverseRoutes, Refused
<1>3. CASE Skip(w, 0, "route")
  BY <1>1, <1>3 DEF Skipped, Follows
<1>4. CASE \E row \in Mapping(Bot(w), m) : \E reply \in {row.fromMsg, 0} :
             Send(w, "answer", 0, row.from[2], reply, back(row))
  <2>0. PICK row \in Mapping(Bot(w), m) : \E reply \in {row.fromMsg, 0} :
          Send(w, "answer", 0, row.from[2], reply, back(row))
    BY <1>4
  <2>1. PICK reply \in {row.fromMsg, 0} : Send(w, "answer", 0, row.from[2], reply, back(row))
    BY <2>0
  <2>2. PICK i \in DOMAIN mappings : /\ row = mappings[i] /\ row.to = <<Bot(w), m.chat>>
                                     /\ m.reply # 0 => row.toMsg = m.reply
    BY MappingFits
  <2>3. row \in Mappings
    BY <2>2 DEF Typed
  <2>4. row.from \in Ends /\ row.fromMsg \in Nat /\ reply \in Nat
    BY <2>3 DEF Mappings
  <2>5. row.from[2] \in Chats
    BY <2>1 DEF Send
  <2>6. Bot(w) \in Bots /\ m.chat \in Chats \cup Bridges /\ m.msg \in Nat
    BY <1>1, JobFields DEF Messages
  <2>7. lastMsg[row.from[2]] + 1 \in Nat
    BY <2>5 DEF Typed
  <2>8. back(row) \in Saved
    BY <2>4, <2>6, <2>7 DEF Saved, Ends
  <2>9. /\ back(row).from = row.from /\ back(row).to[2] = m.chat /\ back(row).toMsg = m.msg
        /\ back(row).then = "route"
    OBVIOUS
  <2> HIDE DEF back
  <2>s. PICK s \in Sends : Posted(w, "answer", 0, row.from[2], back(row), s)
    BY <1>1, <2>1, <2>4, <2>8, SendIs, 0 \in Nat
  <2>10. /\ s.kind = "answer" /\ s.route = 0 /\ s.to = row.from[2]
         /\ s.msg = lastMsg[row.from[2]] + 1
         /\ s.from = <<m.chat, m.msg>> /\ s.answers = m.reply
         /\ Key(s) = <<Bot(w), worker[w].id>>
         /\ sends' = sends \cup {s} /\ lastMsg' = [lastMsg EXCEPT ![row.from[2]] = @ + 1]
         /\ worker' = [worker EXCEPT
              ![w] = [@ EXCEPT !.pc = "save", !.route = 0, !.row = back(row)]]
    BY <2>s DEF Posted
  <2> HIDE DEF m
  <2>11. s.answers # 0 => /\ mappings[i].to[2] = s.from[1] /\ mappings[i].toMsg = s.answers
                          /\ mappings[i].from[2] = s.to
    BY <2>2, <2>10
  <2>12. Follows(w, s.kind, s.route, back(row).then)
    BY <1>1, <2>9, <2>10 DEF Follows
  <2> QED BY <1>1, <2>2, <2>8, <2>9, <2>10, <2>11, <2>12 DEF Sent
<1> QED BY <1>1, <1>2, <1>3, <1>4

\* Each step of routing skips or sends, and goes on.
LEMMA RoutingIs ==
  ASSUME Typed, NEW w \in Workers, Routing(w)
  PROVE  /\ Busy(w) /\ (Skipped(w) \/ Sent(w))
         /\ UNCHANGED <<config, inbox, offset, mappings, bridged, retried>>
         /\ faults' \in 0 .. MaxFaults
<1>1. UNCHANGED <<config, inbox, offset, mappings, bridged, retried>>
  BY DEF Routing, ApplyReverseRoutes, ApplyRoutes, ApplyLLMRoutes
<1>2. faults' \in 0 .. MaxFaults
  <2>1. faults' = faults \/ Fault
    BY DEF Routing, ApplyReverseRoutes, ApplyRoutes, ApplyLLMRoutes, Copy, Refused
  <2> QED BY <2>1, PipelineAssumption DEF Typed, Fault
<1>3. CASE ApplyReverseRoutes(w)
  BY <1>1, <1>2, <1>3, ReverseIs
<1>4. CASE ApplyRoutes(w)
  <2>1. Busy(w) /\ worker[w].pc = "route"
    BY <1>4, AtBusy DEF ApplyRoutes, At
  <2> DEFINE i == Min(Candidates(w)) r == Routes[Bot(w)][i]
  <2>2. CASE Candidates(w) = {} \/ r.action = "drop"
    <3>1. Skip(w, 0, "llm")
      BY <1>4, <2>2 DEF ApplyRoutes
    <3>2. Follows(w, "none", 0, "llm")
      BY <2>1 DEF Follows
    <3> QED BY <1>1, <1>2, <2>1, <3>1, <3>2 DEF Skipped
  <2>3. CASE ~(Candidates(w) = {} \/ r.action = "drop")
    <3>1. Copy(w, "route", i, r, "route")
      BY <1>4, <2>3 DEF ApplyRoutes
    <3>2. DOMAIN Routes[Bot(w)] \subseteq Nat \ {0}
      BY <2>1, JobFields, ConfigsAssumption DEF Typed, Routes
    <3>3. Candidates(w) \in SUBSET Nat
      BY <3>2 DEF Candidates
    <3>4. i \in Candidates(w)
      BY <2>3, <3>3, MinIn
    <3>5. i \in Nat /\ i > worker[w].route /\ r.target \in Managed
      BY <3>3, <3>4 DEF Candidates
    <3> HIDE DEF i, r
    <3>6. Follows(w, "route", i, "route")
      BY <2>1, <3>5 DEF Follows
    <3> QED BY <1>1, <1>2, <2>1, <3>1, <3>5, <3>6, CopyIs
  <2> QED BY <2>2, <2>3
<1>5. CASE ApplyLLMRoutes(w)
  <2>1. Busy(w) /\ worker[w].pc = "llm"
    BY <1>5, AtBusy DEF ApplyLLMRoutes, At
  <2>2. Follows(w, "llm", 0, "confirm")
    BY <2>1 DEF Follows
  <2>3. CASE Skip(w, 0, "confirm")
    BY <1>1, <1>2, <2>1, <2>2, <2>3 DEF Skipped
  <2>4. CASE ~Skip(w, 0, "confirm")
    <3>1. PICK r \in LLMRoutes[Bot(w)] : r.target \in Managed /\ Copy(w, "llm", 0, r, "confirm")
      BY <1>5, <2>4 DEF ApplyLLMRoutes
    <3> QED BY <1>1, <1>2, <2>1, <2>2, <3>1, CopyIs, 0 \in Nat
  <2> QED BY <2>3, <2>4
<1> QED BY <1>3, <1>4, <1>5 DEF Routing

------------------------------------------------------------------------------
(* What the other steps do *)

\* A worker takes an update.
Taken(b, id, message, ack) ==
  [pc |-> "reverse", bot |-> b, id |-> id, message |-> message,
   ack |-> ack, route |-> 0, row |-> NoRow]
Takes1(w, b, id, message) ==
  /\ worker[w] = Idle
  /\ \E ack \in BOOLEAN : worker' = [worker EXCEPT ![w] = Taken(b, id, message, ack)]

\* A worker that takes an update has it and no route yet.
LEMMA DispatchIs ==
  ASSUME Typed, NEW w \in Workers, NEW b \in Bots, NEW id, NEW message,
         worker[w] = Idle, Dispatch(w, b, id, message)
  PROVE  Takes1(w, b, id, message) /\ faults' \in 0 .. MaxFaults
<1>1. faults' \in 0 .. MaxFaults
  BY PipelineAssumption DEF Dispatch, Fault, Typed
<1>2. \E ack \in BOOLEAN : worker' = [worker EXCEPT ![w] = Taken(b, id, message, ack)]
  BY DEF Dispatch, Taken
<1> QED BY <1>1, <1>2 DEF Takes1

\* Nothing that routing uses changes.
Aside ==
  /\ UNCHANGED <<config, inbox, lastMsg, offset, worker, mappings, bridged, sends>>
  /\ faults' \in 0 .. MaxFaults
  /\ retried \subseteq retried'

\* A backend fetches, an update is refused, or a queue removed.
LEMMA AsideIs ==
  ASSUME Typed,
         \/ \E b \in Bots : Reject(b) \/ RemoveUpdateQueue(b)
         \/ \E c \in Clients : Request(c) \/ Disconnect(c)
         \/ UNCHANGED vars
  PROVE  Aside
<1>1. ASSUME Fault
      PROVE  faults' \in 0 .. MaxFaults
  BY <1>1, PipelineAssumption DEF Typed, Fault
<1>2. CASE \E b \in Bots : Reject(b)
  BY <1>1, <1>2 DEF Aside, Reject, telegram
<1>3. CASE \E b \in Bots : RemoveUpdateQueue(b)
  BY <1>1, <1>3 DEF Aside, RemoveUpdateQueue, Elsewhere, telegram
<1>4. CASE \E c \in Clients : Request(c)
  <2>1. PICK c \in Clients : Request(c)
    BY <1>4
  <2>2. UNCHANGED <<config, inbox, lastMsg, offset, worker, mappings, bridged, sends, retried>>
    BY <2>1 DEF Request, Ask, Wait, Wake, TimeOut, Elsewhere, telegram
  <2>3. faults' = faults \/ Fault
    BY <2>1 DEF Request, Ask, Wait, Wake, TimeOut, Get
  <2> QED BY <1>1, <2>2, <2>3 DEF Aside, Typed
<1>5. CASE \E c \in Clients : Disconnect(c)
  BY <1>1, <1>5 DEF Aside, Disconnect, Elsewhere, telegram
<1>6. CASE UNCHANGED vars
  BY <1>6 DEF Aside, vars, Typed
<1> QED BY <1>2, <1>3, <1>4, <1>5, <1>6

\* The steps of the system.
LEMMA Steps ==
  ASSUME Typed, [Next]_vars
  PROVE  \/ Aside \/ Crash
         \/ \E c \in Chats : Say(c)
         \/ \E b \in Bots : Poll(b)
         \/ \E x \in Bridges : HandleIncoming(x)
         \/ \E w \in Workers : Routing(w) \/ Save(w) \/ Confirm(w)
BY AsideIs DEF Next, Process, Routing

------------------------------------------------------------------------------
(* Types are kept *)

\* The invariant of types holds at first ...
LEMMA TypeInit == Init => TypeInv
<1> SUFFICES ASSUME Init
             PROVE  TypeInv
  OBVIOUS
<1>1. Typed
  BY PipelineAssumption DEF Init, Typed, Messages, Idle
<1>2. Updates = {}
  BY DEF Init, Updates
<1>3. Bounded
  BY <1>2, FS_EmptySet, PipelineAssumption DEF Bounded
<1>4. Assigned
  BY DEF Init, Assigned, Busy, Workers
<1> QED BY <1>1, <1>3, <1>4 DEF TypeInv

\* ... and steps that leave the workers alone keep it.
LEMMA AsideTypes ==
  ASSUME TypeInv, Aside
  PROVE  TypeInv'
<1>1. Typed'
  BY DEF TypeInv, Aside, Typed
<1>2. Updates' = Updates
  BY DEF Aside, Updates
<1>3. Bounded'
  BY <1>2 DEF TypeInv, Bounded
<1>4. Assigned'
  BY DEF TypeInv, Aside, Assigned, Busy, Bot
<1> QED BY <1>1, <1>3, <1>4 DEF TypeInv

\* A message that is said is a new one.
LEMMA SayTypes ==
  ASSUME TypeInv, NEW c \in Chats, Say(c)
  PROVE  TypeInv'
<1> USE DEF TypeInv
<1>1. PICK text \in config.texts, reply \in 0 .. lastMsg[c] :
        /\ Cardinality(Updates) < MaxMessages
        /\ inbox' = [inbox EXCEPT ![BotOf[c]] =
             Append(@, [chat |-> c, msg |-> lastMsg[c] + 1, text |-> text, reply |-> reply])]
  BY DEF Say, Updates
<1> DEFINE b == BotOf[c]
           m == [chat |-> c, msg |-> lastMsg[c] + 1, text |-> text, reply |-> reply]
           n == Len(inbox[b])
<1>2. b \in Bots
  BY PipelineAssumption
<1>3. lastMsg' = [lastMsg EXCEPT ![c] = @ + 1] /\ lastMsg[c] \in Nat
      /\ UNCHANGED <<config, offset, worker, mappings, bridged, faults, sends>>
  BY DEF Say, Typed
<1>4. m \in Messages
  BY <1>3 DEF Typed, Messages, Texts
<1> HIDE DEF m
<1>5. inbox[b] \in Seq(Messages) /\ n \in Nat /\ DOMAIN inbox[b] = 1 .. n
  BY <1>2 DEF Typed
<1>6. inbox' = [inbox EXCEPT ![b] = Append(inbox[b], m)]
  BY <1>1 DEF m
<1> HIDE DEF b
<1>7. inbox'[b] = Append(inbox[b], m) /\ \A x \in Bots \ {b} : inbox'[x] = inbox[x]
  BY <1>2, <1>6 DEF Typed
<1>8. inbox' \in [Bots -> Seq(Messages)]
  BY <1>2, <1>4, <1>5, <1>6 DEF Typed
<1>9. Typed'
  BY <1>3, <1>8 DEF Typed
<1>10. Len(inbox'[b]) = n + 1 /\ DOMAIN inbox'[b] = 1 .. n + 1
  BY <1>4, <1>5, <1>7
<1>11. Updates' = Updates \cup {<<b, n + 1>>}
  <2>1. \A x \in Bots : {<<x, id>> : id \in DOMAIN inbox'[x]}
          = {<<x, id>> : id \in DOMAIN inbox[x]} \cup (IF x = b THEN {<<b, n + 1>>} ELSE {})
    <3>1. TAKE x \in Bots
    <3>2. CASE x # b
      BY <1>7, <3>2
    <3>3. CASE x = b
      <4>1. 1 .. n + 1 = (1 .. n) \cup {n + 1}
        BY <1>5
      <4> QED BY <1>5, <1>10, <3>3, <4>1
    <3> QED BY <3>2, <3>3
  <2>2. Updates' = UNION {{<<x, id>> : id \in DOMAIN inbox'[x]} : x \in Bots}
    BY DEF Updates
  <2>3. Updates = UNION {{<<x, id>> : id \in DOMAIN inbox[x]} : x \in Bots}
    BY DEF Updates
  <2> DEFINE u(x) == {<<x, id>> : id \in DOMAIN inbox[x]}
             v(x) == {<<x, id>> : id \in DOMAIN inbox'[x]}
  <2>4. \A x \in Bots : v(x) = u(x) \cup (IF x = b THEN {<<b, n + 1>>} ELSE {})
    BY <2>1
  <2> DEFINE e == <<b, n + 1>>
  <2>5. \A x \in Bots : v(x) = u(x) \cup (IF x = b THEN {e} ELSE {})
    BY <2>4
  <2>6. Updates' = UNION {v(x) : x \in Bots} /\ Updates = UNION {u(x) : x \in Bots}
    BY <2>2, <2>3
  <2> HIDE DEF u, v, e
  <2>7. \A p : p \in Updates' <=> (\E x \in Bots : p \in v(x))
    BY <2>6
  <2>8. \A p : p \in Updates <=> (\E x \in Bots : p \in u(x))
    BY <2>6
  <2>9. \A p : p \in Updates' <=> (p \in Updates \/ p = e)
    BY <1>2, <2>5, <2>7, <2>8
  <2>10. Updates' = Updates \cup {e}
    BY <2>9
  <2> QED BY <2>10 DEF e
<1>12. Bounded'
  <2> DEFINE e == <<b, n + 1>>
  <2>1. IsFiniteSet(Updates) /\ Cardinality(Updates) \in Nat
    BY FS_CardinalityType DEF Bounded
  <2>2. /\ IsFiniteSet(Updates \cup {e})
        /\ Cardinality(Updates \cup {e})
             = IF e \in Updates THEN Cardinality(Updates) ELSE Cardinality(Updates) + 1
    BY <2>1, FS_AddElement
  <2>3. IsFiniteSet(Updates') /\ Cardinality(Updates') <= Cardinality(Updates) + 1
        /\ Cardinality(Updates') \in Nat
    BY <1>11, <2>1, <2>2
  <2> QED BY <1>1, <2>1, <2>3, PipelineAssumption DEF Bounded
<1>13. \A x \in Bots : Len(inbox[x]) <= Len(inbox'[x]) /\ Len(inbox[x]) \in Nat
                       /\ Len(inbox'[x]) \in Nat
  <2>1. TAKE x \in Bots
  <2>2. Len(inbox[x]) \in Nat /\ Len(inbox'[x]) \in Nat
    <3>1. inbox[x] \in Seq(Messages) /\ inbox'[x] \in Seq(Messages)
      BY <1>8 DEF Typed
    <3> QED BY <3>1
  <2>3. CASE x = b
    BY <1>5, <1>10, <2>2, <2>3
  <2>4. CASE x # b
    BY <1>7, <2>2, <2>4
  <2> QED BY <2>2, <2>3, <2>4
<1>14. Assigned'
  <2>1. \A x \in Bots : offset[x] \in Nat
    BY DEF Typed
  <2>2. \A x \in Bots : offset'[x] <= Len(inbox'[x]) + 1
    BY <1>3, <1>13, <2>1 DEF Assigned
  <2>3. \A x \in Bots : Busy(x)' => /\ Bot(x)' = x /\ worker'[x].id = offset'[x]
                                   /\ offset'[x] <= Len(inbox'[x])
    BY <1>3, <1>13, <2>1 DEF Assigned, Busy, Bot
  <2> QED BY <1>3, <2>2, <2>3 DEF Assigned, Busy, Bot
<1> QED BY <1>9, <1>12, <1>14

\* The bound on updates is about what users write.
LEMMA BoundedKept ==
  ASSUME Bounded, UNCHANGED inbox
  PROVE  Bounded'
<1>1. Updates' = Updates
  BY DEF Updates
<1> QED BY <1>1 DEF Bounded

\* A poll loop or a bridge takes an update.
LEMMA PollIs ==
  ASSUME TypeInv, NEW b \in Bots, Poll(b)
  PROVE  /\ worker[b] = Idle /\ offset[b] <= Len(inbox[b])
         /\ Takes1(b, b, offset[b], inbox[b][offset[b]])
         /\ inbox[b][offset[b]] \in Messages /\ offset[b] \in Nat /\ Real(offset[b])
         /\ faults' \in 0 .. MaxFaults
         /\ UNCHANGED <<config, inbox, lastMsg, offset, mappings, bridged, sends, retried>>
<1>1. /\ worker[b] = Idle /\ offset[b] <= Len(inbox[b])
      /\ Dispatch(b, b, offset[b], inbox[b][offset[b]])
      /\ UNCHANGED <<config, inbox, lastMsg, offset, mappings, bridged, sends, retried>>
  BY DEF Poll, telegram
<1>2. b \in Workers
  BY DEF Workers
<1>3. Takes1(b, b, offset[b], inbox[b][offset[b]]) /\ faults' \in 0 .. MaxFaults
  BY <1>1, <1>2, DispatchIs DEF TypeInv
<1>4. offset[b] \in Nat \ {0} /\ inbox[b] \in Seq(Messages)
  BY DEF TypeInv, Typed
<1>5. Len(inbox[b]) \in Nat /\ Len(inbox[b]) < BridgeBase
  BY FewUpdates DEF TypeInv
<1>6. offset[b] \in 1 .. Len(inbox[b])
  BY <1>1, <1>4, <1>5
<1>7. inbox[b][offset[b]] \in Messages
  BY <1>4, <1>6
<1>8. Real(offset[b])
  BY <1>1, <1>4, <1>5, PipelineAssumption DEF Real
<1> QED BY <1>1, <1>3, <1>4, <1>7, <1>8

\* What a bridge's message becomes.
LEMMA IncomingIs ==
  ASSUME TypeInv, NEW x \in Bridges, HandleIncoming(x)
  PROVE  /\ worker[x] = Idle /\ bridged < MaxBridged /\ bridged' = bridged + 1
         /\ \E m \in Messages : Takes1(x, BotOf[x], BridgeBase + bridged, m)
         /\ faults' \in 0 .. MaxFaults /\ BotOf[x] \in Bots
         /\ UNCHANGED <<config, inbox, lastMsg, offset, mappings, sends, retried>>
<1>1. /\ worker[x] = Idle /\ bridged < MaxBridged /\ bridged' = bridged + 1
      /\ UNCHANGED <<config, inbox, lastMsg, offset, mappings, sends, retried>>
  BY DEF HandleIncoming, telegram
<1>2. PICK text \in config.texts, reply \in {0} \cup BridgeBase .. BridgeBase + bridged - 1 :
          Dispatch(x, BotOf[x], BridgeBase + bridged,
                   [chat |-> x, msg |-> BridgeBase + bridged, text |-> text, reply |-> reply])
  BY DEF HandleIncoming
<1>3. x \in Workers /\ BotOf[x] \in Bots
  BY PipelineAssumption DEF Workers
<1>4. BridgeBase + bridged \in Nat
  BY PipelineAssumption DEF TypeInv, Typed
<1>5. [chat |-> x, msg |-> BridgeBase + bridged, text |-> text, reply |-> reply] \in Messages
  <2>1. reply \in Nat
    BY PipelineAssumption
  <2> QED BY <1>4, <2>1 DEF Messages, Texts, TypeInv, Typed
<1> QED BY <1>1, <1>2, <1>3, <1>5, DispatchIs DEF TypeInv

\* A worker that takes an update has a job.
LEMMA TakenIsJob ==
  ASSUME NEW b \in Bots, NEW id \in Nat, NEW m \in Messages, NEW ack \in BOOLEAN
  PROVE  /\ Taken(b, id, m, ack) \in Jobs /\ Taken(b, id, m, ack) # Idle
         /\ Taken(b, id, m, ack).bot = b /\ Taken(b, id, m, ack).id = id
         /\ Taken(b, id, m, ack).pc = "reverse"
<1>1. Taken(b, id, m, ack).pc = "reverse" /\ Idle.pc = "idle"
  BY DEF Taken, Idle
<1>2. Taken(b, id, m, ack) # Idle
  BY <1>1
<1> QED BY <1>1, <1>2 DEF Taken, Jobs

\* A poll keeps the types ...
LEMMA PollTypes ==
  ASSUME TypeInv, NEW b \in Bots, Poll(b)
  PROVE  TypeInv'
<1> USE DEF TypeInv
<1> DEFINE m == inbox[b][offset[b]]
<1>1. /\ worker[b] = Idle /\ offset[b] <= Len(inbox[b])
      /\ Takes1(b, b, offset[b], m) /\ m \in Messages /\ offset[b] \in Nat
      /\ faults' \in 0 .. MaxFaults
      /\ UNCHANGED <<config, inbox, lastMsg, offset, mappings, bridged, sends>>
  BY PollIs
<1> HIDE DEF m
<1>2. PICK ack \in BOOLEAN : worker' = [worker EXCEPT ![b] = Taken(b, offset[b], m, ack)]
  BY <1>1 DEF Takes1
<1> DEFINE t == Taken(b, offset[b], m, ack)
<1>3. t \in Jobs /\ t # Idle /\ t.bot = b /\ t.id = offset[b] /\ t.pc = "reverse"
  BY <1>1, TakenIsJob
<1> HIDE DEF t
<1>4. worker'[b] = t /\ \A w \in Workers \ {b} : worker'[w] = worker[w]
  BY <1>2 DEF Typed, Workers, t
<1>5. worker' \in [Workers -> {Idle} \cup Jobs]
  BY <1>2, <1>3 DEF Typed, t
<1>6. Typed'
  BY <1>1, <1>3, <1>4, <1>5 DEF Typed
<1>7. Bounded'
  BY <1>1, BoundedKept
<1>8. b \notin Bridges
  BY PipelineAssumption
<1>9. Assigned'
  BY <1>1, <1>3, <1>4, <1>8 DEF Assigned, Busy, Bot, Workers
<1> QED BY <1>6, <1>7, <1>9

\* ... so does a bridge's message.
LEMMA IncomingTypes ==
  ASSUME TypeInv, NEW x \in Bridges, HandleIncoming(x)
  PROVE  TypeInv'
<1> USE DEF TypeInv
<1> DEFINE id == BridgeBase + bridged
<1>1. /\ worker[x] = Idle /\ bridged < MaxBridged /\ bridged' = bridged + 1
      /\ faults' \in 0 .. MaxFaults /\ BotOf[x] \in Bots
      /\ UNCHANGED <<config, inbox, lastMsg, offset, mappings, sends>>
  BY IncomingIs
<1>2. PICK m \in Messages : Takes1(x, BotOf[x], id, m)
  BY IncomingIs
<1>3. PICK ack \in BOOLEAN : worker' = [worker EXCEPT ![x] = Taken(BotOf[x], id, m, ack)]
  BY <1>2 DEF Takes1
<1> DEFINE t == Taken(BotOf[x], id, m, ack)
<1>4. id \in Nat /\ BridgeBase \in Nat /\ bridged \in Nat /\ bridged' \in 0 .. MaxBridged
  BY <1>1, PipelineAssumption DEF Typed
<1>5. t \in Jobs /\ t # Idle /\ t.bot = BotOf[x] /\ t.id = id /\ t.pc = "reverse"
  BY <1>1, <1>4, TakenIsJob
<1> HIDE DEF t
<1>6. worker'[x] = t /\ \A w \in Workers \ {x} : worker'[w] = worker[w]
  BY <1>3 DEF Typed, Workers, t
<1>7. worker' \in [Workers -> {Idle} \cup Jobs]
  BY <1>3, <1>5 DEF Typed, t
<1>8. Typed'
  BY <1>1, <1>4, <1>5, <1>6, <1>7 DEF Typed
<1>9. Bounded'
  BY <1>1, BoundedKept
<1>10. x \notin Bots
  BY PipelineAssumption
<1>11. id \in BridgeBase .. BridgeBase + bridged' - 1
       /\ id \notin BridgeBase .. BridgeBase + bridged - 1
       /\ BridgeBase .. BridgeBase + bridged - 1 \subseteq BridgeBase .. BridgeBase + bridged' - 1
  BY <1>1, <1>4
<1>12. Assigned'
  <2>1. \A b \in Bots : /\ offset'[b] <= Len(inbox'[b]) + 1
                        /\ Busy(b)' => /\ Bot(b)' = b /\ worker'[b].id = offset'[b]
                                       /\ offset'[b] <= Len(inbox'[b])
    BY <1>1, <1>6, <1>10 DEF Assigned, Busy, Bot, Workers
  <2>2. \A y \in Bridges \ {x} : Busy(y)' <=> Busy(y)
    BY <1>6 DEF Busy, Workers
  <2>3. \A y \in Bridges \ {x} : Busy(y)' =>
          Bot(y)' = BotOf[y] /\ worker'[y].id \in BridgeBase .. BridgeBase + bridged - 1
    BY <1>6, <2>2 DEF Assigned, Bot, Workers
  <2>4. Bot(x)' = BotOf[x] /\ worker'[x].id = id
    BY <1>5, <1>6 DEF Bot
  <2>5. \A y \in Bridges : Busy(y)' =>
          Bot(y)' = BotOf[y] /\ worker'[y].id \in BridgeBase .. BridgeBase + bridged' - 1
    BY <1>11, <2>3, <2>4
  <2>6. \A y \in Bridges \ {x} : worker'[y].id = worker[y].id
    BY <1>6 DEF Workers
  <2> HIDE DEF id
  <2>7. \A y, z \in Bridges : (y # z /\ Busy(y)' /\ Busy(z)') => worker'[y].id # worker'[z].id
    <3>1. ASSUME NEW y \in Bridges, NEW z \in Bridges, y # z, Busy(y)', Busy(z)'
          PROVE  worker'[y].id # worker'[z].id
      <4>1. CASE y # x /\ z # x
        BY <2>2, <2>6, <3>1, <4>1 DEF Assigned
      <4>2. CASE y = x
        BY <1>11, <2>3, <2>4, <3>1, <4>2
      <4>3. CASE z = x
        BY <1>11, <2>3, <2>4, <3>1, <4>3
      <4> QED BY <4>1, <4>2, <4>3
    <3> QED BY <3>1
  <2> QED BY <2>1, <2>5, <2>7 DEF Assigned
<1> QED BY <1>8, <1>9, <1>12

\* A worker goes on with the update it has.
GoesOn(w, j) ==
  /\ j \in Jobs /\ j # Idle /\ j.bot = Bot(w) /\ j.id = worker[w].id
  /\ j.pc = "save" => j.row \in Saved
  /\ worker' = [worker EXCEPT ![w] = j]

\* A route that is skipped leaves the worker at the next thing to do.
LEMMA SkippedGoesOn ==
  ASSUME Typed, NEW w \in Workers, Busy(w), NEW route \in Nat,
         NEW then \in {"route", "llm", "confirm"}, Skip(w, route, then)
  PROVE  /\ GoesOn(w, [worker[w] EXCEPT !.pc = then, !.route = route])
         /\ sends' = sends /\ lastMsg' = lastMsg
<1> DEFINE j == [worker[w] EXCEPT !.pc = then, !.route = route]
<1>1. worker[w] \in Jobs
  BY JobFields
<1>2. j \in Jobs /\ j.bot = Bot(w) /\ j.id = worker[w].id /\ j.pc = then
  BY <1>1 DEF Jobs, Bot
<1>3. worker' = [worker EXCEPT ![w] = j] /\ sends' = sends /\ lastMsg' = lastMsg
  BY <1>1 DEF Skip, Typed, Jobs
<1>4. j # Idle
  BY <1>2 DEF Idle
<1> HIDE DEF j
<1>5. GoesOn(w, j)
  BY <1>2, <1>3, <1>4 DEF GoesOn
<1> QED BY <1>3, <1>5 DEF j

\* What a worker that has sent a message is doing.
Saving(w, s, row) == [worker[w] EXCEPT !.pc = "save", !.route = s.route, !.row = row]

\* A message that is sent leaves the worker with a row to save.
LEMMA SentGoesOn ==
  ASSUME Typed, NEW w \in Workers, Busy(w), NEW s \in Sends, NEW row \in Saved,
         worker' = [worker EXCEPT ![w] = [@ EXCEPT !.pc = "save", !.route = s.route, !.row = row]]
  PROVE  /\ GoesOn(w, Saving(w, s, row)) /\ Saving(w, s, row).pc = "save"
         /\ Saving(w, s, row).route = s.route /\ Saving(w, s, row).row = row
<1>1. worker[w] \in Jobs
  BY JobFields
<1>2. s.route \in Nat
  BY DEF Sends
<1>3. /\ Saving(w, s, row) \in Jobs /\ Saving(w, s, row).bot = Bot(w)
      /\ Saving(w, s, row).id = worker[w].id
      /\ Saving(w, s, row).pc = "save" /\ Saving(w, s, row).route = s.route
      /\ Saving(w, s, row).row = row
  BY <1>1, <1>2 DEF Jobs, Bot, Saving
<1>4. worker' = [worker EXCEPT ![w] = Saving(w, s, row)]
  BY DEF Saving, Typed
<1>5. Saving(w, s, row) # Idle
  BY <1>3 DEF Idle
<1> QED BY <1>3, <1>4, <1>5 DEF GoesOn

\* The row is saved, and the worker goes on to what comes next.
LEMMA SaveIs ==
  ASSUME Typed, NEW w \in Workers, Save(w)
  PROVE  /\ Busy(w) /\ worker[w].pc = "save" /\ worker[w].row \in Saved
         /\ \E j : /\ GoesOn(w, j) /\ j.pc = worker[w].row.then /\ j.route = worker[w].route
                   /\ j.pc \in {"route", "confirm"}
         /\ mappings' \in Seq(Mappings)
         /\ \E mp : /\ mappings' = Append(mappings, mp)
                    /\ mp.to = worker[w].row.to /\ mp.toMsg = worker[w].row.toMsg
                    /\ mp.from = worker[w].row.from
         /\ UNCHANGED <<config, inbox, lastMsg, offset, bridged, faults, sends, retried>>
<1> DEFINE row == worker[w].row
           j == [worker[w] EXCEPT !.pc = row.then, !.row = NoRow]
           mp == [from |-> row.from, fromMsg |-> row.fromMsg, to |-> row.to, toMsg |-> row.toMsg]
<1>1. Busy(w) /\ worker[w].pc = "save"
  BY AtBusy DEF Save, At
<1>2. worker[w] \in Jobs /\ row \in Saved
  BY <1>1, JobFields DEF Typed, Busy
<1>3. row.then \in {"route", "confirm"} /\ mp \in Mappings
  BY <1>2 DEF Saved, Mappings
<1>4. /\ j \in Jobs /\ j.bot = Bot(w) /\ j.id = worker[w].id /\ j.pc = row.then
      /\ j.route = worker[w].route
  BY <1>2, <1>3 DEF Jobs, Bot
<1>5. worker' = [worker EXCEPT ![w] = j]
  BY <1>2 DEF Save, Typed, Jobs
<1>6. j # Idle
  BY <1>3, <1>4 DEF Idle
<1>7. GoesOn(w, j)
  <2> HIDE DEF j
  <2> QED BY <1>3, <1>4, <1>5, <1>6 DEF GoesOn
<1>8. mappings' = Append(mappings, mp) /\ mappings' \in Seq(Mappings)
  BY <1>3 DEF Save, Typed
<1>9. UNCHANGED <<config, inbox, lastMsg, offset, bridged, faults, sends, retried>>
  BY DEF Save, telegram
<1>10. mp.to = row.to /\ mp.toMsg = row.toMsg /\ mp.from = row.from
  OBVIOUS
<1> HIDE DEF j, mp
<1> QED BY <1>1, <1>2, <1>3, <1>4, <1>7, <1>8, <1>9, <1>10

\* Who goes on keeps its update.
LEMMA GoingTypes ==
  ASSUME TypeInv, NEW w \in Workers, Busy(w), NEW j, GoesOn(w, j),
         UNCHANGED <<config, inbox, offset, bridged>>,
         lastMsg' \in [Chats -> Nat], mappings' \in Seq(Mappings), sends' \in SUBSET Sends,
         faults' \in 0 .. MaxFaults
  PROVE  TypeInv'
<1> USE DEF TypeInv
<1>1. worker'[w] = j /\ \A v \in Workers \ {w} : worker'[v] = worker[v]
  BY DEF GoesOn, Typed
<1>2. worker' \in [Workers -> {Idle} \cup Jobs]
  BY DEF GoesOn, Typed
<1>3. Typed'
  BY <1>1, <1>2 DEF GoesOn, Typed
<1>4. Bounded'
  BY BoundedKept
<1>5. \A v \in Workers : /\ Busy(v)' <=> Busy(v)
                         /\ Busy(v) => Bot(v)' = Bot(v) /\ worker'[v].id = worker[v].id
  BY <1>1 DEF GoesOn, Busy, Bot
<1>6. Assigned'
  BY <1>5 DEF Assigned, Workers
<1> QED BY <1>3, <1>4, <1>6

\* Routing keeps the types ...
LEMMA RoutingTypes ==
  ASSUME TypeInv, NEW w \in Workers, Routing(w)
  PROVE  TypeInv'
<1> USE DEF TypeInv
<1>1. /\ Busy(w) /\ (Skipped(w) \/ Sent(w))
      /\ UNCHANGED <<config, inbox, offset, mappings, bridged>>
      /\ faults' \in 0 .. MaxFaults
  BY RoutingIs
<1>2. mappings' \in Seq(Mappings)
  BY <1>1 DEF Typed
<1>3. CASE Skipped(w)
  <2>1. PICK route \in Nat, then \in {"route", "llm", "confirm"} : Skip(w, route, then)
    BY <1>3 DEF Skipped
  <2>2. /\ GoesOn(w, [worker[w] EXCEPT !.pc = then, !.route = route])
        /\ sends' = sends /\ lastMsg' = lastMsg
    BY <1>1, <2>1, SkippedGoesOn
  <2>3. lastMsg' \in [Chats -> Nat] /\ sends' \in SUBSET Sends
    BY <2>2 DEF Typed
  <2> QED BY <1>1, <1>2, <2>2, <2>3, GoingTypes
<1>4. CASE Sent(w)
  <2>1. PICK s \in Sends, row \in Saved :
          /\ lastMsg' = [lastMsg EXCEPT ![s.to] = @ + 1] /\ sends' = sends \cup {s}
          /\ worker' = [worker EXCEPT ![w] = [@ EXCEPT !.pc = "save", !.route = s.route, !.row = row]]
    BY <1>4 DEF Sent
  <2>2. s.to \in Chats
    BY DEF Sends
  <2>3. lastMsg' \in [Chats -> Nat] /\ sends' \in SUBSET Sends
    BY <2>1, <2>2 DEF Typed
  <2>4. GoesOn(w, Saving(w, s, row))
    BY <1>1, <2>1, SentGoesOn
  <2> QED BY <1>1, <1>2, <2>3, <2>4, GoingTypes
<1> QED BY <1>1, <1>3, <1>4

\* ... so does saving a mapping ...
LEMMA SaveTypes ==
  ASSUME TypeInv, NEW w \in Workers, Save(w)
  PROVE  TypeInv'
<1> USE DEF TypeInv
<1>1. /\ Busy(w) /\ \E j : GoesOn(w, j)
      /\ mappings' \in Seq(Mappings)
      /\ UNCHANGED <<config, inbox, lastMsg, offset, bridged, faults, sends>>
  BY SaveIs
<1>2. lastMsg' \in [Chats -> Nat] /\ sends' \in SUBSET Sends /\ faults' \in 0 .. MaxFaults
  BY <1>1 DEF Typed
<1> QED BY <1>1, <1>2, GoingTypes

\* An update is done: only its poll loop moves its offset, by one.
LEMMA ConfirmIs ==
  ASSUME TypeInv, NEW w \in Workers, Confirm(w)
  PROVE  /\ Busy(w) /\ worker[w].pc = "confirm" /\ worker' = [worker EXCEPT ![w] = Idle]
         /\ \/ /\ w \in Bots /\ worker[w].ack
               /\ offset' = [offset EXCEPT ![w] = @ + 1] /\ retried' = retried
            \/ w \notin Bots /\ offset' = offset /\ retried \subseteq retried'
            \/ offset' = offset /\ retried' = retried \cup {<<Bot(w), worker[w].id>>}
         /\ UNCHANGED <<config, inbox, lastMsg, mappings, bridged, faults, sends>>
<1>1. Busy(w) /\ worker[w].pc = "confirm"
  BY AtBusy DEF Confirm, At
<1>2. /\ worker' = [worker EXCEPT ![w] = Idle]
      /\ UNCHANGED <<config, inbox, lastMsg, mappings, bridged, faults, sends>>
      /\ offset' = IF worker[w].ack /\ Real(worker[w].id)
                   THEN [offset EXCEPT ![Bot(w)] = worker[w].id + 1] ELSE offset
      /\ retried' = IF worker[w].ack THEN retried ELSE retried \cup {<<Bot(w), worker[w].id>>}
  BY DEF Confirm, telegram
<1>3. CASE w \in Bots
  <2>1. Bot(w) = w /\ worker[w].id = offset[w] /\ offset[w] <= Len(inbox[w])
    BY <1>1, <1>3 DEF TypeInv, Assigned
  <2>2. Len(inbox[w]) \in Nat /\ Len(inbox[w]) < BridgeBase /\ offset[w] \in Nat
    BY <1>3, FewUpdates DEF TypeInv, Typed
  <2>3. Real(worker[w].id)
    BY <2>1, <2>2, PipelineAssumption DEF Real
  <2>4. worker[w].ack \in BOOLEAN
    BY <1>1, JobFields DEF TypeInv, Jobs
  <2>5. CASE worker[w].ack
    BY <1>1, <1>2, <1>3, <2>1, <2>3, <2>5
  <2>6. CASE ~worker[w].ack
    BY <1>1, <1>2, <2>6
  <2> QED BY <2>4, <2>5, <2>6
<1>4. CASE w \notin Bots
  <2>1. w \in Bridges
    BY <1>4 DEF Workers
  <2>2. worker[w].id \in BridgeBase .. BridgeBase + bridged - 1 /\ worker[w].id \in Nat
    BY <1>1, <2>1, JobFields DEF TypeInv, Assigned
  <2>3. ~Real(worker[w].id)
    BY <2>2, PipelineAssumption DEF Real, TypeInv, Typed
  <2> QED BY <1>1, <1>2, <1>4, <2>3
<1> QED BY <1>3, <1>4

\* ... and confirming the update.
LEMMA ConfirmTypes ==
  ASSUME TypeInv, NEW w \in Workers, Confirm(w)
  PROVE  TypeInv'
<1> USE DEF TypeInv
<1>1. /\ Busy(w) /\ worker' = [worker EXCEPT ![w] = Idle]
      /\ (w \in Bots /\ offset' = [offset EXCEPT ![w] = @ + 1]) \/ offset' = offset
      /\ UNCHANGED <<config, inbox, lastMsg, mappings, bridged, faults, sends>>
  BY ConfirmIs
<1>2. worker'[w] = Idle /\ \A v \in Workers \ {w} : worker'[v] = worker[v]
  BY <1>1 DEF Typed
<1>3. worker' \in [Workers -> {Idle} \cup Jobs] /\ offset' \in [Bots -> Nat \ {0}]
  <2>1. \A b \in Bots : offset[b] + 1 \in Nat \ {0}
    BY DEF Typed
  <2>2. offset \in [Bots -> Nat \ {0}] /\ worker \in [Workers -> {Idle} \cup Jobs]
    BY DEF Typed
  <2>3. offset' \in [Bots -> Nat \ {0}]
    BY <1>1, <2>1, <2>2
  <2>4. worker' \in [Workers -> {Idle} \cup Jobs]
    BY <1>1, <2>2
  <2> QED BY <2>3, <2>4
<1>4. Typed'
  BY <1>1, <1>2, <1>3 DEF Typed
<1>5. Bounded'
  BY <1>1, BoundedKept
<1>6. \A v \in Workers : Busy(v)' <=> v # w /\ Busy(v)
  BY <1>2 DEF Busy
<1>7. \A b \in Bots : Busy(b)' =>
        Bot(b)' = Bot(b) /\ worker'[b].id = worker[b].id /\ offset'[b] = offset[b]
  BY <1>1, <1>2, <1>6 DEF Bot, Workers, Typed
<1>8. \A b \in Bots : offset'[b] <= Len(inbox[b]) + 1
  <2>1. TAKE b \in Bots
  <2>2. offset[b] \in Nat /\ Len(inbox[b]) \in Nat
    BY FewUpdates DEF Typed
  <2>3. CASE offset' = offset
    BY <2>3 DEF Assigned
  <2>4. CASE w \in Bots /\ offset' = [offset EXCEPT ![w] = @ + 1]
    <3>1. offset[w] <= Len(inbox[w])
      BY <1>1, <2>4 DEF Assigned
    <3> QED BY <2>2, <2>4, <3>1 DEF Assigned, Typed
  <2> QED BY <1>1, <2>3, <2>4
<1>9. Assigned'
  <2>1. \A x \in Bridges : Busy(x)' => Bot(x)' = Bot(x) /\ worker'[x].id = worker[x].id
    BY <1>2, <1>6 DEF Bot, Workers
  <2> QED BY <1>1, <1>6, <1>7, <1>8, <2>1 DEF Assigned, Workers
<1> QED BY <1>4, <1>5, <1>9

\* What a stop of the process leaves.
LEMMA CrashIs ==
  ASSUME Typed, Crash
  PROVE  /\ worker' = [w \in Workers |-> Idle] /\ faults' \in 0 .. MaxFaults
         /\ retried' = retried \cup
              {<<Bot(w), worker[w].id>> : w \in {v \in Workers : worker[v] # Idle}}
         /\ UNCHANGED <<config, inbox, lastMsg, offset, mappings, bridged, sends>>
<1>1. faults' \in 0 .. MaxFaults
  <2>1. Fault
    BY Zenon DEF Crash
  <2> QED BY <2>1, PipelineAssumption DEF Fault, Typed
<1>2. worker' = [w \in Workers |-> Idle]
  BY DEF Crash
<1>3. retried' = retried \cup
        {<<Bot(w), worker[w].id>> : w \in {v \in Workers : worker[v] # Idle}}
  BY Zenon DEF Crash
<1>4. UNCHANGED <<config, inbox, lastMsg, offset, mappings, bridged, sends>>
  BY DEF Crash, telegram
<1> QED BY <1>1, <1>2, <1>3, <1>4

\* A stop keeps the types.
LEMMA CrashTypes ==
  ASSUME TypeInv, Crash
  PROVE  TypeInv'
<1> USE DEF TypeInv
<1>1. /\ worker' = [w \in Workers |-> Idle] /\ faults' \in 0 .. MaxFaults
      /\ UNCHANGED <<config, inbox, lastMsg, offset, mappings, bridged, sends>>
  BY CrashIs
<1>2. Typed'
  BY <1>1 DEF Typed
<1>3. Bounded'
  BY <1>1, BoundedKept
<1>4. \A w \in Workers : ~Busy(w)'
  BY <1>1 DEF Busy
<1>5. Assigned'
  BY <1>1, <1>4 DEF Assigned, Workers
<1> QED BY <1>2, <1>3, <1>5

\* Every step keeps the types.
LEMMA TypeNext == TypeInv /\ [Next]_vars => TypeInv'
<1> SUFFICES ASSUME TypeInv, [Next]_vars
             PROVE  TypeInv'
  OBVIOUS
<1>1. \/ Aside \/ Crash
      \/ \E c \in Chats : Say(c)
      \/ \E b \in Bots : Poll(b)
      \/ \E x \in Bridges : HandleIncoming(x)
      \/ \E w \in Workers : Routing(w) \/ Save(w) \/ Confirm(w)
  BY Steps DEF TypeInv
<1> QED BY <1>1, AsideTypes, CrashTypes, SayTypes, PollTypes, IncomingTypes, RoutingTypes,
           SaveTypes, ConfirmTypes

------------------------------------------------------------------------------
(* Once unless retried *)

\* Two workers never have the same update.
LEMMA OwnUpdates ==
  ASSUME TypeInv, NEW v \in Workers, NEW w \in Workers, v # w, Busy(v), Busy(w)
  PROVE  <<Bot(v), worker[v].id>> # <<Bot(w), worker[w].id>>
<1> USE DEF TypeInv
<1>1. ASSUME NEW b \in Bots, Busy(b)
      PROVE  Bot(b) = b /\ Real(worker[b].id)
  <2>1. Bot(b) = b /\ worker[b].id = offset[b] /\ offset[b] <= Len(inbox[b])
    BY <1>1 DEF Assigned
  <2>2. Len(inbox[b]) \in Nat /\ Len(inbox[b]) < BridgeBase /\ offset[b] \in Nat
    BY FewUpdates DEF Typed
  <2> QED BY <2>1, <2>2, PipelineAssumption DEF Real
<1>2. ASSUME NEW x \in Bridges, Busy(x)
      PROVE  ~Real(worker[x].id)
  <2>1. worker[x].id \in BridgeBase .. BridgeBase + bridged - 1
    BY <1>2 DEF Assigned
  <2> QED BY <2>1, PipelineAssumption DEF Real, Typed
<1>3. CASE v \in Bots /\ w \in Bots
  BY <1>1, <1>3
<1>4. CASE v \in Bridges /\ w \in Bridges
  BY <1>4 DEF Assigned
<1>5. CASE v \in Bots /\ w \in Bridges
  BY <1>1, <1>2, <1>5
<1>6. CASE v \in Bridges /\ w \in Bots
  BY <1>1, <1>2, <1>6
<1> QED BY <1>3, <1>4, <1>5, <1>6 DEF Workers

\* What a worker is about to do comes after what it has done.
LEMMA BeforeKept ==
  ASSUME NEW w \in Workers, Typed, Busy(w), NEW j, GoesOn(w, j),
         NEW kind, NEW route \in Nat, NEW then \in {"route", "llm", "confirm"},
         Follows(w, kind, route, then),
         j.route = route,
         j.pc = then \/ (j.pc = "save" /\ j.row.then = then),
         NEW s \in Sends, Before(w, s)
  PROVE  Before(w, s)'
<1>1. worker'[w] = j
  BY DEF GoesOn, Typed
<1>2. Stage(w) = worker[w].pc /\ Stage(w)' = then /\ worker'[w].route = route
  BY <1>1 DEF Stage, Follows
<1>3. s.kind \in {"answer", "route", "llm"} /\ s.route \in Nat /\ worker[w].route \in Nat
  BY JobFields DEF Sends
<1>4. CASE s.kind = "answer"
  BY <1>2, <1>4 DEF Before, Follows
<1>5. CASE s.kind = "route"
  BY <1>2, <1>3, <1>5 DEF Before, Follows
<1>6. CASE s.kind = "llm"
  BY <1>2, <1>6 DEF Before, Follows
<1> QED BY <1>3, <1>4, <1>5, <1>6

\* Who does nothing is where it was.
LEMMA BeforeSame ==
  ASSUME NEW v, NEW s, worker'[v] = worker[v]
  PROVE  Before(v, s)' <=> Before(v, s)
<1>1. Stage(v)' = Stage(v)
  BY DEF Stage
<1> QED BY <1>1 DEF Before

\* Nothing is sent at first.
LEMMA TracedInit == Init => Traced /\ OnceUnlessRetried
BY DEF Init, Traced, OnceUnlessRetried, Busy, Workers

\* Nothing is sent and every worker keeps its update and its stage.
LEMMA SameTraced ==
  ASSUME TypeInv, Traced, OnceUnlessRetried,
         UNCHANGED <<offset, worker, bridged, sends>>, retried \subseteq retried'
  PROVE  Traced' /\ OnceUnlessRetried'
<1>1. Traced'
  <2>1. \A v \in Workers, s \in Sends : Before(v, s)' <=> Before(v, s)
    BY BeforeSame
  <2>2. \A v \in Workers : (Busy(v)' <=> Busy(v)) /\ Bot(v)' = Bot(v)
    BY DEF Busy, Bot
  <2>3. sends \subseteq Sends /\ \A s \in Sends : s.bot \in Workers
    BY DEF TypeInv, Typed, Sends, Workers
  <2>4. ASSUME NEW s \in sends
        PROVE  \/ /\ Real(s.update) /\ s.update <= offset[s.bot]
                  /\ s.update = offset[s.bot] => Busy(s.bot)' \/ Key(s) \in retried'
               \/ ~Real(s.update) /\ s.update < BridgeBase + bridged
    BY <2>2, <2>3 DEF Traced
  <2>5. ASSUME NEW v \in Workers, Busy(v)', NEW s \in sends,
               Key(s) = <<Bot(v)', worker[v].id>>, Key(s) \notin retried'
        PROVE  Before(v, s)'
    <3>1. Before(v, s)
      BY <2>2, <2>5 DEF Traced
    <3> QED BY <2>1, <2>3, <3>1
  <2> QED BY <2>4, <2>5 DEF Traced, Key
<1>2. OnceUnlessRetried'
  BY DEF OnceUnlessRetried
<1> QED BY <1>1, <1>2

\* A worker goes on without having sent anything.
LEMMA GoingTraced ==
  ASSUME TypeInv, Traced, OnceUnlessRetried, NEW w \in Workers, Busy(w), NEW j, GoesOn(w, j),
         \A s \in Sends : Before(w, s) => Before(w, s)',
         UNCHANGED <<offset, bridged, sends, retried>>
  PROVE  Traced' /\ OnceUnlessRetried'
<1>1. worker'[w] = j /\ \A v \in Workers \ {w} : worker'[v] = worker[v]
  BY DEF GoesOn, TypeInv, Typed
<1>2. \A v \in Workers : /\ Busy(v)' <=> Busy(v)
                         /\ Busy(v) => Bot(v)' = Bot(v) /\ worker'[v].id = worker[v].id
  BY <1>1 DEF GoesOn, Busy, Bot
<1>3. \A v \in Workers, s \in Sends : Before(v, s) => Before(v, s)'
  BY <1>1, BeforeSame
<1>4. sends \subseteq Sends
  BY DEF TypeInv, Typed
<1>5. ASSUME NEW s \in sends
      PROVE  \/ /\ Real(s.update) /\ s.update <= offset[s.bot]
                /\ s.update = offset[s.bot] => Busy(s.bot)' \/ Key(s) \in retried
             \/ ~Real(s.update) /\ s.update < BridgeBase + bridged
  <2>1. s.bot \in Workers
    BY <1>4 DEF Sends, Workers
  <2> QED BY <1>2, <2>1 DEF Traced
<1>6. ASSUME NEW v \in Workers, Busy(v)', NEW s \in sends,
             Key(s) = <<Bot(v)', worker'[v].id>>, Key(s) \notin retried
      PROVE  Before(v, s)'
  <2>1. Busy(v) /\ Key(s) = <<Bot(v), worker[v].id>>
    BY <1>2, <1>6
  <2>2. Before(v, s)
    BY <1>6, <2>1 DEF Traced
  <2> QED BY <1>3, <1>4, <2>2
<1>7. Traced'
  BY <1>5, <1>6 DEF Traced, Key
<1>8. OnceUnlessRetried'
  BY DEF OnceUnlessRetried
<1> QED BY <1>7, <1>8

\* A route that is skipped sends nothing.
LEMMA SkippedTraced ==
  ASSUME TypeInv, Traced, OnceUnlessRetried, NEW w \in Workers, Busy(w), Skipped(w),
         UNCHANGED <<offset, bridged, retried>>
  PROVE  Traced' /\ OnceUnlessRetried'
<1>1. PICK kind \in {"answer", "route", "llm", "none"}, route \in Nat,
           then \in {"route", "llm", "confirm"} :
        Skip(w, route, then) /\ Follows(w, kind, route, then)
  BY DEF Skipped
<1> DEFINE j == [worker[w] EXCEPT !.pc = then, !.route = route]
<1>2. GoesOn(w, j) /\ sends' = sends
  BY <1>1, SkippedGoesOn DEF TypeInv
<1>3. j.route = route /\ j.pc = then
  BY JobFields DEF Jobs, TypeInv
<1> HIDE DEF j
<1>4. \A s \in Sends : Before(w, s) => Before(w, s)'
  BY <1>1, <1>2, <1>3, BeforeKept DEF TypeInv
<1> QED BY <1>2, <1>4, GoingTraced

\* A mapping that is saved tells of nothing new.
LEMMA SaveTraced ==
  ASSUME TypeInv, Traced, OnceUnlessRetried, NEW w \in Workers, Save(w)
  PROVE  Traced' /\ OnceUnlessRetried'
<1>1. /\ Busy(w) /\ worker[w].pc = "save"
      /\ UNCHANGED <<offset, bridged, sends, retried>>
  BY SaveIs DEF TypeInv
<1>2. PICK j : GoesOn(w, j) /\ j.pc = worker[w].row.then /\ j.route = worker[w].route
               /\ j.pc \in {"route", "confirm"}
  BY SaveIs DEF TypeInv
<1>3. worker'[w] = j
  BY <1>2 DEF GoesOn, TypeInv, Typed
<1>4. Stage(w)' = Stage(w) /\ worker'[w].route = worker[w].route
  BY <1>1, <1>2, <1>3 DEF Stage
<1>5. \A s \in Sends : Before(w, s) => Before(w, s)'
  BY <1>4 DEF Before
<1> QED BY <1>1, <1>2, <1>5, GoingTraced

\* A message is sent once: what was sent of the same kind came before.
LEMMA SentTraced ==
  ASSUME TypeInv, Traced, OnceUnlessRetried, NEW w \in Workers, Busy(w), Sent(w),
         UNCHANGED <<offset, bridged, retried>>
  PROVE  Traced' /\ OnceUnlessRetried'
<1> USE DEF TypeInv
<1>1. PICK n \in Sends, row \in Saved :
        /\ Key(n) = <<Bot(w), worker[w].id>> /\ sends' = sends \cup {n}
        /\ worker' = [worker EXCEPT ![w] = [@ EXCEPT !.pc = "save", !.route = n.route, !.row = row]]
        /\ Follows(w, n.kind, n.route, row.then)
  BY DEF Sent
<1> DEFINE j == Saving(w, n, row)
<1>2. GoesOn(w, j) /\ j.pc = "save" /\ j.route = n.route /\ j.row = row
  BY <1>1, SentGoesOn
<1> HIDE DEF j
<1>3. row.then \in {"route", "llm", "confirm"} /\ n.route \in Nat
      /\ n.kind \in {"answer", "route", "llm"} /\ n.bot \in Bots
  BY DEF Saved, Sends
<1>4. worker'[w] = j /\ \A v \in Workers \ {w} : worker'[v] = worker[v]
  BY <1>2 DEF GoesOn, Typed
<1>5. \A v \in Workers : /\ Busy(v)' <=> Busy(v)
                         /\ Busy(v) => Bot(v)' = Bot(v) /\ worker'[v].id = worker[v].id
  BY <1>2, <1>4 DEF GoesOn, Busy, Bot
<1>6. \A s \in Sends : Before(w, s) => Before(w, s)'
  BY <1>1, <1>2, <1>3, BeforeKept
<1>7. \A v \in Workers, s \in Sends : Before(v, s) => Before(v, s)'
  BY <1>4, <1>6, BeforeSame
<1>8. Before(w, n)' /\ \A s \in Sends :
        (s.kind = n.kind /\ s.route = n.route) => ~Before(w, s)
  <2>1. worker[w].route \in Nat
    BY JobFields
  <2>s. worker'[w].pc = "save" /\ worker'[w].row = row /\ worker'[w].route = n.route
        /\ worker[w].pc # "save"
    BY <1>1, <1>2, <1>4 DEF Follows
  <2>2. Stage(w)' = row.then /\ worker'[w].route = n.route /\ Stage(w) = worker[w].pc
    BY <2>s DEF Stage
  <2>3. Before(w, n)'
    <3>1. CASE n.kind = "answer"
      BY <1>1, <2>2, <3>1 DEF Before, Follows
    <3>2. CASE n.kind = "route"
      BY <1>1, <1>3, <2>2, <3>2 DEF Before, Follows
    <3>3. CASE n.kind = "llm"
      BY <1>1, <2>2, <3>3 DEF Before, Follows
    <3> QED BY <1>3, <3>1, <3>2, <3>3
  <2>4. ASSUME NEW s \in Sends, s.kind = n.kind, s.route = n.route
        PROVE  ~Before(w, s)
    <3>1. s.kind \in {"answer", "route", "llm"}
      BY DEF Sends
    <3>2. CASE s.kind = "answer"
      BY <1>1, <2>2, <2>4, <3>2 DEF Before, Follows
    <3>3. CASE s.kind = "route"
      BY <1>1, <1>3, <2>1, <2>2, <2>4, <3>3 DEF Before, Follows
    <3>4. CASE s.kind = "llm"
      BY <1>1, <2>2, <2>4, <3>4 DEF Before, Follows
    <3> QED BY <3>1, <3>2, <3>3, <3>4
  <2> QED BY <2>3, <2>4
<1>9. sends \subseteq Sends
  BY DEF Typed
<1>10. ASSUME NEW s \in sends'
       PROVE  \/ /\ Real(s.update) /\ s.update <= offset[s.bot]
                 /\ s.update = offset[s.bot] => Busy(s.bot)' \/ Key(s) \in retried
              \/ ~Real(s.update) /\ s.update < BridgeBase + bridged
  <2>1. CASE s \in sends
    <3>1. s.bot \in Workers
      BY <1>9, <2>1 DEF Sends, Workers
    <3> QED BY <1>5, <2>1, <3>1 DEF Traced
  <2>2. CASE s = n
    <3>1. s.bot = Bot(w) /\ s.update = worker[w].id
      BY <1>1, <2>2 DEF Key
    <3>2. CASE w \in Bots
      <4>1. Bot(w) = w /\ worker[w].id = offset[w] /\ offset[w] <= Len(inbox[w])
        BY <3>2 DEF Assigned
      <4>2. Len(inbox[w]) \in Nat /\ Len(inbox[w]) < BridgeBase /\ offset[w] \in Nat
        BY <3>2, FewUpdates DEF Typed
      <4> QED BY <1>5, <3>1, <4>1, <4>2, PipelineAssumption DEF Real
    <3>3. CASE w \in Bridges
      <4>1. worker[w].id \in BridgeBase .. BridgeBase + bridged - 1
        BY <3>3 DEF Assigned
      <4>2. worker[w].id \in Nat
        BY JobFields
      <4> QED BY <3>1, <4>1, <4>2, PipelineAssumption DEF Real, Typed
    <3> QED BY <3>2, <3>3 DEF Workers
  <2> QED BY <1>1, <2>1, <2>2
<1>11. ASSUME NEW v \in Workers, Busy(v)', NEW s \in sends',
              Key(s) = <<Bot(v)', worker'[v].id>>, Key(s) \notin retried
       PROVE  Before(v, s)'
  <2>1. Busy(v) /\ Key(s) = <<Bot(v), worker[v].id>>
    BY <1>5, <1>11
  <2>2. CASE s \in sends
    <3>1. Before(v, s)
      BY <1>11, <2>1, <2>2 DEF Traced
    <3> QED BY <1>7, <1>9, <2>2, <3>1
  <2>3. CASE s = n
    <3>1. v = w
      BY <1>1, <2>1, <2>3, OwnUpdates
    <3> QED BY <1>8, <2>3, <3>1
  <2> QED BY <1>1, <2>2, <2>3
<1>12. Traced'
  BY <1>10, <1>11 DEF Traced, Key
<1>13. ASSUME NEW t \in sends, Key(t) = Key(n), <<t.kind, t.route>> = <<n.kind, n.route>>
       PROVE  Key(n) \in retried
  <2>1. ~Before(w, t)
    BY <1>8, <1>9, <1>13
  <2> QED BY <1>1, <1>13, <2>1 DEF Traced
<1>14. OnceUnlessRetried'
  <2>1. ASSUME NEW s \in sends', NEW t \in sends', s # t, Key(s) = Key(t),
               <<s.kind, s.route>> = <<t.kind, t.route>>
        PROVE  Key(s) \in retried
    <3>1. CASE s \in sends /\ t \in sends
      BY <2>1, <3>1 DEF OnceUnlessRetried, Key
    <3>2. CASE s = n /\ t \in sends
      BY <1>13, <2>1, <3>2
    <3>3. CASE t = n /\ s \in sends
      BY <1>13, <2>1, <3>3
    <3> QED BY <1>1, <2>1, <3>1, <3>2, <3>3
  <2> QED BY <2>1 DEF OnceUnlessRetried, Key
<1> QED BY <1>12, <1>14

\* A worker that takes an update has nothing sent of it that was not given up.
LEMMA TakenTraced ==
  ASSUME TypeInv, Traced, OnceUnlessRetried, NEW w \in Workers, worker[w] = Idle,
         NEW b \in Bots, NEW id \in Nat, NEW m \in Messages, Takes1(w, b, id, m),
         UNCHANGED <<offset, sends, retried>>, bridged' \in Nat, bridged <= bridged',
         \A s \in sends : Key(s) = <<b, id>> => Key(s) \in retried
  PROVE  Traced' /\ OnceUnlessRetried'
<1> USE DEF TypeInv
<1>1. PICK ack \in BOOLEAN : worker' = [worker EXCEPT ![w] = Taken(b, id, m, ack)]
  BY DEF Takes1
<1>2. /\ Taken(b, id, m, ack).bot = b /\ Taken(b, id, m, ack).id = id
      /\ Taken(b, id, m, ack) # Idle
  BY TakenIsJob
<1>3. worker'[w] = Taken(b, id, m, ack) /\ \A v \in Workers \ {w} : worker'[v] = worker[v]
  BY <1>1 DEF Typed
<1>4. \A v \in Workers \ {w} :
        /\ Busy(v)' <=> Busy(v)
        /\ Bot(v)' = Bot(v) /\ worker'[v].id = worker[v].id
        /\ \A s \in Sends : Before(v, s)' <=> Before(v, s)
  BY <1>3 DEF Busy, Bot, Before, Stage
<1>5. Busy(w)' /\ Bot(w)' = b /\ worker'[w].id = id
  BY <1>2, <1>3 DEF Busy, Bot
<1>6. sends \subseteq Sends
  BY DEF Typed
<1>7. ASSUME NEW s \in sends
      PROVE  \/ /\ Real(s.update) /\ s.update <= offset[s.bot]
                /\ s.update = offset[s.bot] => Busy(s.bot)' \/ Key(s) \in retried
             \/ ~Real(s.update) /\ s.update < BridgeBase + bridged'
  <2>1. s.bot \in Workers /\ s.update \in Nat
    BY <1>6 DEF Sends, Workers
  <2>2. Busy(s.bot) => Busy(s.bot)'
    <3>1. CASE s.bot = w
      BY <1>5, <3>1
    <3>2. CASE s.bot # w
      BY <1>3, <2>1, <3>2 DEF Busy
    <3> QED BY <3>1, <3>2
  <2>3. \A i \in Nat : i < BridgeBase + bridged => i < BridgeBase + bridged'
    <3>1. BridgeBase \in Nat /\ MaxBridged \in Nat
      BY PipelineAssumption
    <3>2. bridged \in Nat
      BY <3>1 DEF Typed
    <3>3. \A i, n, k, l \in Nat : (k <= l /\ i < n + k) => i < n + l
      OBVIOUS
    <3> QED BY <3>1, <3>2, <3>3
  <2>4. \/ /\ Real(s.update) /\ s.update <= offset[s.bot]
           /\ s.update = offset[s.bot] => Busy(s.bot) \/ Key(s) \in retried
        \/ ~Real(s.update) /\ s.update < BridgeBase + bridged
    BY DEF Traced
  <2>5. s.update < BridgeBase + bridged => s.update < BridgeBase + bridged'
    BY <2>1, <2>3
  <2> QED BY <2>2, <2>4, <2>5
<1>8. ASSUME NEW v \in Workers, Busy(v)', NEW s \in sends,
             Key(s) = <<Bot(v)', worker'[v].id>>, Key(s) \notin retried
      PROVE  Before(v, s)'
  <2>1. v # w
    BY <1>5, <1>8
  <2>2. Before(v, s)
    BY <1>4, <1>8, <2>1 DEF Traced
  <2> QED BY <1>4, <1>6, <2>1, <2>2
<1>9. Traced'
  BY <1>7, <1>8 DEF Traced, Key
<1>10. OnceUnlessRetried'
  BY DEF OnceUnlessRetried
<1> QED BY <1>9, <1>10

\* An update that is polled has not been processed, or is retried.
LEMMA PollTraced ==
  ASSUME TypeInv, Traced, OnceUnlessRetried, NEW b \in Bots, Poll(b)
  PROVE  Traced' /\ OnceUnlessRetried'
<1>1. /\ worker[b] = Idle /\ Takes1(b, b, offset[b], inbox[b][offset[b]])
      /\ inbox[b][offset[b]] \in Messages /\ offset[b] \in Nat /\ Real(offset[b])
      /\ UNCHANGED <<offset, bridged, sends, retried>>
  BY PollIs
<1>2. \A s \in sends : Key(s) = <<b, offset[b]>> => Key(s) \in retried
  BY <1>1 DEF Traced, Key, Busy
<1>3. bridged' \in Nat /\ bridged <= bridged' /\ b \in Workers
  BY <1>1, PipelineAssumption DEF TypeInv, Typed, Workers
<1> QED BY <1>1, <1>2, <1>3, TakenTraced

\* A bridge's message comes once.
LEMMA IncomingTraced ==
  ASSUME TypeInv, Traced, OnceUnlessRetried, NEW x \in Bridges, HandleIncoming(x)
  PROVE  Traced' /\ OnceUnlessRetried'
<1> DEFINE id == BridgeBase + bridged
<1>1. /\ worker[x] = Idle /\ bridged' = bridged + 1 /\ BotOf[x] \in Bots
      /\ UNCHANGED <<offset, sends, retried>>
  BY IncomingIs
<1>2. PICK m \in Messages : Takes1(x, BotOf[x], id, m)
  BY IncomingIs
<1>3. id \in Nat /\ BridgeBase \in Nat /\ bridged \in Nat
  BY PipelineAssumption DEF TypeInv, Typed
<1>4. \A s \in sends : Key(s) # <<BotOf[x], id>>
  <2>1. \A s \in sends : s.update # id
    BY <1>3 DEF Traced, Real
  <2> QED BY <2>1 DEF Key
<1>5. bridged' \in Nat /\ bridged <= bridged' /\ x \in Workers
  BY <1>1, <1>3 DEF Workers
<1> HIDE DEF id
<1> QED BY <1>1, <1>2, <1>3, <1>4, <1>5, TakenTraced

\* A confirmed update is passed by the offset, or will be retried.
LEMMA ConfirmTraced ==
  ASSUME TypeInv, Traced, OnceUnlessRetried, NEW w \in Workers, Confirm(w)
  PROVE  Traced' /\ OnceUnlessRetried'
<1> USE DEF TypeInv
<1>1. /\ Busy(w) /\ worker' = [worker EXCEPT ![w] = Idle]
      /\ \/ w \in Bots /\ offset' = [offset EXCEPT ![w] = @ + 1] /\ retried' = retried
         \/ w \notin Bots /\ offset' = offset /\ retried \subseteq retried'
         \/ offset' = offset /\ retried' = retried \cup {<<Bot(w), worker[w].id>>}
      /\ UNCHANGED <<bridged, sends>>
  BY ConfirmIs
<1>2. worker'[w] = Idle /\ \A v \in Workers \ {w} : worker'[v] = worker[v]
  BY <1>1 DEF Typed
<1>3. \A v \in Workers : Busy(v)' <=> v # w /\ Busy(v)
  BY <1>2 DEF Busy
<1>4. retried \subseteq retried'
  BY <1>1
<1>5. sends \subseteq Sends
  BY DEF Typed
<1>6. ASSUME NEW s \in sends
      PROVE  \/ /\ Real(s.update) /\ s.update <= offset'[s.bot]
                /\ s.update = offset'[s.bot] => Busy(s.bot)' \/ Key(s) \in retried'
             \/ ~Real(s.update) /\ s.update < BridgeBase + bridged
  <2>1. s.bot \in Bots /\ s.bot \in Workers /\ s.update \in Nat
    BY <1>5 DEF Sends, Workers
  <2>2. offset[s.bot] \in Nat
    BY <2>1 DEF Typed
  <2>3. CASE s.bot # w
    <3>1. offset'[s.bot] = offset[s.bot]
      BY <1>1, <2>1, <2>3 DEF Typed
    <3> QED BY <1>3, <1>4, <2>1, <2>3, <3>1 DEF Traced
  <2>4. CASE s.bot = w
    <3>1. Bot(w) = w /\ worker[w].id = offset[w]
      BY <1>1, <2>1, <2>4 DEF Assigned
    <3>2. CASE offset' = [offset EXCEPT ![w] = @ + 1]
      <4>1. offset'[w] = offset[w] + 1
        BY <2>1, <2>4, <3>2 DEF Typed
      <4> QED BY <2>1, <2>2, <2>4, <4>1 DEF Traced
    <3>3. CASE offset' = offset /\ retried' = retried \cup {<<Bot(w), worker[w].id>>}
      BY <2>1, <2>4, <3>1, <3>3 DEF Traced, Key
    <3> QED BY <1>1, <2>1, <2>4, <3>2, <3>3
  <2> QED BY <2>3, <2>4
<1>7. ASSUME NEW v \in Workers, Busy(v)', NEW s \in sends,
             Key(s) = <<Bot(v)', worker'[v].id>>, Key(s) \notin retried'
      PROVE  Before(v, s)'
  <2>1. v # w /\ Busy(v) /\ worker'[v] = worker[v]
    BY <1>2, <1>3, <1>7
  <2>2. Before(v, s)
    BY <1>4, <1>7, <2>1 DEF Traced, Bot
  <2> QED BY <2>1, <2>2 DEF Before, Stage
<1>8. Traced'
  BY <1>1, <1>6, <1>7 DEF Traced, Key
<1>9. OnceUnlessRetried'
  BY <1>1, <1>4 DEF OnceUnlessRetried
<1> QED BY <1>8, <1>9

\* What a stop interrupts is retried.
LEMMA CrashTraced ==
  ASSUME TypeInv, Traced, OnceUnlessRetried, Crash
  PROVE  Traced' /\ OnceUnlessRetried'
<1> USE DEF TypeInv
<1>1. /\ worker' = [w \in Workers |-> Idle]
      /\ retried' = retried \cup
           {<<Bot(w), worker[w].id>> : w \in {v \in Workers : worker[v] # Idle}}
      /\ UNCHANGED <<offset, bridged, sends>>
  BY CrashIs
<1>2. \A w \in Workers : ~Busy(w)'
  BY <1>1 DEF Busy
<1>3. \A w \in Workers : Busy(w) => <<Bot(w), worker[w].id>> \in retried'
  BY <1>1 DEF Busy
<1>4. retried \subseteq retried'
  BY <1>1
<1>5. ASSUME NEW s \in sends
      PROVE  \/ /\ Real(s.update) /\ s.update <= offset[s.bot]
                /\ s.update = offset[s.bot] => Key(s) \in retried'
             \/ ~Real(s.update) /\ s.update < BridgeBase + bridged
  <2>1. s.bot \in Bots /\ s.bot \in Workers
    BY DEF Typed, Sends, Workers
  <2>2. Busy(s.bot) => <<s.bot, offset[s.bot]>> \in retried'
    BY <1>3, <2>1 DEF Assigned
  <2> QED BY <1>4, <2>2 DEF Traced, Key
<1>6. Traced'
  BY <1>1, <1>2, <1>5 DEF Traced, Key
<1>7. OnceUnlessRetried'
  BY <1>1, <1>4 DEF OnceUnlessRetried
<1> QED BY <1>6, <1>7

\* Every step keeps what was sent traceable to one processing.
LEMMA TracedNext ==
  TypeInv /\ Traced /\ OnceUnlessRetried /\ [Next]_vars => Traced' /\ OnceUnlessRetried'
<1> SUFFICES ASSUME TypeInv, Traced, OnceUnlessRetried, [Next]_vars
             PROVE  Traced' /\ OnceUnlessRetried'
  OBVIOUS
<1>1. \/ Aside \/ Crash
      \/ \E c \in Chats : Say(c)
      \/ \E b \in Bots : Poll(b)
      \/ \E x \in Bridges : HandleIncoming(x)
      \/ \E w \in Workers : Routing(w) \/ Save(w) \/ Confirm(w)
  BY Steps DEF TypeInv
<1>2. CASE Aside
  BY <1>2, SameTraced DEF Aside
<1>3. CASE \E c \in Chats : Say(c)
  BY <1>3, SameTraced DEF Say
<1>4. CASE \E w \in Workers : Routing(w)
  <2>1. PICK w \in Workers : Routing(w)
    BY <1>4
  <2>2. Busy(w) /\ (Skipped(w) \/ Sent(w)) /\ UNCHANGED <<offset, bridged, retried>>
    BY <2>1, RoutingIs DEF TypeInv
  <2> QED BY <2>2, SkippedTraced, SentTraced
<1> QED BY <1>1, <1>2, <1>3, <1>4, CrashTraced, PollTraced, IncomingTraced, SaveTraced,
           ConfirmTraced

------------------------------------------------------------------------------
(* Replies return *)

\* What backs a row stays, and is the same for a row that names the same messages.
LEMMA BackingStays ==
  ASSUME NEW ss, NEW row, NEW tt, NEW copy, Backing(ss, row), ss \subseteq tt,
         copy.to = row.to, copy.toMsg = row.toMsg, copy.from = row.from
  PROVE  Backing(tt, copy)
BY DEF Backing

\* There are no mappings at first.
LEMMA BackedInit == Init => Backed /\ RepliesReturn
BY DEF Init, Backed, RepliesReturn, Busy, Workers

\* Nothing is sent and no row is saved or to be saved.
LEMMA SameBacked ==
  ASSUME Backed, RepliesReturn, UNCHANGED <<mappings, sends>>,
         \A w \in Workers : (Busy(w)' /\ worker'[w].pc = "save") =>
           Busy(w) /\ worker[w].pc = "save" /\ worker'[w].row = worker[w].row
  PROVE  Backed' /\ RepliesReturn'
<1>1. \A row : Backing(sends', row) <=> Backing(sends, row)
  BY DEF Backing
<1>2. Backed'
  BY <1>1 DEF Backed
<1>3. RepliesReturn'
  BY DEF RepliesReturn
<1> QED BY <1>2, <1>3

\* What is in a sequence with one more element was in it, or is that element.
LEMMA AppendedAt ==
  ASSUME NEW S, NEW seq \in Seq(S), NEW x, NEW i \in DOMAIN Append(seq, x)
  PROVE  \/ i \in DOMAIN seq /\ Append(seq, x)[i] = seq[i]
         \/ Append(seq, x)[i] = x
<1>1. Len(seq) \in Nat /\ DOMAIN seq = 1 .. Len(seq)
  OBVIOUS
<1>2. DOMAIN Append(seq, x) = 1 .. Len(seq) + 1
  BY <1>1
<1>3. CASE i = Len(seq) + 1
  BY <1>1, <1>3
<1>4. CASE i \in 1 .. Len(seq)
  BY <1>1, <1>4
<1> QED BY <1>1, <1>2, <1>3, <1>4

\* A mapping is saved for a message that was sent.
LEMMA SaveBacked ==
  ASSUME TypeInv, Backed, RepliesReturn, NEW w \in Workers, Save(w)
  PROVE  Backed' /\ RepliesReturn'
<1>1. Busy(w) /\ worker[w].pc = "save" /\ UNCHANGED sends
  BY SaveIs DEF TypeInv
<1>2. PICK j : GoesOn(w, j) /\ j.pc \in {"route", "confirm"}
  BY SaveIs DEF TypeInv
<1>3. PICK mp : /\ mappings' = Append(mappings, mp)
                /\ mp.to = worker[w].row.to /\ mp.toMsg = worker[w].row.toMsg
                /\ mp.from = worker[w].row.from
  BY SaveIs DEF TypeInv
<1>4. worker'[w] = j /\ \A v \in Workers \ {w} : worker'[v] = worker[v]
  BY <1>2 DEF GoesOn, TypeInv, Typed
<1>5. Backing(sends, worker[w].row)
  BY <1>1 DEF Backed
<1>6. Backing(sends', mp)
  BY <1>1, <1>3, <1>5, BackingStays
<1>7. \A row : Backing(sends', row) <=> Backing(sends, row)
  BY <1>1 DEF Backing
<1>8. mappings \in Seq(Mappings)
  BY DEF TypeInv, Typed
<1>9. \A i \in DOMAIN mappings' : \/ i \in DOMAIN mappings /\ mappings'[i] = mappings[i]
                                  \/ mappings'[i] = mp
  BY <1>3, <1>8, AppendedAt
<1>10. \A i \in DOMAIN mappings' : Backing(sends', mappings'[i])
  BY <1>6, <1>7, <1>9 DEF Backed
<1>11. \A v \in Workers : (Busy(v)' /\ worker'[v].pc = "save") => Backing(sends', worker'[v].row)
  BY <1>2, <1>4, <1>7 DEF Backed, Busy
<1>12. Backed'
  BY <1>7, <1>10, <1>11 DEF Backed, Backing
<1>13. RepliesReturn'
  BY <1>1 DEF RepliesReturn
<1> QED BY <1>12, <1>13

\* A message that is sent leaves its worker with the row of its mapping.
LEMMA SentBacked ==
  ASSUME TypeInv, Backed, RepliesReturn, NEW w \in Workers, Busy(w), Sent(w), UNCHANGED mappings
  PROVE  Backed' /\ RepliesReturn'
<1>1. PICK s \in Sends, row \in Saved :
        /\ sends' = sends \cup {s}
        /\ worker' = [worker EXCEPT ![w] = [@ EXCEPT !.pc = "save", !.route = s.route, !.row = row]]
        /\ s.kind # "answer" =>
             s.to = row.to[2] /\ s.msg = row.toMsg /\ s.from[1] = row.from[2]
        /\ s.kind = "answer" =>
             /\ s.from = <<row.to[2], row.toMsg>> /\ s.to = row.from[2]
             /\ s.answers # 0 => \E i \in DOMAIN mappings :
                  /\ mappings[i].to[2] = s.from[1] /\ mappings[i].toMsg = s.answers
                  /\ mappings[i].from[2] = s.to
  BY DEF Sent
<1>2. GoesOn(w, Saving(w, s, row)) /\ Saving(w, s, row).row = row
  BY <1>1, SentGoesOn DEF TypeInv
<1>3. worker'[w].row = row /\ \A v \in Workers \ {w} : worker'[v] = worker[v]
  BY <1>2 DEF GoesOn, TypeInv, Typed
<1>4. s \in sends' /\ sends \subseteq sends'
  BY <1>1
<1>5. Backing(sends', row)
  BY <1>1, <1>4 DEF Backing
<1>6. \A x : Backing(sends, x) => Backing(sends', x)
  BY <1>4, BackingStays
<1>7. Backed'
  <2>1. \A i \in DOMAIN mappings : Backing(sends', mappings[i])
    BY <1>6 DEF Backed
  <2>2. \A v \in Workers : (Busy(v)' /\ worker'[v].pc = "save") => Backing(sends', worker'[v].row)
    BY <1>3, <1>5, <1>6 DEF Backed, Busy
  <2> QED BY <2>1, <2>2 DEF Backed, Backing
<1>8. RepliesReturn'
  <2>1. ASSUME NEW n \in sends', n.kind = "answer", n.answers # 0
        PROVE  \E t \in sends' :
                 \/ t.kind # "answer" /\ <<t.to, t.msg>> = <<n.from[1], n.answers>>
                    /\ t.from[1] = n.to
                 \/ t.kind = "answer" /\ t.from = <<n.from[1], n.answers>> /\ t.to = n.to
    <3>1. CASE n \in sends
      BY <1>4, <2>1, <3>1 DEF RepliesReturn
    <3>2. CASE n = s
      <4>1. PICK i \in DOMAIN mappings :
              /\ mappings[i].to[2] = s.from[1] /\ mappings[i].toMsg = s.answers
              /\ mappings[i].from[2] = s.to
        BY <1>1, <2>1, <3>2
      <4>2. Backing(sends, mappings[i])
        BY DEF Backed
      <4>3. PICK t \in sends :
              \/ /\ t.kind # "answer" /\ t.to = s.from[1] /\ t.msg = s.answers
                 /\ t.from[1] = s.to
              \/ t.kind = "answer" /\ t.from = <<s.from[1], s.answers>> /\ t.to = s.to
        BY <4>1, <4>2 DEF Backing
      <4> QED BY <1>4, <3>2, <4>3
    <3> QED BY <1>1, <3>1, <3>2
  <2> QED BY <2>1 DEF RepliesReturn
<1> QED BY <1>7, <1>8

\* Every step keeps replies on their way back.
LEMMA BackedNext == TypeInv /\ Backed /\ RepliesReturn /\ [Next]_vars => Backed' /\ RepliesReturn'
<1> SUFFICES ASSUME TypeInv, Backed, RepliesReturn, [Next]_vars
             PROVE  Backed' /\ RepliesReturn'
  OBVIOUS
<1>1. \/ Aside \/ Crash
      \/ \E c \in Chats : Say(c)
      \/ \E b \in Bots : Poll(b)
      \/ \E x \in Bridges : HandleIncoming(x)
      \/ \E w \in Workers : Routing(w) \/ Save(w) \/ Confirm(w)
  BY Steps DEF TypeInv
<1>2. CASE Aside
  BY <1>2, SameBacked DEF Aside, Busy
<1>3. CASE \E c \in Chats : Say(c)
  BY <1>3, SameBacked DEF Say, Busy
<1>4. CASE Crash
  <2>1. worker' = [w \in Workers |-> Idle] /\ UNCHANGED <<mappings, sends>>
    BY <1>4, CrashIs DEF TypeInv
  <2>2. \A w \in Workers : ~Busy(w)'
    BY <2>1 DEF Busy
  <2> QED BY <2>1, <2>2, SameBacked
<1>5. ASSUME NEW w \in Workers, NEW j, worker' = [worker EXCEPT ![w] = j],
             j.pc # "save", UNCHANGED <<mappings, sends>>
      PROVE  Backed' /\ RepliesReturn'
  <2>1. worker'[w] = j /\ \A v \in Workers \ {w} : worker'[v] = worker[v]
    BY <1>5 DEF TypeInv, Typed
  <2>2. \A v \in Workers : (Busy(v)' /\ worker'[v].pc = "save") =>
          Busy(v) /\ worker[v].pc = "save" /\ worker'[v].row = worker[v].row
    BY <1>5, <2>1 DEF Busy
  <2> QED BY <1>5, <2>2, SameBacked
<1>6. \A b, id, m, ack : Taken(b, id, m, ack).pc # "save"
  BY DEF Taken
<1>7. CASE \E b \in Bots : Poll(b)
  <2>1. PICK b \in Bots : Poll(b)
    BY <1>7
  <2>2. Takes1(b, b, offset[b], inbox[b][offset[b]]) /\ UNCHANGED <<mappings, sends>>
        /\ b \in Workers
    BY <2>1, PollIs DEF Workers
  <2>3. PICK ack \in BOOLEAN :
          worker' = [worker EXCEPT ![b] = Taken(b, offset[b], inbox[b][offset[b]], ack)]
    BY <2>2 DEF Takes1
  <2> DEFINE j == Taken(b, offset[b], inbox[b][offset[b]], ack)
  <2>4. worker' = [worker EXCEPT ![b] = j] /\ j.pc # "save"
    BY <1>6, <2>3
  <2> HIDE DEF j
  <2> QED BY <1>5, <2>2, <2>4
<1>8. CASE \E x \in Bridges : HandleIncoming(x)
  <2>1. PICK x \in Bridges : HandleIncoming(x)
    BY <1>8
  <2>2. PICK m \in Messages : Takes1(x, BotOf[x], BridgeBase + bridged, m)
    BY <2>1, IncomingIs
  <2>3. UNCHANGED <<mappings, sends>> /\ x \in Workers
    BY <2>1, IncomingIs DEF Workers
  <2>4. PICK ack \in BOOLEAN :
          worker' = [worker EXCEPT ![x] = Taken(BotOf[x], BridgeBase + bridged, m, ack)]
    BY <2>2 DEF Takes1
  <2> DEFINE j == Taken(BotOf[x], BridgeBase + bridged, m, ack)
  <2>5. worker' = [worker EXCEPT ![x] = j] /\ j.pc # "save"
    BY <1>6, <2>4
  <2> HIDE DEF j
  <2> QED BY <1>5, <2>3, <2>5
<1>9. CASE \E w \in Workers : Routing(w)
  <2>1. PICK w \in Workers : Routing(w)
    BY <1>9
  <2>2. Busy(w) /\ (Skipped(w) \/ Sent(w)) /\ UNCHANGED mappings
    BY <2>1, RoutingIs DEF TypeInv
  <2>3. CASE Skipped(w)
    <3>1. PICK route \in Nat, then \in {"route", "llm", "confirm"} : Skip(w, route, then)
      BY <2>3 DEF Skipped
    <3> DEFINE j == [worker[w] EXCEPT !.pc = then, !.route = route]
    <3>2. GoesOn(w, j) /\ sends' = sends
      BY <2>2, <3>1, SkippedGoesOn DEF TypeInv
    <3>3. j.pc # "save"
      BY <2>2, JobFields DEF TypeInv, Jobs
    <3> HIDE DEF j
    <3> QED BY <1>5, <2>2, <3>2, <3>3 DEF GoesOn
  <2> QED BY <2>2, <2>3, SentBacked
<1>10. CASE \E w \in Workers : Confirm(w)
  <2>1. PICK w \in Workers : Confirm(w)
    BY <1>10
  <2>2. worker' = [worker EXCEPT ![w] = Idle] /\ UNCHANGED <<mappings, sends>>
    BY <2>1, ConfirmIs
  <2>3. Idle.pc # "save"
    BY DEF Idle
  <2> QED BY <1>5, <2>2, <2>3
<1> QED BY <1>1, <1>2, <1>3, <1>4, <1>7, <1>8, <1>9, <1>10, SaveBacked

------------------------------------------------------------------------------
(* Theorems *)

RoutingInv == TypeInv /\ Traced /\ OnceUnlessRetried /\ Backed /\ RepliesReturn

\* The invariant of the routing holds always.
LEMMA RoutingAlways == Spec => []RoutingInv
<1>1. Init => RoutingInv
  BY TypeInit, TracedInit, BackedInit DEF RoutingInv
<1>2. RoutingInv /\ [Next]_vars => RoutingInv'
  BY TypeNext, TracedNext, BackedNext DEF RoutingInv
<1> QED BY <1>1, <1>2, PTL DEF Spec

\* An update is copied once by each route and by the model, and carried back once,
\* unless its processing failed and it was delivered again: for any number of poll
\* loops, bridges and routes, and whatever stops.
THEOREM OnceAlways == Spec => []OnceUnlessRetried
<1>1. RoutingInv => OnceUnlessRetried
  BY DEF RoutingInv
<1> QED BY <1>1, RoutingAlways, PTL

\* A reply goes to the chat of the message that what it answers is a copy of.
THEOREM RepliesAlwaysReturn == Spec => []RepliesReturn
<1>1. RoutingInv => RepliesReturn
  BY DEF RoutingInv
<1> QED BY <1>1, RoutingAlways, PTL

------------------------------------------------------------------------------
(* Queues *)

Ids == 1 .. BridgeBase + MaxBridged
Sound(q) == q \in Queue(Ids) /\ Len(q.updates) <= QueueSize /\ IsInjective(q.updates)

\* Updates of Telegram are in their order, whatever of bridges is between them.
Ascends(u) == \A i, j \in DOMAIN u : (i < j /\ Real(u[i]) /\ Real(u[j])) => u[i] < u[j]

\* What u is when its first k updates are gone.
Suffix(u, v, k) ==
  /\ v \in Seq(Ids) /\ Len(v) = Len(u) - k
  /\ \A i \in 1 .. Len(v) : v[i] = u[i + k]

\* A queue that lost updates at its head is sound and in order, if it was.
LEMMA SuffixKeeps ==
  ASSUME NEW u \in Seq(Ids), NEW k \in Nat, k <= Len(u), NEW v, Suffix(u, v, k)
  PROVE  /\ IsInjective(u) => IsInjective(v)
         /\ Ascends(u) => Ascends(v)
         /\ Range(v) \subseteq Range(u)
         /\ \A x \in Range(u) : x \in Range(v) \/ \E i \in 1 .. k : x = u[i]
<1>1. v \in Seq(Ids) /\ Len(v) = Len(u) - k /\ Len(u) \in Nat /\ Len(v) \in Nat
      /\ DOMAIN v = 1 .. Len(v) /\ DOMAIN u = 1 .. Len(u)
  BY DEF Suffix
<1>2. \A i \in 1 .. Len(v) : v[i] = u[i + k] /\ i + k \in 1 .. Len(u) /\ i + k \in Int /\ i \in Int
  <2>1. \A i \in 1 .. Len(v) : i + k \in 1 .. Len(u) /\ i + k \in Int /\ i \in Int
    BY <1>1
  <2> QED BY <2>1 DEF Suffix
<1>3. IsInjective(u) => IsInjective(v)
  <2>1. ASSUME IsInjective(u), NEW i \in 1 .. Len(v), NEW j \in 1 .. Len(v), v[i] = v[j]
        PROVE  i = j
    <3>1. i + k = j + k
      BY <1>1, <1>2, <2>1 DEF IsInjective
    <3> QED BY <1>2, <3>1
  <2> QED BY <1>1, <2>1 DEF IsInjective
<1>4. Ascends(u) => Ascends(v)
  <2>1. ASSUME Ascends(u), NEW i \in 1 .. Len(v), NEW j \in 1 .. Len(v), i < j,
               Real(v[i]), Real(v[j])
        PROVE  v[i] < v[j]
    <3>1. i + k < j + k
      BY <1>2, <2>1
    <3> QED BY <1>1, <1>2, <2>1, <3>1 DEF Ascends
  <2> QED BY <1>1, <2>1 DEF Ascends
<1>5. Range(v) \subseteq Range(u)
  BY <1>1, <1>2 DEF Range
<1>6. \A x \in Range(u) : x \in Range(v) \/ \E i \in 1 .. k : x = u[i]
  <2>1. TAKE x \in Range(u)
  <2>2. PICK j \in 1 .. Len(u) : x = u[j]
    BY <1>1 DEF Range
  <2>3. CASE j <= k
    BY <2>2, <2>3
  <2>4. CASE j > k
    <3>1. j - k \in 1 .. Len(v) /\ (j - k) + k = j
      BY <1>1, <2>4
    <3>2. v[j - k] = u[j]
      BY <1>2, <3>1
    <3> QED BY <1>1, <2>2, <3>1, <3>2 DEF Range
  <2> QED BY <2>3, <2>4
<1> QED BY <1>3, <1>4, <1>5, <1>6

\* A suffix is a suffix.
LEMMA SubSeqSuffix ==
  ASSUME NEW u \in Seq(Ids), NEW k \in 0 .. Len(u)
  PROVE  Suffix(u, SubSeq(u, k + 1, Len(u)), k)
<1>1. Len(u) \in Nat /\ k + 1 \in Int /\ k \in Int
  OBVIOUS
<1>2. \A i \in k + 1 .. Len(u) : u[i] \in Ids
  BY <1>1
<1> DEFINE v == SubSeq(u, k + 1, Len(u))
<1>3. /\ v \in Seq(Ids)
      /\ Len(v) = IF k + 1 <= Len(u) THEN Len(u) - (k + 1) + 1 ELSE 0
      /\ \A i \in 1 .. Len(u) - (k + 1) + 1 : v[i] = u[k + 1 + i - 1]
  BY <1>1, <1>2, SubSeqProperties
<1>4. Len(v) = Len(u) - k
  <2>1. k <= Len(u)
    OBVIOUS
  <2> QED BY <1>1, <1>3, <2>1
<1>5. \A i \in 1 .. Len(v) : v[i] = u[i + k]
  <2>1. TAKE i \in 1 .. Len(v)
  <2>2. i \in 1 .. Len(u) - (k + 1) + 1 /\ k + 1 + i - 1 = i + k
    BY <1>1, <1>4
  <2> QED BY <1>3, <2>2
<1> QED BY <1>3, <1>4, <1>5 DEF Suffix

\* Appending a new update keeps a queue injective, and in order if it is the latest.
LEMMA AppendKeeps ==
  ASSUME NEW u \in Seq(Ids), NEW id \in Ids, id \notin Range(u)
  PROVE  /\ Append(u, id) \in Seq(Ids) /\ Len(Append(u, id)) = Len(u) + 1
         /\ Range(Append(u, id)) = Range(u) \cup {id} /\ Append(u, id)[Len(u) + 1] = id
         /\ IsInjective(u) => IsInjective(Append(u, id))
         /\ (Ascends(u) /\ (Real(id) => \A x \in Range(u) : Real(x) => x < id))
              => Ascends(Append(u, id))
<1> DEFINE v == Append(u, id) n == Len(u)
<1>1. /\ v \in Seq(Ids) /\ Len(v) = n + 1 /\ n \in Nat /\ v[n + 1] = id
      /\ DOMAIN v = 1 .. n + 1 /\ DOMAIN u = 1 .. n /\ \A i \in 1 .. n : v[i] = u[i]
  OBVIOUS
<1> HIDE DEF v
<1>2. \A i \in 1 .. n + 1 : i \in 1 .. n \/ i = n + 1
  BY <1>1
<1>3. \A i \in 1 .. n : i \in 1 .. n + 1 /\ i < n + 1 /\ i \in Nat /\ u[i] \in Range(u)
  BY <1>1 DEF Range
<1>4. Range(v) = Range(u) \cup {id}
  <2>1. n + 1 \in 1 .. n + 1
    BY <1>1
  <2> QED BY <1>1, <1>2, <1>3, <2>1 DEF Range
<1>5. IsInjective(u) => IsInjective(v)
  BY <1>1, <1>2, <1>3 DEF IsInjective
<1>6. (Ascends(u) /\ (Real(id) => \A x \in Range(u) : Real(x) => x < id)) => Ascends(v)
  <2>1. ASSUME Ascends(u), Real(id) => \A x \in Range(u) : Real(x) => x < id,
               NEW i \in 1 .. n + 1, NEW j \in 1 .. n + 1, i < j, Real(v[i]), Real(v[j])
        PROVE  v[i] < v[j]
    <3>1. i \in 1 .. n
      BY <1>1, <2>1
    <3>2. CASE j \in 1 .. n
      BY <1>1, <2>1, <3>1, <3>2 DEF Ascends
    <3>3. CASE j = n + 1
      BY <1>1, <1>3, <2>1, <3>1, <3>3
    <3> QED BY <1>2, <3>2, <3>3
  <2> QED BY <1>1, <2>1 DEF Ascends
<1> QED BY <1>1, <1>4, <1>5, <1>6 DEF v

\* A full queue loses its oldest update, and nothing else.
LEMMA EnqueueIs ==
  ASSUME NEW q, Sound(q), NEW id \in Ids
  PROVE  /\ Sound(Enqueue(q, id)) /\ Enqueue(q, id).confirmed = q.confirmed
         /\ Range(Enqueue(q, id).updates) \subseteq Range(q.updates) \cup {id}
         /\ Takes(q, id) => id \in Range(Enqueue(q, id).updates)
         /\ ~Takes(q, id) => Enqueue(q, id) = q
         /\ (/\ Ascends(q.updates)
             /\ Takes(q, id) => (Real(id) => \A x \in Range(q.updates) : Real(x) => x < id))
              => Ascends(Enqueue(q, id).updates)
<1> DEFINE u == q.updates all == Append(u, id)
           drop == Len(all) - Min({Len(all), QueueSize})
           v == SubSeq(all, drop + 1, Len(all))
<1>1. u \in Seq(Ids) /\ q.confirmed \in Nat /\ Len(u) \in Nat /\ Len(u) <= QueueSize
      /\ IsInjective(u) /\ q \in Queue(Ids)
  BY DEF Sound, Queue
<1>2. CASE ~Takes(q, id)
  <2>1. Enqueue(q, id) = q
    BY <1>2 DEF Takes, Enqueue
  <2> QED BY <1>2, <2>1
<1>3. CASE Takes(q, id)
  <2>1. id \notin Range(u) /\ Enqueue(q, id) = [q EXCEPT !.updates = v]
    BY <1>3 DEF Takes, Enqueue
  <2>2. /\ all \in Seq(Ids) /\ Len(all) = Len(u) + 1
        /\ Range(all) = Range(u) \cup {id} /\ all[Len(u) + 1] = id /\ IsInjective(all)
        /\ (Ascends(u) /\ (Real(id) => \A x \in Range(u) : Real(x) => x < id)) => Ascends(all)
    BY <1>1, <2>1, AppendKeeps
  <2> HIDE DEF all
  <2>3. drop \in Nat /\ drop <= Len(u) /\ Len(all) - drop <= QueueSize
        /\ drop \in 0 .. Len(all) /\ Len(all) - drop >= 1 /\ Len(all) \in Nat
    <3> DEFINE S == {Len(all), QueueSize}
    <3>1. Len(all) \in Nat /\ QueueSize \in Nat \ {0}
      BY <1>1, <2>2, QueueSizeAssumption
    <3>2. S \in SUBSET Nat /\ S # {}
      BY <3>1
    <3>3. Min(S) \in S /\ \A y \in S : Min(S) <= y
      BY <3>2, MinIn
    <3>4. Min(S) = Len(all) \/ (Min(S) = QueueSize /\ QueueSize <= Len(all))
      BY <3>3
    <3> HIDE DEF S
    <3>5. drop = Len(all) - Min(S)
      BY DEF S
    <3> HIDE DEF drop
    <3>6. Min(S) <= QueueSize
      BY <3>3 DEF S
    <3>7. Len(all) = Len(u) + 1 /\ Len(u) \in Nat /\ Len(u) <= QueueSize
      BY <1>1, <2>2
    <3> HIDE DEF all, u
    <3> QED BY <3>1, <3>4, <3>5, <3>6, <3>7
  <2>4. Suffix(all, v, drop)
    BY <2>2, <2>3, SubSeqSuffix
  <2> HIDE DEF v, drop
  <2>5. /\ IsInjective(v) /\ (Ascends(all) => Ascends(v)) /\ Range(v) \subseteq Range(all)
    BY <2>2, <2>3, <2>4, SuffixKeeps
  <2>6. v \in Seq(Ids) /\ Len(v) <= QueueSize /\ Len(v) >= 1 /\ Len(v) \in Nat
        /\ v[Len(v)] = all[Len(v) + drop] /\ Len(v) + drop = Len(u) + 1
    <3>1. v \in Seq(Ids) /\ Len(v) = Len(all) - drop
      BY <2>4 DEF Suffix
    <3>2. Len(v) \in Nat /\ Len(v) >= 1 /\ Len(v) <= QueueSize /\ Len(v) + drop = Len(u) + 1
      BY <1>1, <2>2, <2>3, <3>1
    <3>3. Len(v) \in 1 .. Len(v)
      BY <3>2
    <3> QED BY <2>4, <3>1, <3>2, <3>3 DEF Suffix
  <2>7. id \in Range(v)
    <3>1. v[Len(v)] = id /\ Len(v) \in DOMAIN v
      BY <2>2, <2>6
    <3> QED BY <3>1 DEF Range
  <2>8. Enqueue(q, id).updates = v /\ Enqueue(q, id).confirmed = q.confirmed
        /\ Enqueue(q, id) \in Queue(Ids)
    BY <1>1, <2>1, <2>6 DEF Queue
  <2>9. Sound(Enqueue(q, id))
    BY <2>5, <2>6, <2>8 DEF Sound
  <2> QED BY <1>3, <2>2, <2>5, <2>7, <2>8, <2>9
<1> QED BY <1>2, <1>3

\* Purging takes the head of a queue, and only updates below the offset.
LEMMA PurgedIs ==
  ASSUME NEW q, Sound(q), NEW from \in Nat
  PROVE  /\ Sound(Purged(q, from))
         /\ Purged(q, from).confirmed \in {from, q.confirmed}
         /\ Range(Purged(q, from).updates) \subseteq Range(q.updates)
         /\ \A x \in Range(q.updates) : x \in Range(Purged(q, from).updates) \/ x < from
         /\ Ascends(q.updates) => Ascends(Purged(q, from).updates)
<1> DEFINE u == q.updates k == Prefix(q, from) v == SubSeq(u, k + 1, Len(u))
           S == {n \in 0 .. Len(u) : \A i \in 1 .. n : u[i] < from}
           m == Max({from, q.confirmed})
<1>1. u \in Seq(Ids) /\ q.confirmed \in Nat /\ Len(u) \in Nat /\ Len(u) <= QueueSize
      /\ IsInjective(u) /\ q \in Queue(Ids)
  BY DEF Sound, Queue
<1>2. k \in 0 .. Len(u) /\ \A i \in 1 .. k : u[i] < from
  <2>1. 0 \in S
    BY <1>1
  <2>2. S \in SUBSET (0 .. Len(u)) /\ S # {}
    BY <2>1
  <2>3. k = Max(S)
    BY DEF Prefix
  <2>4. Max(S) \in S
    <3> HIDE DEF S
    <3> QED BY <1>1, <2>2, MaxIn
  <2> QED BY <2>3, <2>4
<1>3. m \in {from, q.confirmed}
  <2> DEFINE T == {from, q.confirmed}
  <2>1. from <= from + q.confirmed /\ q.confirmed <= from + q.confirmed
        /\ from + q.confirmed \in Nat
    BY <1>1
  <2>2. T \in SUBSET (0 .. from + q.confirmed) /\ T # {}
    BY <1>1, <2>1
  <2> HIDE DEF T
  <2>3. Max(T) \in T
    BY <2>1, <2>2, MaxIn
  <2> QED BY <2>3 DEF T
<1> HIDE DEF k, m
<1>4. Suffix(u, v, k)
  BY <1>1, <1>2, SubSeqSuffix
<1>5. Purged(q, from) = [updates |-> v, confirmed |-> m]
  BY DEF Purged, k, m
<1> HIDE DEF v
<1>6. k \in Nat /\ k <= Len(u) /\ v \in Seq(Ids) /\ Len(v) = Len(u) - k
  BY <1>1, <1>2, <1>4 DEF Suffix
<1>7. /\ IsInjective(v) /\ (Ascends(u) => Ascends(v)) /\ Range(v) \subseteq Range(u)
      /\ \A x \in Range(u) : x \in Range(v) \/ \E i \in 1 .. k : x = u[i]
  BY <1>1, <1>4, <1>6, SuffixKeeps
<1>8. \A x \in Range(u) : x \in Range(v) \/ x < from
  BY <1>2, <1>7
<1>9. m \in Nat /\ Len(v) <= QueueSize
  BY <1>1, <1>3, <1>6, QueueSizeAssumption
<1>10. Sound(Purged(q, from))
  BY <1>5, <1>6, <1>7, <1>9 DEF Sound, Queue
<1> QED BY <1>3, <1>5, <1>7, <1>8, <1>10

\* What is fetched is in the queue, from the offset on, and leaves out nothing of
\* Telegram between the offset and the latest update in it.
LEMMA FetchedIs ==
  ASSUME NEW q, Sound(q), NEW from \in Nat, NEW limit \in Nat
  PROVE  /\ Fetched(q, from, limit) \subseteq Range(q.updates)
         /\ \A x \in Fetched(q, from, limit) : x >= from
         /\ Ascends(q.updates) => \A x \in Fetched(q, from, limit), y \in Range(q.updates) :
              (Real(x) /\ from <= y /\ y <= x) => y \in Fetched(q, from, limit)
<1> DEFINE u == q.updates F == {i \in DOMAIN u : u[i] >= from}
           upTo(j) == {k \in F : k <= j}
           J == {j \in F : Cardinality(upTo(j)) <= limit}
<1>1. u \in Seq(Ids) /\ Len(u) \in Nat /\ DOMAIN u = 1 .. Len(u)
  BY DEF Sound, Queue
<1>2. Fetched(q, from, limit) = {u[j] : j \in J}
  BY DEF Fetched
<1>3. IsFiniteSet(F) /\ F \subseteq 1 .. Len(u)
  <2>1. F \subseteq 1 .. Len(u)
    BY <1>1
  <2>2. IsFiniteSet(1 .. Len(u))
    BY <1>1, FS_Interval
  <2> HIDE DEF F
  <2> QED BY <2>1, <2>2, FS_Subset
<1>4. \A i, j \in F : i <= j => IsFiniteSet(upTo(j)) /\ upTo(i) \subseteq upTo(j)
  <2>1. TAKE i, j \in F
  <2>2. \A k \in F : k \in Int
    BY <1>1, <1>3
  <2>3. IsFiniteSet(upTo(j))
    <3>1. upTo(j) \subseteq F
      OBVIOUS
    <3> QED BY <1>3, <3>1, FS_Subset
  <2> QED BY <2>2, <2>3
<1>5. ASSUME Ascends(u), NEW j \in J, NEW i \in 1 .. Len(u), Real(u[j]), from <= u[i], u[i] <= u[j]
      PROVE  i \in J
  <2>0. j \in F /\ i \in DOMAIN u /\ u[i] >= from /\ \A n \in 1 .. Len(u) : u[n] \in Int
    <3>1. \A n \in 1 .. Len(u) : u[n] \in Ids
      BY <1>1
    <3>2. Ids \subseteq Int
      BY DEF Ids
    <3> QED BY <1>1, <1>5, <3>1, <3>2
  <2>1. i \in F /\ j \in F /\ i \in Int /\ j \in Int /\ u[i] \in Int /\ u[j] \in Int
        /\ j \in DOMAIN u /\ i \in DOMAIN u
    BY <1>1, <2>0
  <2>2. Real(u[i])
    BY <1>5, <2>1, PipelineAssumption DEF Real
  <2>3. i <= j
    <3>1. CASE j < i
      <4>1. u[j] < u[i]
        BY <1>5, <2>1, <2>2, <3>1 DEF Ascends
      <4> QED BY <1>5, <2>1, <4>1
    <3> QED BY <2>1, <3>1
  <2>4. IsFiniteSet(upTo(j)) /\ upTo(i) \subseteq upTo(j)
    BY <1>4, <2>1, <2>3
  <2> HIDE DEF upTo
  <2>5. IsFiniteSet(upTo(i)) /\ Cardinality(upTo(i)) <= Cardinality(upTo(j))
    BY <2>4, FS_Subset
  <2>6. Cardinality(upTo(i)) \in Nat /\ Cardinality(upTo(j)) \in Nat
        /\ Cardinality(upTo(j)) <= limit
    BY <2>4, <2>5, FS_CardinalityType
  <2>7. Cardinality(upTo(i)) <= limit
    BY <2>5, <2>6
  <2> QED BY <2>1, <2>7
<1>6. \A j \in J : j \in DOMAIN u /\ u[j] >= from
  OBVIOUS
<1>7. ASSUME Ascends(u), NEW x \in Fetched(q, from, limit), NEW y \in Range(u), Real(x), from <= y, y <= x
      PROVE  y \in Fetched(q, from, limit)
  <2>1. PICK j \in J : x = u[j]
    BY <1>2
  <2>2. PICK i \in 1 .. Len(u) : y = u[i]
    BY <1>1 DEF Range
  <2>3. i \in J
    BY <1>5, <1>7, <2>1, <2>2
  <2> QED BY <1>2, <2>2, <2>3
<1> HIDE DEF J
<1>8. Fetched(q, from, limit) \subseteq Range(u)
  <2> HIDE DEF u
  <2> QED BY <1>2, <1>6 DEF Range
<1>9. \A x \in Fetched(q, from, limit) : x >= from
  BY <1>2, <1>6
<1> QED BY <1>7, <1>8, <1>9

------------------------------------------------------------------------------
(* Nothing is lost silently *)

\* The queues, which no two bots share, and the requests at them.
Calls == [at : {"idle", "looked", "waiting", "woken"}, next : Nat, q : Nat]
Shelf ==
  /\ heap \in Seq(Queue(Ids)) /\ \A n \in DOMAIN heap : Sound(heap[n])
  /\ queueOf \in [Bots -> 0 .. Len(heap)]
  /\ \A a, b \in Bots : (queueOf[a] = queueOf[b] /\ queueOf[a] # 0) => a = b
Requests ==
  /\ client \in [Clients -> Calls]
  /\ \A c \in Clients : /\ client[c].q \in 0 .. Len(heap)
                        /\ (client[c].at = "idle") <=> (client[c].q = 0)
                        /\ client[c].q # 0 => BotOfClient[c] \in LongPolled

\* A queue is in the order the updates came.
InOrder == \A b \in Bots :
  /\ Ascends(Content(b).updates)
  /\ \A id \in Range(Content(b).updates) : Real(id) => id <= offset[b]

\* What was taken was handed over, given up or is queued.
Seen(b, id) == <<b, id>> \in got \cup lost \cup Held(b)
Taking == \A b \in LongPolled : Busy(b) => Seen(b, worker[b].id)

\* An offset confirms nothing that was not handed over or given up, unless it
\* came from the id of a bridge.
Known(ss, b, next) == Real(next - 1) => \A id \in 1 .. next - 1 : <<b, id>> \in ss
Asked == \A c \in Clients : Known(got \cup lost, BotOfClient[c], client[c].next)
Marked == \A b \in Bots : Known(got \cup lost, b, Content(b).confirmed)

\* Who asks at a queue that was dropped finds only what was given up.
Dropped(ss, qo, h, b, n) ==
  /\ \A a \in Bots : qo[a] # n
  /\ \A id \in Range(h[n].updates) : Real(id) => \A i \in 1 .. id : <<b, i>> \in ss
Parked == \A c \in Clients : client[c].q # 0 =>
  \/ client[c].q = queueOf[BotOfClient[c]]
  \/ Dropped(got \cup lost, queueOf, heap, BotOfClient[c], client[c].q)

QueueInv ==
  Shelf /\ Requests /\ InOrder /\ Taking /\ NothingLostSilently /\ Asked /\ Marked /\ Parked

\* The queue of a bot is now q.
Linked(b, q) == \E n \in Nat :
  /\ n = (IF queueOf[b] = 0 THEN Len(heap) + 1 ELSE queueOf[b])
  /\ queueOf' = [queueOf EXCEPT ![b] = n]
  /\ heap' = [i \in DOMAIN heap \cup {n} |-> IF i = n THEN q ELSE heap[i]]

\* A new queue is sound and empty, so is what a bot has.
LEMMA ContentIs ==
  ASSUME Shelf, NEW b \in Bots
  PROVE  /\ Sound(Content(b)) /\ Sound(NewUpdateQueue) /\ NewUpdateQueue.confirmed = 0
         /\ NewUpdateQueue \in Queue(Ids) /\ Range(NewUpdateQueue.updates) = {}
         /\ Ascends(NewUpdateQueue.updates)
         /\ Content(b) \in Queue(Ids)
         /\ queueOf[b] # 0 => queueOf[b] \in DOMAIN heap /\ Content(b) = heap[queueOf[b]]
<1>1. NewUpdateQueue.updates = <<>> /\ NewUpdateQueue.confirmed = 0
      /\ NewUpdateQueue \in Queue(Ids)
  BY DEF NewUpdateQueue, Queue
<1>2. DOMAIN <<>> = {} /\ Len(<<>>) = 0
  OBVIOUS
<1>3. Range(NewUpdateQueue.updates) = {} /\ Ascends(NewUpdateQueue.updates)
      /\ IsInjective(NewUpdateQueue.updates)
  BY <1>1, <1>2 DEF Range, Ascends, IsInjective
<1>4. Sound(NewUpdateQueue)
  BY <1>1, <1>2, <1>3, QueueSizeAssumption DEF Sound
<1>5. queueOf[b] # 0 => queueOf[b] \in DOMAIN heap /\ Content(b) = heap[queueOf[b]]
  BY DEF Shelf, Content
<1>6. Sound(Content(b))
  BY <1>4, <1>5 DEF Content, Shelf
<1> QED BY <1>1, <1>3, <1>4, <1>5, <1>6 DEF Sound

\* What follows from a queue's change, for the other queues.
LEMMA LinkedIs ==
  ASSUME Shelf, NEW b \in Bots, NEW q, Sound(q), Linked(b, q)
  PROVE  /\ Shelf' /\ Content(b)' = q /\ queueOf'[b] # 0
         /\ \A a \in Bots \ {b} : Content(a)' = Content(a) /\ queueOf'[a] = queueOf[a]
         /\ Len(heap) <= Len(heap') /\ Len(heap) \in Nat /\ Len(heap') \in Nat
         /\ \A n \in 1 .. Len(heap) : n # queueOf[b] => heap'[n] = heap[n]
         /\ queueOf[b] # 0 => queueOf'[b] = queueOf[b]
         /\ \A n \in 1 .. Len(heap) : (\A a \in Bots : queueOf[a] # n) => \A a \in Bots : queueOf'[a] # n
<1> DEFINE L == Len(heap)
<1>1. PICK n \in Nat :
        /\ n = (IF queueOf[b] = 0 THEN L + 1 ELSE queueOf[b])
        /\ queueOf' = [queueOf EXCEPT ![b] = n]
        /\ heap' = [i \in DOMAIN heap \cup {n} |-> IF i = n THEN q ELSE heap[i]]
  BY DEF Linked
<1>2. /\ heap \in Seq(Queue(Ids)) /\ L \in Nat /\ DOMAIN heap = 1 .. L
      /\ queueOf \in [Bots -> 0 .. L] /\ q \in Queue(Ids)
      /\ \A i \in 1 .. L : Sound(heap[i])
      /\ \A i \in 1 .. L : heap[i] \in Queue(Ids)
  BY DEF Shelf, Sound
<1> DEFINE M == IF queueOf[b] = 0 THEN L + 1 ELSE L
<1>3. n \in 1 .. M /\ M \in Nat /\ L <= M /\ (1 .. L) \cup {n} = 1 .. M
      /\ (queueOf[b] = 0 => n = L + 1) /\ (queueOf[b] # 0 => n = queueOf[b] /\ M = L)
  <2>1. CASE queueOf[b] = 0
    BY <1>1, <1>2, <2>1
  <2>2. CASE queueOf[b] # 0
    BY <1>1, <1>2, <2>2
  <2> QED BY <2>1, <2>2
<1> HIDE DEF M, L
<1>4. heap' = [i \in 1 .. M |-> IF i = n THEN q ELSE heap[i]]
  BY <1>1, <1>2, <1>3
<1>5. /\ heap'[n] = q /\ DOMAIN heap' = 1 .. M
      /\ \A i \in 1 .. M : i # n => i \in 1 .. L /\ heap'[i] = heap[i]
      /\ \A i \in 1 .. L : i \in 1 .. M
  BY <1>3, <1>4
<1>6. heap' \in Seq(Queue(Ids)) /\ Len(heap') = M
  <2>1. \A i \in 1 .. M : (IF i = n THEN q ELSE heap[i]) \in Queue(Ids)
    BY <1>2, <1>5
  <2>2. heap' \in [1 .. M -> Queue(Ids)]
    BY <1>4, <2>1
  <2> QED BY <1>3, <2>2
<1>7. \A i \in DOMAIN heap' : Sound(heap'[i])
  BY <1>2, <1>5
<1>8. queueOf'[b] = n /\ n # 0 /\ \A a \in Bots \ {b} : queueOf'[a] = queueOf[a]
  BY <1>1, <1>2, <1>3
<1>9. queueOf' \in [Bots -> 0 .. M]
  BY <1>1, <1>2, <1>3
<1>10. \A a \in Bots \ {b} : queueOf[a] # n
  <2>1. TAKE a \in Bots \ {b}
  <2>2. queueOf[a] \in 0 .. L
    BY <1>2
  <2>3. CASE queueOf[b] = 0
    BY <1>2, <1>3, <2>2, <2>3
  <2>4. CASE queueOf[b] # 0
    BY <1>3, <2>4 DEF Shelf
  <2> QED BY <2>3, <2>4
<1>11. \A x, y \in Bots : (queueOf'[x] = queueOf'[y] /\ queueOf'[x] # 0) => x = y
  <2>1. \A x, y \in Bots : (queueOf[x] = queueOf[y] /\ queueOf[x] # 0) => x = y
    BY DEF Shelf
  <2> QED BY <1>8, <1>10, <2>1
<1>12. Shelf'
  BY <1>6, <1>7, <1>9, <1>11 DEF Shelf
<1>13. Content(b)' = q
  BY <1>5, <1>8 DEF Content
<1>14. \A a \in Bots \ {b} : Content(a)' = Content(a)
  <2>1. TAKE a \in Bots \ {b}
  <2>2. CASE queueOf[a] = 0
    BY <1>8, <2>2 DEF Content
  <2>3. CASE queueOf[a] # 0
    <3>1. queueOf[a] \in 1 .. L /\ queueOf[a] # n
      BY <1>2, <1>10, <2>3
    <3> QED BY <1>5, <1>8, <2>3, <3>1 DEF Content
  <2> QED BY <2>2, <2>3
<1>15. \A i \in 1 .. L : i # queueOf[b] => heap'[i] = heap[i]
  <2>1. \A i \in 1 .. L : i # queueOf[b] => i # n
    BY <1>2, <1>3
  <2> QED BY <1>5, <2>1
<1>16. \A i \in 1 .. L : (\A a \in Bots : queueOf[a] # i) => \A a \in Bots : queueOf'[a] # i
  <2>1. \A i \in 1 .. L : (\A a \in Bots : queueOf[a] # i) => i # n
    BY <1>2, <1>3
  <2> QED BY <1>8, <2>1
<1> QED BY <1>2, <1>3, <1>6, <1>8, <1>12, <1>13, <1>14, <1>15, <1>16 DEF L

\* What was handed over or given up stays so.
LEMMA KnownStays ==
  ASSUME NEW ss, NEW tt, ss \subseteq tt, NEW b, NEW next, Known(ss, b, next)
  PROVE  Known(tt, b, next)
BY DEF Known

\* What is said of a dropped queue stays true while more is handed over or given up.
LEMMA DroppedStays ==
  ASSUME NEW ss, NEW tt, ss \subseteq tt, NEW qo, NEW po, NEW h, NEW g, NEW b, NEW n,
         Dropped(ss, qo, h, b, n), \A a \in Bots : po[a] # n,
         Range(g[n].updates) \subseteq Range(h[n].updates)
  PROVE  Dropped(tt, po, g, b, n)
BY DEF Dropped

\* What a request knows of its queue.
Standing(c) ==
  /\ Known(got \cup lost, BotOfClient[c], client[c].next)
  /\ client[c].q # 0 =>
       \/ client[c].q = queueOf[BotOfClient[c]]
       \/ Dropped(got \cup lost, queueOf, heap, BotOfClient[c], client[c].q)

\* What a request knew, it knows.
StillStanding(c) ==
  /\ Known(got' \cup lost', BotOfClient[c], client[c].next)
  /\ client[c].q # 0 => /\ client[c].q \in 0 .. Len(heap')
       /\ \/ client[c].q = queueOf'[BotOfClient[c]]
          \/ Dropped(got' \cup lost', queueOf', heap', BotOfClient[c], client[c].q)

\* When the queue of a bot changes, and all that it no longer holds was handed
\* over or given up, then nothing is lost.
LEMMA LinkedKeeps ==
  ASSUME Typed, QueueInv, NEW b \in Bots, NEW q, Sound(q), Linked(b, q),
         UNCHANGED <<config, offset>>, got \subseteq got', lost \subseteq lost',
         Ascends(q.updates), \A id \in Range(q.updates) : Real(id) => id <= offset[b],
         \A x \in Range(Content(b).updates) : x \in Range(q.updates) \/ <<b, x>> \in got' \cup lost',
         Known(got' \cup lost', b, q.confirmed)
  PROVE  /\ Shelf' /\ InOrder' /\ NothingLostSilently' /\ Marked'
         /\ \A a \in Bots : \A id : Seen(a, id) => Seen(a, id)'
         /\ \A c \in Clients : StillStanding(c)
<1> DEFINE ss == got \cup lost tt == got' \cup lost'
<1>0. Shelf /\ Requests /\ InOrder /\ NothingLostSilently /\ Asked /\ Marked /\ Parked
  BY DEF QueueInv
<1>1. /\ Shelf' /\ Content(b)' = q /\ queueOf'[b] # 0
      /\ \A a \in Bots \ {b} : Content(a)' = Content(a) /\ queueOf'[a] = queueOf[a]
      /\ Len(heap) <= Len(heap') /\ Len(heap) \in Nat /\ Len(heap') \in Nat
      /\ \A n \in 1 .. Len(heap) : n # queueOf[b] => heap'[n] = heap[n]
      /\ queueOf[b] # 0 => queueOf'[b] = queueOf[b]
      /\ \A n \in 1 .. Len(heap) :
           (\A a \in Bots : queueOf[a] # n) => \A a \in Bots : queueOf'[a] # n
  BY <1>0, LinkedIs
<1>2. ss \subseteq tt
  OBVIOUS
<1>3. InOrder'
  <2>1. ASSUME NEW a \in Bots
        PROVE  /\ Ascends(Content(a)'.updates)
               /\ \A id \in Range(Content(a)'.updates) : Real(id) => id <= offset'[a]
    BY <1>0, <1>1 DEF InOrder
  <2> QED BY <2>1 DEF InOrder
<1>4. \A a \in Bots : \A id : Seen(a, id) => Seen(a, id)'
  <2>1. ASSUME NEW a \in Bots, NEW id, Seen(a, id)
        PROVE  Seen(a, id)'
    <3>1. CASE <<a, id>> \in ss
      BY <1>2, <3>1 DEF Seen
    <3>2. CASE <<a, id>> \in Held(a)
      <4>1. id \in Range(Content(a).updates)
        BY <3>2 DEF Held
      <4>2. id \in Range(Content(a)'.updates) \/ <<a, id>> \in tt
        BY <1>1, <4>1
      <4>3. id \in Range(Content(a)'.updates) => <<a, id>> \in Held(a)'
        BY DEF Held
      <4> QED BY <4>2, <4>3 DEF Seen
    <3> QED BY <2>1, <3>1, <3>2 DEF Seen
  <2> QED BY <2>1
<1>5. NothingLostSilently'
  <2>1. LongPolled \subseteq Bots
    BY ConfigsAssumption DEF Typed, LongPolled
  <2>2. ASSUME NEW a \in LongPolled', NEW id \in 1 .. offset'[a] - 1
        PROVE  (<<a, id>> \in got \cup lost \cup Held(a))'
    <3>1. a \in LongPolled /\ id \in 1 .. offset[a] - 1
      BY <2>2 DEF LongPolled
    <3>2. <<a, id>> \in got \cup lost \cup Held(a)
      BY <1>0, <3>1 DEF NothingLostSilently
    <3> QED BY <1>4, <2>1, <3>1, <3>2 DEF Seen
  <2> QED BY <2>2 DEF NothingLostSilently
<1>6. Marked'
  <2>1. ASSUME NEW a \in Bots
        PROVE  Known(tt, a, Content(a)'.confirmed)
    <3>1. CASE a = b
      BY <1>1, <3>1
    <3>2. CASE a # b
      <4>1. Content(a)' = Content(a)
        BY <1>1, <3>2
      <4>2. Known(ss, a, Content(a).confirmed)
        BY <1>0 DEF Marked
      <4> QED BY <1>2, <4>1, <4>2, KnownStays
    <3> QED BY <3>1, <3>2
  <2> QED BY <2>1 DEF Marked
<1>7. ASSUME NEW c \in Clients
      PROVE  StillStanding(c)
  <2> DEFINE a == BotOfClient[c] n == client[c].q
  <2>0. a \in Bots /\ n \in 0 .. Len(heap)
    BY <1>0, PipelineAssumption DEF Requests
  <2>1. Known(tt, a, client[c].next)
    <3>1. Known(ss, a, client[c].next)
      BY <1>0 DEF Asked
    <3> QED BY <1>2, <3>1, KnownStays
  <2>2. ASSUME n # 0
        PROVE  n \in 0 .. Len(heap') /\ (n = queueOf'[a] \/ Dropped(tt, queueOf', heap', a, n))
    <3>1. n \in 1 .. Len(heap) /\ n \in 0 .. Len(heap')
      BY <1>1, <2>0, <2>2
    <3>2. n = queueOf[a] \/ Dropped(ss, queueOf, heap, a, n)
      BY <1>0, <2>2 DEF Parked
    <3>3. CASE n = queueOf[a]
      BY <1>1, <2>0, <2>2, <3>1, <3>3
    <3>4. CASE Dropped(ss, queueOf, heap, a, n)
      <4>1. \A x \in Bots : queueOf[x] # n
        BY <3>4 DEF Dropped
      <4>2. heap'[n] = heap[n] /\ \A x \in Bots : queueOf'[x] # n
        BY <1>1, <3>1, <4>1
      <4> HIDE DEF a, n
      <4>3. Dropped(tt, queueOf', heap', a, n)
        BY <1>2, <3>4, <4>2, DroppedStays
      <4> QED BY <3>1, <4>3
    <3> QED BY <3>2, <3>3, <3>4
  <2> QED BY <2>1, <2>2 DEF StillStanding
<1> QED BY <1>1, <1>3, <1>4, <1>5, <1>6, <1>7

\* An update is put into the queue of its bot.
LEMMA EnqueuedKeeps ==
  ASSUME Typed, QueueInv, NEW b \in Bots, NEW id \in Ids, EnqueueUpdate(b, id),
         Real(id) => id = offset[b], UNCHANGED <<config, offset, got>>
  PROVE  /\ Shelf' /\ Requests' /\ InOrder' /\ NothingLostSilently' /\ Asked' /\ Marked' /\ Parked'
         /\ \A a \in Bots : \A x : Seen(a, x) => Seen(a, x)'
         /\ Seen(b, id)'
<1> DEFINE q == Content(b) r == Enqueue(q, id)
           n == IF queueOf[b] = 0 THEN Len(heap) + 1 ELSE queueOf[b]
           tt == got' \cup lost'
<1>0. Shelf /\ Requests /\ InOrder /\ NothingLostSilently /\ Asked /\ Marked /\ Parked
  BY DEF QueueInv
<1>1. /\ heap' = [i \in DOMAIN heap \cup {n} |-> IF i = n THEN r ELSE heap[i]]
      /\ queueOf' = [queueOf EXCEPT ![b] = n]
      /\ client' = [c \in Clients |->
           IF client[c].q = n /\ client[c].at = "waiting" /\ Takes(q, id)
           THEN [client[c] EXCEPT !.at = "woken"] ELSE client[c]]
      /\ lost' = lost \cup {<<b, i>> : i \in Range(q.updates) \ Range(r.updates)}
           \cup (IF id < q.confirmed /\ ~Real(q.confirmed - 1) THEN {<<b, id>>} ELSE {})
  BY DEF EnqueueUpdate
<1>2. n \in Nat
  BY <1>0 DEF Shelf
<1>3. Linked(b, r)
  BY <1>1, <1>2 DEF Linked
<1>4. Sound(q) /\ q.confirmed \in Nat /\ Ascends(q.updates)
      /\ \A x \in Range(q.updates) : Real(x) => x <= offset[b]
  BY <1>0, ContentIs DEF InOrder, Queue
<1>5. Range(q.updates) \subseteq Ids /\ id \in Int /\ offset[b] \in Int
  <2>1. q.updates \in Seq(Ids)
    BY <1>4 DEF Sound, Queue
  <2>2. Range(q.updates) \subseteq Ids
    <3> HIDE DEF q
    <3>1. \A i \in DOMAIN q.updates : q.updates[i] \in Ids
      BY <2>1
    <3> QED BY <3>1 DEF Range
  <2>3. offset[b] \in Int
    BY DEF Typed
  <2> QED BY <2>2, <2>3 DEF Ids
<1>6. Takes(q, id) => (Real(id) => \A x \in Range(q.updates) : Real(x) => x < id)
  <2>1. ASSUME Takes(q, id), Real(id), NEW x \in Range(q.updates), Real(x)
        PROVE  x < id
    <3>1. x # id /\ x <= offset[b] /\ id = offset[b]
      BY <1>4, <2>1 DEF Takes
    <3>2. x \in Int
      BY <1>5, <2>1 DEF Ids
    <3> QED BY <1>5, <3>1, <3>2
  <2> QED BY <2>1
<1> HIDE DEF q
<1>7. /\ Sound(r) /\ r.confirmed = q.confirmed
      /\ Range(r.updates) \subseteq Range(q.updates) \cup {id}
      /\ Takes(q, id) => id \in Range(r.updates)
      /\ ~Takes(q, id) => r = q
      /\ Ascends(r.updates)
  BY <1>4, <1>6, EnqueueIs
<1> HIDE DEF r, n
<1>8. got \subseteq got' /\ lost \subseteq lost' /\ got' = got
  BY <1>1
<1>9. \A x \in Range(q.updates) : x \in Range(r.updates) \/ <<b, x>> \in tt
  BY <1>1
<1>10. \A x \in Range(r.updates) : Real(x) => x <= offset[b]
  <2>1. id = offset[b] => id <= offset[b]
    BY <1>5
  <2> QED BY <1>4, <1>7, <2>1
<1>11. Known(got \cup lost, b, q.confirmed)
  BY <1>0 DEF Marked, q
<1>12. Known(tt, b, r.confirmed)
  <2>1. got \cup lost \subseteq tt
    BY <1>8
  <2> QED BY <1>7, <1>11, <2>1, KnownStays
<1>13. /\ Shelf' /\ InOrder' /\ NothingLostSilently' /\ Marked'
       /\ \A a \in Bots : \A x : Seen(a, x) => Seen(a, x)'
       /\ \A c \in Clients : StillStanding(c)
  BY <1>3, <1>7, <1>8, <1>9, <1>10, <1>12, LinkedKeeps DEF q
<1>14. \A c \in Clients :
         /\ client'[c] \in Calls /\ client'[c].q = client[c].q /\ client'[c].next = client[c].next
         /\ (client'[c].at = "idle") <=> (client[c].at = "idle")
  <2>1. TAKE c \in Clients
  <2>2. client[c] \in Calls
    BY <1>0 DEF Requests
  <2>3. \/ client'[c] = [client[c] EXCEPT !.at = "woken"] /\ client[c].at = "waiting"
        \/ client'[c] = client[c]
    BY <1>1
  <2> QED BY <2>2, <2>3 DEF Calls
<1>15. Requests'
  <2>1. client' \in [Clients -> Calls]
    BY <1>1, <1>14
  <2>2. \A c \in Clients : client[c].q # 0 => client[c].q \in 0 .. Len(heap')
    BY <1>13 DEF StillStanding
  <2>3. 0 \in 0 .. Len(heap')
    BY <1>13 DEF Shelf
  <2>4. LongPolled' = LongPolled
    BY DEF LongPolled
  <2> QED BY <1>0, <1>14, <2>1, <2>2, <2>3, <2>4 DEF Requests
<1>16. Asked' /\ Parked'
  BY <1>13, <1>14 DEF StillStanding, Asked, Parked
<1>17. Seen(b, id)'
  <2>1. CASE id \in Range(r.updates)
    <3>1. Content(b)' = r
      BY <1>0, <1>3, <1>7, LinkedIs
    <3>2. <<b, id>> \in {<<b, x>> : x \in Range(Content(b)'.updates)}
      BY <2>1, <3>1
    <3> QED BY <3>2 DEF Seen, Held
  <2>2. CASE id \notin Range(r.updates)
    <3>1. id < q.confirmed
      BY <1>7, <2>2 DEF Takes
    <3>2. CASE Real(q.confirmed - 1)
      <4>1. id \in 1 .. q.confirmed - 1
        BY <1>4, <3>1 DEF Ids
      <4>2. <<b, id>> \in got \cup lost
        BY <1>11, <3>2, <4>1 DEF Known
      <4> QED BY <1>8, <4>2 DEF Seen
    <3>3. CASE ~Real(q.confirmed - 1)
      BY <1>1, <3>1, <3>3 DEF Seen
    <3> QED BY <3>2, <3>3
  <2> QED BY <2>1, <2>2
<1> QED BY <1>13, <1>15, <1>16, <1>17

\* Nothing happens to the queues, and no update is taken.
LEMMA StillKeeps ==
  ASSUME Typed, QueueInv, UNCHANGED <<config, offset, heap, queueOf, client, got, lost>>
  PROVE  /\ Shelf' /\ Requests' /\ InOrder' /\ NothingLostSilently' /\ Asked' /\ Marked' /\ Parked'
         /\ \A a \in Bots : \A x : Seen(a, x) => Seen(a, x)'
         /\ LongPolled' = LongPolled
<1>1. \A a : Content(a)' = Content(a)
  BY DEF Content
<1>2. \A a : Held(a)' = Held(a)
  BY <1>1 DEF Held
<1>3. LongPolled' = LongPolled
  BY DEF LongPolled
<1>4. Shelf' /\ Requests'
  BY <1>3 DEF QueueInv, Shelf, Requests
<1>5. InOrder' /\ Marked'
  BY <1>1 DEF QueueInv, InOrder, Marked
<1>6. NothingLostSilently'
  BY <1>2, <1>3 DEF QueueInv, NothingLostSilently
<1>7. Asked' /\ Parked'
  BY DEF QueueInv, Asked, Parked
<1>8. \A a \in Bots : \A x : Seen(a, x) => Seen(a, x)'
  BY <1>2 DEF Seen
<1> QED BY <1>3, <1>4, <1>5, <1>6, <1>7, <1>8

\* Workers go on, or stop.
LEMMA WorkersKeep ==
  ASSUME Typed, QueueInv, UNCHANGED <<config, offset, heap, queueOf, client, got, lost>>,
         \A b \in Bots : Busy(b)' => Busy(b) /\ worker'[b].id = worker[b].id
  PROVE  QueueInv'
<1>1. /\ Shelf' /\ Requests' /\ InOrder' /\ NothingLostSilently' /\ Asked' /\ Marked' /\ Parked'
      /\ \A a \in Bots : \A x : Seen(a, x) => Seen(a, x)'
      /\ LongPolled' = LongPolled
  BY StillKeeps
<1>2. LongPolled \subseteq Bots
  BY ConfigsAssumption DEF Typed, LongPolled
<1>3. Taking'
  <2>1. ASSUME NEW b \in LongPolled, Busy(b)'
        PROVE  <<b, worker'[b].id>> \in (got \cup lost \cup Held(b))'
    <3>1. Busy(b) /\ worker'[b].id = worker[b].id
      BY <1>2, <2>1
    <3>2. Seen(b, worker[b].id)
      BY <3>1 DEF QueueInv, Taking
    <3>3. Seen(b, worker[b].id) => <<b, worker[b].id>> \in (got \cup lost \cup Held(b))'
      BY Zenon, <1>1, <1>2 DEF Seen
    <3> QED BY <3>1, <3>2, <3>3
  <2> QED BY <1>1, <2>1 DEF Taking, Seen
<1> QED BY <1>1, <1>3 DEF QueueInv

\* A worker takes an update.
LEMMA DispatchKeeps ==
  ASSUME TypeInv, QueueInv, NEW w \in Workers, NEW b \in Bots, NEW id \in Ids, NEW message,
         worker[w] = Idle, Dispatch(w, b, id, message), w \in Bots => w = b,
         Real(id) => id = offset[b], UNCHANGED <<config, offset, got>>
  PROVE  QueueInv'
<1>1. Takes1(w, b, id, message)
  BY DispatchIs DEF TypeInv
<1>2. PICK ack \in BOOLEAN : worker' = [worker EXCEPT ![w] = Taken(b, id, message, ack)]
  BY <1>1 DEF Takes1
<1>3. worker'[w].id = id /\ \A v \in Workers \ {w} : worker'[v] = worker[v]
  BY <1>2 DEF TypeInv, Typed, Taken
<1>4. LongPolled \subseteq Bots /\ LongPolled' = LongPolled
  BY ConfigsAssumption DEF TypeInv, Typed, LongPolled
<1>5. ASSUME Shelf', Requests', InOrder', NothingLostSilently', Asked', Marked', Parked',
             \A a \in Bots : \A x : Seen(a, x) => Seen(a, x)',
             b \in LongPolled => Seen(b, id)'
      PROVE  QueueInv'
  <2>1. ASSUME NEW a \in LongPolled, Busy(a)'
        PROVE  <<a, worker'[a].id>> \in (got \cup lost \cup Held(a))'
    <3>1. CASE a = w
      <4>1. a = b /\ worker'[a].id = id
        BY <1>3, <1>4, <3>1
      <4> QED BY <1>5, <2>1, <4>1 DEF Seen
    <3>2. CASE a # w
      <4>1. worker'[a] = worker[a]
        BY <1>3, <1>4, <3>2 DEF Workers
      <4>2. Seen(a, worker[a].id)
        BY <2>1, <4>1 DEF QueueInv, Taking, Busy
      <4>3. Seen(a, worker[a].id) => <<a, worker[a].id>> \in (got \cup lost \cup Held(a))'
        BY Zenon, <1>4, <1>5 DEF Seen
      <4> QED BY <4>1, <4>2, <4>3
    <3> QED BY <3>1, <3>2
  <2>2. Taking'
    BY <1>4, <2>1 DEF Taking, Seen
  <2> QED BY <1>5, <2>2 DEF QueueInv
<1>6. CASE EnqueueUpdate(b, id)
  BY <1>5, <1>6, EnqueuedKeeps DEF TypeInv
<1>7. CASE ~EnqueueUpdate(b, id)
  <2>1. b \notin LongPolled
    BY <1>7, ConfigsAssumption DEF Dispatch, TypeInv, Typed, LongPolled, Forwarding
  <2>2. UNCHANGED <<heap, queueOf, client, lost>>
    BY <1>7 DEF Dispatch, queueVars
  <2> QED BY <1>5, <2>1, <2>2, StillKeeps DEF TypeInv
<1> QED BY <1>6, <1>7

\* A poll keeps the queues as they are ...
LEMMA PollKeeps ==
  ASSUME TypeInv, QueueInv, NEW b \in Bots, Poll(b)
  PROVE  QueueInv'
<1>1. /\ worker[b] = Idle /\ offset[b] <= Len(inbox[b])
      /\ Dispatch(b, b, offset[b], inbox[b][offset[b]])
      /\ UNCHANGED <<config, offset, got>>
  BY DEF Poll, telegram
<1>2. offset[b] \in Ids
  <2>1. offset[b] \in Nat \ {0}
    BY DEF TypeInv, Typed
  <2>2. Len(inbox[b]) \in Nat /\ Len(inbox[b]) < BridgeBase
    BY FewUpdates DEF TypeInv
  <2> QED BY <1>1, <2>1, <2>2, PipelineAssumption DEF Ids
<1> QED BY <1>1, <1>2, DispatchKeeps DEF Workers

\* ... and so does a bridge's message.
LEMMA IncomingKeeps ==
  ASSUME TypeInv, QueueInv, NEW x \in Bridges, HandleIncoming(x)
  PROVE  QueueInv'
<1>1. worker[x] = Idle /\ bridged < MaxBridged /\ UNCHANGED <<config, offset, got>>
  BY DEF HandleIncoming, telegram
<1>2. PICK text \in config.texts, reply \in {0} \cup BridgeBase .. BridgeBase + bridged - 1 :
          Dispatch(x, BotOf[x], BridgeBase + bridged,
                   [chat |-> x, msg |-> BridgeBase + bridged, text |-> text, reply |-> reply])
  BY DEF HandleIncoming
<1>3. x \in Workers /\ BotOf[x] \in Bots /\ x \notin Bots
  BY PipelineAssumption DEF Workers
<1>4. BridgeBase + bridged \in Ids /\ ~Real(BridgeBase + bridged)
  <2>1. bridged \in 0 .. MaxBridged
    BY DEF TypeInv, Typed
  <2>2. BridgeBase \in Nat /\ MaxBridged \in Nat /\ BridgeBase >= 1
    BY PipelineAssumption
  <2> QED BY <1>1, <2>1, <2>2 DEF Ids, Real
<1> QED BY <1>1, <1>2, <1>3, <1>4, DispatchKeeps

\* The offset moves past an update that was taken.
LEMMA ConfirmKeeps ==
  ASSUME TypeInv, QueueInv, NEW w \in Workers, Confirm(w)
  PROVE  QueueInv'
<1>1. /\ Busy(w) /\ worker' = [worker EXCEPT ![w] = Idle]
      /\ (w \in Bots /\ offset' = [offset EXCEPT ![w] = @ + 1]) \/ offset' = offset
  BY ConfirmIs
<1>2. UNCHANGED <<config, heap, queueOf, client, got, lost>>
  BY DEF Confirm, telegram, queueVars
<1>3. worker'[w] = Idle /\ \A v \in Workers \ {w} : worker'[v] = worker[v]
  BY <1>1 DEF TypeInv, Typed
<1>4. \A b \in Bots : Busy(b)' => Busy(b) /\ worker'[b].id = worker[b].id
  BY <1>3 DEF Busy, Workers
<1>5. CASE offset' = offset
  BY <1>2, <1>4, <1>5, WorkersKeep DEF TypeInv
<1>6. CASE w \in Bots /\ offset' = [offset EXCEPT ![w] = @ + 1]
  <2>1. \A b \in Bots : offset[b] \in Nat /\ offset'[b] \in Nat /\ offset[b] <= offset'[b]
        /\ offset'[b] = (IF b = w THEN offset[b] + 1 ELSE offset[b])
    BY <1>6 DEF TypeInv, Typed
  <2>2. LongPolled \subseteq Bots /\ LongPolled' = LongPolled
    BY <1>2, ConfigsAssumption DEF TypeInv, Typed, LongPolled
  <2>3. \A a : Content(a)' = Content(a)
    BY <1>2 DEF Content
  <2>4. \A a : Held(a)' = Held(a)
    BY <2>3 DEF Held
  <2>5. Shelf' /\ Requests' /\ Asked' /\ Parked' /\ Marked'
    <3>1. Shelf' /\ Requests'
      BY <1>2, <2>2 DEF QueueInv, Shelf, Requests
    <3>2. Asked' /\ Parked' /\ Marked'
      BY <1>2, <2>3 DEF QueueInv, Asked, Parked, Marked
    <3> QED BY <3>1, <3>2
  <2>6. InOrder'
    <3>1. ASSUME NEW b \in Bots
          PROVE  /\ Ascends(Content(b).updates)
                 /\ \A id \in Range(Content(b).updates) : Real(id) => id <= offset'[b]
      <4>1. /\ Ascends(Content(b).updates) /\ Sound(Content(b))
            /\ \A id \in Range(Content(b).updates) : Real(id) => id <= offset[b]
        BY ContentIs DEF QueueInv, InOrder
      <4>2. \A id \in Range(Content(b).updates) : id \in Int
        <5>1. Content(b).updates \in Seq(Ids)
          BY <4>1 DEF Sound, Queue
        <5> DEFINE u == Content(b).updates
        <5>2. \A i \in DOMAIN u : u[i] \in Ids
          <6> HIDE DEF u
          <6> QED BY <5>1 DEF u
        <5> HIDE DEF u
        <5> QED BY <5>2 DEF Range, Ids, u
      <4> QED BY <2>1, <4>1, <4>2
    <3> QED BY <2>3, <3>1 DEF InOrder
  <2>7. NothingLostSilently'
    <3>1. ASSUME NEW b \in LongPolled, NEW id \in 1 .. offset'[b] - 1
          PROVE  <<b, id>> \in got \cup lost \cup Held(b)
      <4>1. CASE id \in 1 .. offset[b] - 1
        BY <4>1 DEF QueueInv, NothingLostSilently
      <4>2. CASE id \notin 1 .. offset[b] - 1
        <5>1. b = w /\ id = offset[b]
          BY <2>1, <2>2, <3>1, <4>2
        <5>2. worker[b].id = offset[b]
          BY <1>1, <1>6, <5>1 DEF TypeInv, Assigned
        <5> QED BY <1>1, <5>1, <5>2 DEF QueueInv, Taking, Seen
      <4> QED BY <4>1, <4>2
    <3> QED BY <1>2, <2>2, <2>4, <3>1 DEF NothingLostSilently
  <2>8. Taking'
    <3>1. ASSUME NEW b \in LongPolled, Busy(b)'
          PROVE  <<b, worker'[b].id>> \in got \cup lost \cup Held(b)
      BY <1>4, <2>2, <3>1 DEF QueueInv, Taking, Seen
    <3> QED BY <1>2, <2>2, <2>4, <3>1 DEF Taking, Seen
  <2> QED BY <2>5, <2>6, <2>7, <2>8 DEF QueueInv
<1> QED BY <1>1, <1>5, <1>6

\* How a request at the queue n, which is q, goes on.
Answered(c, q, n, then, rec) ==
  /\ rec \in Calls /\ client' = [client EXCEPT ![c] = rec]
  /\ (rec.at = "idle") <=> (rec.q = 0)
  /\ rec.q # 0 => rec.q = n /\ then # "idle"
  /\ LET ids == Fetched(q, client[c].next, Limit) IN
       \/ rec.next = client[c].next /\ got' = got
       \/ /\ Max(ids) \in ids /\ rec.next = Max(ids) + 1
          /\ got' = got \cup {<<BotOfClient[c], id>> : id \in ids}

\* A queue holds updates that there are.
LEMMA SoundRange ==
  ASSUME NEW q, Sound(q)
  PROVE  Range(q.updates) \subseteq Ids
<1> DEFINE u == q.updates
<1>1. u \in Seq(Ids)
  BY DEF Sound, Queue
<1> HIDE DEF u
<1>2. \A i \in DOMAIN u : u[i] \in Ids
  BY <1>1
<1> QED BY <1>2 DEF Range, u

\* What is purged was confirmed, or only the id of a bridge confirmed it.
LEMMA GetIs ==
  ASSUME Requests, NEW c \in Clients, NEW n \in Nat \ {0}, NEW h, NEW then \in {"looked", "idle"},
         Sound(h[n]), Get(c, n, h, then)
  PROVE  LET q == h[n] from == client[c].next b == BotOfClient[c] IN
         /\ heap' = [h EXCEPT ![n] = Purged(q, from)]
         /\ \E rec : Answered(c, q, n, then, rec)
         /\ got \subseteq got' /\ lost \subseteq lost'
         /\ ~Real(from - 1) => \A x \in Range(q.updates) :
              x \in Range(Purged(q, from).updates) \/ <<b, x>> \in got' \cup lost'
<1> DEFINE q == h[n] from == client[c].next b == BotOfClient[c]
           ids == Fetched(q, from, Limit)
           purged == {<<b, id>> : id \in Range(q.updates) \ Range(Purged(q, from).updates)}
<1>1. client \in [Clients -> Calls] /\ client[c] \in Calls /\ from \in Nat
  BY DEF Requests, Calls
<1>2. /\ heap' = [h EXCEPT ![n] = Purged(q, from)]
      /\ lost' = (IF Real(from - 1) THEN lost ELSE lost \cup (purged \ got))
  BY DEF Get
<1>3. \/ /\ client' = [client EXCEPT ![c].at = then, ![c].q = IF then = "idle" THEN 0 ELSE n]
         /\ got' = got
      \/ /\ ids # {} /\ client' = [client EXCEPT ![c] = [at |-> "idle", next |-> Max(ids) + 1, q |-> 0]]
         /\ got' = got \cup {<<b, id>> : id \in ids}
      \/ /\ client' = [client EXCEPT ![c].at = "idle", ![c].q = 0]
         /\ got' = got
  BY DEF Get
<1>4. ASSUME NEW at \in {"looked", "idle"}, NEW m \in {0, n}, (at = "idle") <=> (m = 0),
             m # 0 => then # "idle",
             client' = [client EXCEPT ![c].at = at, ![c].q = m], got' = got
      PROVE  \E rec : Answered(c, q, n, then, rec)
  <2> DEFINE rec == [client[c] EXCEPT !.at = at, !.q = m]
  <2>0. m \in Nat /\ at \in {"idle", "looked", "waiting", "woken"}
    OBVIOUS
  <2>1. rec \in Calls /\ rec.at = at /\ rec.q = m /\ rec.next = from
    BY <1>1, <2>0 DEF Calls
  <2>2. client' = [client EXCEPT ![c] = rec]
    BY <1>1, <1>4 DEF Calls
  <2> HIDE DEF rec
  <2>3. Answered(c, q, n, then, rec)
    BY <1>4, <2>1, <2>2 DEF Answered
  <2> QED BY <2>3
<1>5. ids # {} => Max(ids) \in ids /\ Max(ids) \in Ids
  <2>1. ids \subseteq Range(q.updates)
    BY <1>1, PipelineAssumption, FetchedIs
  <2>2. Range(q.updates) \subseteq Ids
    BY SoundRange
  <2>3. Ids \subseteq 0 .. BridgeBase + MaxBridged /\ BridgeBase + MaxBridged \in Nat
    BY PipelineAssumption DEF Ids
  <2> HIDE DEF ids
  <2>4. ids \subseteq Ids /\ ids \in SUBSET (0 .. BridgeBase + MaxBridged)
    BY <2>1, <2>2, <2>3
  <2>5. ids # {} => Max(ids) \in ids
    BY <2>3, <2>4, MaxIn
  <2> QED BY <2>4, <2>5
<1>6. ASSUME ids # {}, got' = got \cup {<<b, id>> : id \in ids},
             client' = [client EXCEPT ![c] = [at |-> "idle", next |-> Max(ids) + 1, q |-> 0]]
      PROVE  \E rec : Answered(c, q, n, then, rec)
  <2> DEFINE rec == [at |-> "idle", next |-> Max(ids) + 1, q |-> 0]
  <2>1. Max(ids) + 1 \in Nat
    BY <1>5, <1>6, PipelineAssumption DEF Ids
  <2>2. rec \in Calls /\ rec.at = "idle" /\ rec.q = 0 /\ rec.next = Max(ids) + 1
    BY <2>1 DEF Calls
  <2>3. client' = [client EXCEPT ![c] = rec]
    BY <1>6
  <2> HIDE DEF rec
  <2>4. Answered(c, q, n, then, rec)
    BY <1>5, <1>6, <2>2, <2>3 DEF Answered
  <2> QED BY <2>4
<1>7. \E rec : Answered(c, q, n, then, rec)
  <2>1. CASE ids # {} /\ got' = got \cup {<<b, id>> : id \in ids}
             /\ client' = [client EXCEPT ![c] = [at |-> "idle", next |-> Max(ids) + 1, q |-> 0]]
    BY <1>6, <2>1
  <2>2. CASE client' = [client EXCEPT ![c].at = "idle", ![c].q = 0] /\ got' = got
    BY <1>4, <2>2
  <2>3. CASE got' = got /\ client' = [client EXCEPT ![c].at = then,
                                                    ![c].q = IF then = "idle" THEN 0 ELSE n]
    <3>1. CASE then = "idle"
      <4>1. client' = [client EXCEPT ![c].at = "idle", ![c].q = 0]
        BY <2>3, <3>1
      <4> QED BY <1>4, <2>3, <4>1
    <3>2. CASE then = "looked"
      <4>1. client' = [client EXCEPT ![c].at = "looked", ![c].q = n] /\ n # 0
        BY <2>3, <3>2
      <4> QED BY <1>4, <2>3, <3>2, <4>1
    <3> QED BY <3>1, <3>2
  <2> QED BY <1>3, <2>1, <2>2, <2>3
<1>8. got \subseteq got' /\ lost \subseteq lost'
  BY <1>2, <1>3
<1>9. ~Real(from - 1) => \A x \in Range(q.updates) :
        x \in Range(Purged(q, from).updates) \/ <<b, x>> \in got' \cup lost'
  BY <1>2, <1>8
<1> QED BY <1>2, <1>7, <1>8, <1>9

\* A request that was answered knows what it confirms, and its queue.
LEMMA AnsweredKeeps ==
  ASSUME Shelf', Requests, NEW c \in Clients, BotOfClient[c] \in LongPolled, LongPolled' = LongPolled,
         NEW q, NEW n \in 1 .. Len(heap'), NEW then, NEW rec, Answered(c, q, n, then, rec),
         \A d \in Clients : StillStanding(d),
         Known(got' \cup lost', BotOfClient[c], rec.next),
         then # "idle" => n = queueOf'[BotOfClient[c]]
  PROVE  Requests' /\ Asked' /\ Parked'
<1>1. client \in [Clients -> Calls] /\ Len(heap') \in Nat /\ n \in 0 .. Len(heap')
  <2>1. Len(heap') \in Nat
    BY DEF Shelf
  <2> QED BY <2>1 DEF Requests
<1>2. /\ rec \in Calls /\ client' = [client EXCEPT ![c] = rec]
      /\ (rec.at = "idle") <=> (rec.q = 0)
      /\ rec.q # 0 => rec.q = n /\ then # "idle"
  BY DEF Answered
<1>3. client'[c] = rec /\ client' \in [Clients -> Calls]
      /\ \A d \in Clients \ {c} : client'[d] = client[d]
  BY <1>1, <1>2
<1>4. 0 \in 0 .. Len(heap')
  BY <1>1
<1>5. \A d \in Clients \ {c} : client[d].q # 0 => client[d].q \in 0 .. Len(heap')
  BY DEF StillStanding
<1>6. Requests'
  <2>1. ASSUME NEW d \in Clients
        PROVE  /\ client'[d].q \in 0 .. Len(heap')
               /\ (client'[d].at = "idle") <=> (client'[d].q = 0)
               /\ client'[d].q # 0 => BotOfClient[d] \in LongPolled
    <3>1. CASE d = c
      BY <1>1, <1>2, <1>3, <1>4, <3>1
    <3>2. CASE d # c
      BY <1>3, <1>4, <1>5, <3>2 DEF Requests
    <3> QED BY <3>1, <3>2
  <2> QED BY <1>3, <2>1 DEF Requests
<1>7. Asked'
  <2>1. ASSUME NEW d \in Clients
        PROVE  Known(got' \cup lost', BotOfClient[d], client'[d].next)
    BY <1>3 DEF StillStanding
  <2> QED BY <2>1 DEF Asked
<1>8. Parked'
  <2>1. ASSUME NEW d \in Clients, client'[d].q # 0
        PROVE  \/ client'[d].q = queueOf'[BotOfClient[d]]
               \/ Dropped(got' \cup lost', queueOf', heap', BotOfClient[d], client'[d].q)
    <3>1. CASE d = c
      BY <1>2, <1>3, <2>1, <3>1
    <3>2. CASE d # c
      BY <1>3, <2>1, <3>2 DEF StillStanding
    <3> QED BY <3>1, <3>2
  <2> QED BY <2>1 DEF Parked
<1> QED BY <1>6, <1>7, <1>8

\* What is left to show of a step of a backend.
FetchKept == Shelf' /\ Requests' /\ InOrder' /\ NothingLostSilently' /\ Asked' /\ Marked' /\ Parked'
             /\ \A a \in Bots : \A x : Seen(a, x) => Seen(a, x)'

\* A backend fetches from the queue of its bot: the offset that it asks from the
\* next time confirms only what it got, or what was known before.
LEMMA FetchKeeps ==
  ASSUME TypeInv, QueueInv, NEW c \in Clients, BotOfClient[c] \in LongPolled,
         UNCHANGED <<config, offset>>, NEW n \in Nat \ {0}, NEW h, NEW then \in {"looked", "idle"},
         h[n] = Content(BotOfClient[c]), Get(c, n, h, then),
         Linked(BotOfClient[c], Purged(h[n], client[c].next)), n = queueOf'[BotOfClient[c]]
  PROVE  FetchKept
<1> DEFINE b == BotOfClient[c] q == h[n] from == client[c].next p == Purged(q, from)
           ss == got \cup lost tt == got' \cup lost' ids == Fetched(q, from, Limit)
<1>0. Shelf /\ Requests /\ InOrder /\ NothingLostSilently /\ Asked /\ Marked /\ Parked
  BY DEF QueueInv
<1>1. b \in Bots /\ from \in Nat /\ Limit \in Nat /\ LongPolled' = LongPolled
  BY <1>0, PipelineAssumption DEF Requests, Calls, LongPolled
<1>2. Sound(q) /\ Ascends(q.updates) /\ \A id \in Range(q.updates) : Real(id) => id <= offset[b]
  BY <1>0, <1>1, ContentIs DEF InOrder
<1>3. /\ \E rec : Answered(c, q, n, then, rec)
      /\ got \subseteq got' /\ lost \subseteq lost'
      /\ ~Real(from - 1) => \A x \in Range(q.updates) : x \in Range(p.updates) \/ <<b, x>> \in tt
  BY <1>0, <1>2, GetIs
<1>4. PICK rec : Answered(c, q, n, then, rec)
  BY <1>3
<1>5. /\ Sound(p) /\ p.confirmed \in {from, q.confirmed}
      /\ Range(p.updates) \subseteq Range(q.updates)
      /\ \A x \in Range(q.updates) : x \in Range(p.updates) \/ x < from
      /\ Ascends(p.updates)
  BY <1>1, <1>2, PurgedIs
<1>6. Range(q.updates) \subseteq Ids
  BY <1>2, SoundRange
<1>7. Known(ss, b, from) /\ Known(ss, b, q.confirmed) /\ ss \subseteq tt
  BY <1>0, <1>1, <1>3 DEF Asked, Marked
<1>8. \A x \in Range(q.updates) : x \in Range(p.updates) \/ <<b, x>> \in tt
  <2>1. ASSUME Real(from - 1), NEW x \in Range(q.updates), x \notin Range(p.updates)
        PROVE  <<b, x>> \in tt
    <3>1. x < from
      BY <1>5, <2>1
    <3>2. x \in 1 .. from - 1
      BY <1>1, <1>6, <2>1, <3>1 DEF Ids
    <3> QED BY <1>7, <2>1, <3>2 DEF Known
  <2> QED BY <1>3, <2>1
<1>9. Known(tt, b, p.confirmed)
  BY <1>5, <1>7, KnownStays
<1> HIDE DEF p, q, from
<1>10. Content(b) = q
  BY DEF q
<1>11. /\ Shelf' /\ InOrder' /\ NothingLostSilently' /\ Marked'
       /\ \A a \in Bots : \A x : Seen(a, x) => Seen(a, x)'
       /\ \A d \in Clients : StillStanding(d)
  <2>1. Linked(b, p)
    BY DEF p, q, from
  <2>2. \A x \in Range(p.updates) : Real(x) => x <= offset[b]
    BY <1>2, <1>5
  <2> HIDE DEF b
  <2> QED BY <1>1, <1>3, <1>5, <1>8, <1>9, <1>10, <2>1, <2>2, LinkedKeeps DEF TypeInv
<1>12. Known(tt, b, rec.next)
  <2>1. CASE rec.next = from
    BY <1>7, <2>1, KnownStays
  <2>2. CASE rec.next # from
    <3>1. Max(ids) \in ids /\ rec.next = Max(ids) + 1 /\ got' = got \cup {<<b, id>> : id \in ids}
      BY <1>4, <2>2 DEF Answered, from, q
    <3>2. /\ ids \subseteq Range(q.updates) /\ \A x \in ids : x >= from
          /\ \A x \in ids, y \in Range(q.updates) :
               (Real(x) /\ from <= y /\ y <= x) => y \in ids
      BY <1>1, <1>2, FetchedIs
    <3> DEFINE m == Max(ids)
    <3>3. m \in ids /\ m \in Ids /\ m >= from /\ (m + 1) - 1 = m
      BY <1>6, <3>1, <3>2 DEF Ids
    <3> HIDE DEF m, ids
    <3>4. ASSUME Real(m), NEW i \in 1 .. m
          PROVE  <<b, i>> \in tt
      <4>1. m <= offset[b] /\ i \in Int /\ m \in Int /\ offset[b] \in Int /\ from \in Int
        BY <1>1, <1>2, <3>2, <3>3, <3>4 DEF Ids, TypeInv, Typed
      <4>2. CASE i \in ids
        BY <3>1, <4>2
      <4>3. CASE i < from
        <5>1. i \in 1 .. from - 1
          BY <3>4, <4>1, <4>3
        <5>2. Real(from - 1)
          BY <3>3, <3>4, <4>1, PipelineAssumption DEF Real
        <5> QED BY <1>7, <5>1, <5>2 DEF Known
      <4>4. CASE i \notin ids /\ from <= i
        <5>1. i \notin Range(q.updates)
          BY <3>2, <3>3, <3>4, <4>1, <4>4
        <5>2. i # m
          BY <3>3, <4>4
        <5>3. i \in 1 .. offset[b] - 1
          BY <3>4, <4>1, <5>2
        <5>4. <<b, i>> \in ss \cup Held(b)
          BY <1>0, <5>3 DEF NothingLostSilently
        <5>5. <<b, i>> \notin Held(b)
          BY <1>10, <5>1 DEF Held
        <5> QED BY <1>7, <5>4, <5>5
      <4> QED BY <4>1, <4>2, <4>3, <4>4
    <3>5. rec.next - 1 = m
      BY <3>1, <3>3 DEF m
    <3> QED BY <3>4, <3>5 DEF Known
  <2> QED BY <2>1, <2>2
<1>13. n \in 1 .. Len(heap')
  <2>1. n \in 0 .. Len(heap')
    BY <1>1, <1>11 DEF Shelf
  <2> QED BY <2>1
<1>14. Requests' /\ Asked' /\ Parked'
  BY <1>0, <1>1, <1>4, <1>11, <1>12, <1>13, AnsweredKeeps
<1> QED BY <1>11, <1>14 DEF FetchKept

\* A backend fetches from a queue that was dropped meanwhile.
LEMMA FetchDroppedKeeps ==
  ASSUME TypeInv, QueueInv, NEW c \in Clients, UNCHANGED <<config, offset, queueOf>>,
         NEW n, n = client[c].q, n # 0, Get(c, n, heap, "idle"),
         Dropped(got \cup lost, queueOf, heap, BotOfClient[c], n)
  PROVE  FetchKept
<1> DEFINE b == BotOfClient[c] q == heap[n] from == client[c].next p == Purged(q, from)
           ss == got \cup lost tt == got' \cup lost' ids == Fetched(q, from, Limit)
<1>0. Shelf /\ Requests /\ InOrder /\ NothingLostSilently /\ Asked /\ Marked /\ Parked
  BY DEF QueueInv
<1>1. /\ b \in Bots /\ from \in Nat /\ Limit \in Nat /\ LongPolled' = LongPolled
      /\ b \in LongPolled
  BY <1>0, PipelineAssumption DEF Requests, Calls, LongPolled
<1>2. heap \in Seq(Queue(Ids)) /\ n \in 1 .. Len(heap) /\ n \in Nat \ {0} /\ Sound(q)
  BY <1>0 DEF Shelf, Requests
<1>3. /\ \E rec : Answered(c, q, n, "idle", rec)
      /\ got \subseteq got' /\ lost \subseteq lost'
      /\ heap' = [heap EXCEPT ![n] = p]
  BY <1>0, <1>2, GetIs
<1>4. PICK rec : Answered(c, q, n, "idle", rec)
  BY <1>3
<1>5. Sound(p) /\ p \in Queue(Ids) /\ Range(p.updates) \subseteq Range(q.updates)
  BY <1>1, <1>2, PurgedIs DEF Sound
<1>6. Range(q.updates) \subseteq Ids
  BY <1>2, SoundRange
<1>7. Known(ss, b, from) /\ ss \subseteq tt
  BY <1>0, <1>1, <1>3 DEF Asked
<1>8. /\ \A a \in Bots : queueOf[a] # n
      /\ \A id \in Range(q.updates) : Real(id) => \A i \in 1 .. id : <<b, i>> \in ss
  BY DEF Dropped
<1> HIDE DEF p
<1>9. /\ heap' \in Seq(Queue(Ids)) /\ Len(heap') = Len(heap)
      /\ heap'[n] = p /\ \A m \in DOMAIN heap \ {n} : heap'[m] = heap[m]
      /\ DOMAIN heap' = DOMAIN heap
  BY <1>2, <1>3, <1>5
<1>10. Shelf'
  BY <1>0, <1>5, <1>9 DEF Shelf
<1>11. \A a \in Bots : Content(a)' = Content(a)
  <2>1. TAKE a \in Bots
  <2>2. CASE queueOf[a] = 0
    BY <2>2 DEF Content
  <2>3. CASE queueOf[a] # 0
    <3>1. queueOf[a] \in DOMAIN heap \ {n}
      BY <1>0, <1>8, <2>3, ContentIs
    <3> QED BY <1>9, <2>3, <3>1 DEF Content
  <2> QED BY <2>2, <2>3
<1>12. InOrder' /\ Marked'
  <2>1. InOrder'
    BY <1>0, <1>11 DEF InOrder
  <2>2. \A a \in Bots : Known(tt, a, Content(a).confirmed)
    BY <1>0, <1>7, KnownStays DEF Marked
  <2>3. Marked'
    BY <1>11, <2>2 DEF Marked
  <2> QED BY <2>1, <2>3
<1>13. \A a \in Bots : Held(a)' = Held(a)
  BY <1>11 DEF Held
<1>14. \A a \in Bots : \A x : Seen(a, x) => Seen(a, x)'
  BY <1>3, <1>13 DEF Seen
<1>15. NothingLostSilently'
  <2>1. LongPolled \subseteq Bots
    BY ConfigsAssumption DEF TypeInv, Typed, LongPolled
  <2>2. \A a \in LongPolled : \A id \in 1 .. offset[a] - 1 : Seen(a, id)
    BY <1>0 DEF NothingLostSilently, Seen
  <2>3. \A a \in LongPolled : \A id \in 1 .. offset[a] - 1 : Seen(a, id)'
    BY Zenon, <1>14, <2>1, <2>2
  <2> QED BY <1>1, <2>3 DEF NothingLostSilently, Seen
<1>16. ASSUME NEW d \in Clients
       PROVE  StillStanding(d)
  <2> DEFINE a == BotOfClient[d] m == client[d].q
  <2>1. a \in Bots /\ m \in 0 .. Len(heap)
    BY <1>0, PipelineAssumption DEF Requests
  <2>2. Known(tt, a, client[d].next)
    BY <1>0, <1>7, KnownStays DEF Asked
  <2>3. ASSUME m # 0
        PROVE  m = queueOf'[a] \/ Dropped(tt, queueOf', heap', a, m)
    <3>1. m \in DOMAIN heap
      BY <1>2, <2>1, <2>3
    <3>2. m = queueOf[a] \/ Dropped(ss, queueOf, heap, a, m)
      BY <1>0, <2>3 DEF Parked
    <3>3. Range(heap'[m].updates) \subseteq Range(heap[m].updates)
      BY <1>5, <1>9, <3>1
    <3>4. ASSUME Dropped(ss, queueOf, heap, a, m)
          PROVE  Dropped(tt, queueOf', heap', a, m)
      <4>1. \A x \in Bots : queueOf'[x] # m
        BY <3>4 DEF Dropped
      <4> HIDE DEF a, m
      <4> QED BY <1>7, <3>3, <3>4, <4>1, DroppedStays
    <3> QED BY <3>2, <3>4
  <2>4. m \in 0 .. Len(heap')
    BY <1>9, <2>1
  <2> QED BY <2>2, <2>3, <2>4 DEF StillStanding
<1>17. Known(tt, b, rec.next)
  <2>1. CASE rec.next = from
    BY <1>7, <2>1, KnownStays
  <2>2. CASE rec.next # from
    <3>1. Max(ids) \in ids /\ rec.next = Max(ids) + 1
      BY <1>4, <2>2 DEF Answered
    <3>2. ids \subseteq Range(q.updates)
      BY <1>1, <1>2, FetchedIs
    <3> DEFINE m == Max(ids)
    <3>3. m \in Range(q.updates) /\ m \in Int
      BY <1>6, <3>1, <3>2 DEF Ids
    <3>4. rec.next - 1 = m
      BY <3>1, <3>3
    <3> HIDE DEF m, ids
    <3>5. Real(m) => \A i \in 1 .. m : <<b, i>> \in tt
      BY <1>7, <1>8, <3>3
    <3> QED BY <3>4, <3>5 DEF Known
  <2> QED BY <2>1, <2>2
<1>18. n \in 1 .. Len(heap')
  BY <1>2, <1>9
<1>19. Requests' /\ Asked' /\ Parked'
  BY <1>0, <1>1, <1>4, <1>10, <1>16, <1>17, <1>18, AnsweredKeeps
<1> QED BY <1>10, <1>12, <1>14, <1>15, <1>19 DEF FetchKept

\* A request comes in, waits, is answered, or ends.
LEMMA AskKeeps ==
  ASSUME TypeInv, QueueInv, NEW c \in Clients, Ask(c)
  PROVE  FetchKept
<1> DEFINE b == BotOfClient[c] n == IF queueOf[b] = 0 THEN Len(heap) + 1 ELSE queueOf[b]
           h == IF queueOf[b] = 0 THEN Append(heap, NewUpdateQueue) ELSE heap
           p == Purged(h[n], client[c].next)
<1>1. /\ b \in LongPolled /\ queueOf' = [queueOf EXCEPT ![b] = n]
      /\ UNCHANGED <<config, offset>>
      /\ \E then \in {"looked", "idle"} : Get(c, n, h, then)
  BY DEF Ask, Elsewhere, telegram
<1>2. PICK then \in {"looked", "idle"} : Get(c, n, h, then)
  BY <1>1
<1>3. b \in Bots /\ Shelf /\ client[c].next \in Nat
  BY PipelineAssumption DEF QueueInv, Requests, Calls
<1>4. heap \in Seq(Queue(Ids)) /\ Len(heap) \in Nat /\ DOMAIN heap = 1 .. Len(heap)
      /\ queueOf \in [Bots -> 0 .. Len(heap)]
  BY <1>3 DEF Shelf
<1>5. NewUpdateQueue \in Queue(Ids)
  BY <1>3, ContentIs
<1>6. /\ n \in Nat \ {0} /\ h[n] = Content(b) /\ DOMAIN h = DOMAIN heap \cup {n}
      /\ \A i \in DOMAIN heap : h[i] = heap[i]
  <2>1. CASE queueOf[b] = 0
    <3>1. /\ h = Append(heap, NewUpdateQueue) /\ n = Len(heap) + 1
          /\ Content(b) = NewUpdateQueue
      BY <2>1 DEF Content
    <3> HIDE DEF h, n
    <3>2. /\ DOMAIN h = 1 .. Len(heap) + 1 /\ h[Len(heap) + 1] = NewUpdateQueue
          /\ \A i \in 1 .. Len(heap) : h[i] = heap[i]
      BY <1>4, <1>5, <3>1
    <3>3. 1 .. Len(heap) + 1 = (1 .. Len(heap)) \cup {Len(heap) + 1} /\ Len(heap) + 1 \in Nat \ {0}
      BY <1>4
    <3> QED BY <1>4, <3>1, <3>2, <3>3
  <2>2. CASE queueOf[b] # 0
    <3>1. h = heap /\ n = queueOf[b] /\ n \in 1 .. Len(heap) /\ Content(b) = heap[n]
      BY <1>3, <1>4, <2>2 DEF Content
    <3> HIDE DEF h, n
    <3> QED BY <1>4, <3>1
  <2> QED BY <2>1, <2>2
<1>7. heap' = [h EXCEPT ![n] = p]
  BY <1>2 DEF Get
<1>8. Linked(b, p)
  <2>1. heap' = [i \in DOMAIN heap \cup {n} |-> IF i = n THEN p ELSE heap[i]]
    <3> HIDE DEF n, h, p
    <3>1. heap' = [i \in DOMAIN h |-> IF i = n THEN p ELSE h[i]]
      BY <1>7
    <3> QED BY <1>6, <3>1
  <2>2. n \in Nat /\ n = (IF queueOf[b] = 0 THEN Len(heap) + 1 ELSE queueOf[b])
    BY <1>6
  <2> HIDE DEF n, p
  <2> QED BY <1>1, <2>1, <2>2 DEF Linked
<1>9. n = queueOf'[b]
  <2> HIDE DEF n
  <2> QED BY <1>1, <1>3, <1>4
<1> HIDE DEF n, h
<1> QED BY <1>1, <1>2, <1>6, <1>8, <1>9, FetchKeeps

\* A long poll that wakes or times out fetches what the queue has.
LEMMA EndKeeps ==
  ASSUME TypeInv, QueueInv, NEW c \in Clients, Wake(c) \/ TimeOut(c)
  PROVE  FetchKept
<1> DEFINE b == BotOfClient[c] n == client[c].q p == Purged(heap[n], client[c].next)
<1>1. /\ UNCHANGED <<config, offset, queueOf>> /\ Get(c, n, heap, "idle")
      /\ client[c].at # "idle"
  BY DEF Wake, TimeOut, Elsewhere, telegram
<1>2. Shelf /\ Requests /\ Parked
  BY DEF QueueInv
<1>3. n # 0 /\ b \in LongPolled /\ b \in Bots /\ n \in 1 .. Len(heap)
  BY <1>1, <1>2, PipelineAssumption DEF Requests
<1>4. n = queueOf[b] \/ Dropped(got \cup lost, queueOf, heap, b, n)
  BY <1>2, <1>3 DEF Parked
<1>5. CASE n = queueOf[b]
  <2>1. heap \in Seq(Queue(Ids)) /\ DOMAIN heap = 1 .. Len(heap) /\ Len(heap) \in Nat
        /\ queueOf \in [Bots -> 0 .. Len(heap)]
    BY <1>2 DEF Shelf
  <2>2. heap' = [heap EXCEPT ![n] = p]
    BY <1>1 DEF Get
  <2>3. heap[n] = Content(b)
    BY <1>3, <1>5 DEF Content
  <2> HIDE DEF n, p
  <2>4. n \in Nat \ {0} /\ DOMAIN heap \cup {n} = DOMAIN heap
    BY <1>3, <2>1
  <2>5. heap' = [i \in DOMAIN heap \cup {n} |-> IF i = n THEN p ELSE heap[i]]
    BY <2>2, <2>4
  <2>6. queueOf' = [queueOf EXCEPT ![b] = n] /\ n = queueOf'[b]
    BY <1>1, <1>3, <1>5, <2>1
  <2>7. Linked(b, p)
    BY <1>3, <1>5, <2>4, <2>5, <2>6 DEF Linked
  <2> QED BY <1>1, <1>3, <2>3, <2>4, <2>6, <2>7, FetchKeeps DEF p
<1>6. CASE Dropped(got \cup lost, queueOf, heap, b, n)
  BY <1>1, <1>3, <1>6, FetchDroppedKeeps
<1> QED BY <1>4, <1>5, <1>6

\* After a fetch every poll loop has what it had.
LEMMA FetchKeptKeeps ==
  ASSUME TypeInv, QueueInv, FetchKept, UNCHANGED <<config, worker>>
  PROVE  QueueInv'
<1>1. LongPolled \subseteq Bots /\ LongPolled' = LongPolled
  BY ConfigsAssumption DEF TypeInv, Typed, LongPolled
<1>2. \A b \in LongPolled : Busy(b) => Seen(b, worker[b].id)
  BY DEF QueueInv, Taking
<1>3. \A b \in LongPolled : Busy(b) => <<b, worker[b].id>> \in (got \cup lost \cup Held(b))'
  <2>1. ASSUME NEW b \in LongPolled, Busy(b)
        PROVE  <<b, worker[b].id>> \in (got \cup lost \cup Held(b))'
    <3>1. \A x : Seen(b, x) => Seen(b, x)'
      BY <1>1 DEF FetchKept
    <3>2. \A x : <<b, x>> \in got \cup lost \cup Held(b) => <<b, x>> \in (got \cup lost \cup Held(b))'
      BY <3>1 DEF Seen
    <3>3. <<b, worker[b].id>> \in got \cup lost \cup Held(b)
      BY <1>2, <2>1 DEF Seen
    <3> QED BY Zenon, <3>2, <3>3
  <2> QED BY <2>1
<1>4. Taking'
  BY <1>1, <1>3 DEF Taking, Seen, Busy
<1> QED BY <1>4 DEF FetchKept, QueueInv

\* Waiting and disconnecting change only who waits.
LEMMA WaitKeeps ==
  ASSUME TypeInv, QueueInv, NEW c \in Clients, Wait(c) \/ Disconnect(c)
  PROVE  QueueInv'
<1>1. /\ UNCHANGED <<config, offset, heap, queueOf, worker, got, lost>> /\ client[c].at # "idle"
      /\ \/ client' = [client EXCEPT ![c].at = "waiting"]
         \/ client' = [client EXCEPT ![c].at = "idle", ![c].q = 0]
  BY DEF Wait, Disconnect, Elsewhere, telegram
<1>2. Shelf /\ Requests /\ Asked /\ Parked
  BY DEF QueueInv
<1>3. client \in [Clients -> Calls] /\ client[c] \in Calls /\ client[c].q # 0
  BY <1>1, <1>2 DEF Requests
<1>4. client' \in [Clients -> Calls] /\ \A d \in Clients \ {c} : client'[d] = client[d]
  BY <1>1, <1>3 DEF Calls
<1>5. /\ client'[c].next = client[c].next
      /\ \/ client'[c].at = "waiting" /\ client'[c].q = client[c].q
         \/ client'[c].at = "idle" /\ client'[c].q = 0
  BY <1>1, <1>3 DEF Calls
<1>6. LongPolled' = LongPolled /\ \A a : Content(a)' = Content(a)
  BY <1>1 DEF LongPolled, Content
<1>7. \A a : Held(a)' = Held(a)
  BY <1>6 DEF Held
<1>8. 0 \in 0 .. Len(heap)
  BY <1>2 DEF Shelf
<1>9. Requests'
  BY <1>1, <1>2, <1>3, <1>4, <1>5, <1>6, <1>8 DEF Requests
<1>10. Asked' /\ Parked'
  BY <1>1, <1>2, <1>4, <1>5 DEF Asked, Parked
<1>11. Shelf' /\ InOrder' /\ Marked'
  BY <1>1, <1>6 DEF QueueInv, Shelf, InOrder, Marked
<1>12. NothingLostSilently' /\ Taking'
  BY <1>1, <1>6, <1>7 DEF QueueInv, NothingLostSilently, Taking, Seen, Busy
<1> QED BY <1>9, <1>10, <1>11, <1>12 DEF QueueInv

\* A queue is dropped with what it holds.
LEMMA RemoveKeeps ==
  ASSUME TypeInv, QueueInv, NEW b \in Bots, RemoveUpdateQueue(b)
  PROVE  QueueInv'
<1> DEFINE ss == got \cup lost tt == got' \cup lost'
<1>1. /\ UNCHANGED <<config, offset, heap, client, worker, got>> /\ queueOf[b] # 0
      /\ queueOf' = [queueOf EXCEPT ![b] = 0] /\ lost' = lost \cup Held(b)
  BY DEF RemoveUpdateQueue, Elsewhere, telegram
<1>2. /\ Shelf /\ Requests /\ InOrder /\ Taking /\ NothingLostSilently /\ Asked /\ Marked /\ Parked
      /\ ss \subseteq tt
  BY <1>1 DEF QueueInv
<1>3. LongPolled \subseteq Bots /\ LongPolled' = LongPolled
  BY <1>1, ConfigsAssumption DEF TypeInv, Typed, LongPolled
<1>4. queueOf \in [Bots -> 0 .. Len(heap)] /\ 0 \in 0 .. Len(heap)
  BY <1>2 DEF Shelf
<1>5. queueOf'[b] = 0 /\ \A a \in Bots \ {b} : queueOf'[a] = queueOf[a]
  BY <1>1, <1>4
<1>6. Shelf'
  <2>1. queueOf' \in [Bots -> 0 .. Len(heap)]
    BY <1>1, <1>4
  <2>2. \A x, y \in Bots : (queueOf'[x] = queueOf'[y] /\ queueOf'[x] # 0) => x = y
    BY <1>2, <1>5 DEF Shelf
  <2> QED BY <1>1, <1>2, <2>1, <2>2 DEF Shelf
<1>7. Requests'
  BY <1>1, <1>2, <1>3 DEF Requests
<1>8. Content(b)' = NewUpdateQueue /\ \A a \in Bots \ {b} : Content(a)' = Content(a)
  BY <1>1, <1>5 DEF Content
<1>9. InOrder'
  <2>1. Range(NewUpdateQueue.updates) = {} /\ Ascends(NewUpdateQueue.updates)
    BY <1>2, ContentIs
  <2>2. ASSUME NEW a \in Bots
        PROVE  /\ Ascends(Content(a)'.updates)
               /\ \A id \in Range(Content(a)'.updates) : Real(id) => id <= offset[a]
    BY <1>2, <1>8, <2>1 DEF InOrder
  <2> QED BY <1>1, <2>2 DEF InOrder
<1>10. \A a \in Bots : \A x : Seen(a, x) => Seen(a, x)'
  <2>1. ASSUME NEW a \in Bots, NEW x, Seen(a, x)
        PROVE  Seen(a, x)'
    <3>1. CASE a = b
      BY <1>1, <2>1, <3>1 DEF Seen
    <3>2. CASE a # b
      <4>1. Held(a)' = Held(a)
        BY <1>8, <3>2 DEF Held
      <4> QED BY <1>1, <2>1, <4>1 DEF Seen
    <3> QED BY <3>1, <3>2
  <2> QED BY <2>1
<1>11. NothingLostSilently'
  <2>1. \A a \in LongPolled : \A id \in 1 .. offset[a] - 1 : Seen(a, id)
    BY <1>2 DEF NothingLostSilently, Seen
  <2>2. \A a \in LongPolled : \A id \in 1 .. offset[a] - 1 : Seen(a, id)'
    BY Zenon, <1>3, <1>10, <2>1
  <2> QED BY <1>1, <1>3, <2>2 DEF NothingLostSilently, Seen
<1>12. Asked'
  BY <1>1, <1>2, KnownStays DEF Asked
<1>13. Marked'
  <2>1. ASSUME NEW a \in Bots
        PROVE  Known(tt, a, Content(a)'.confirmed)
    <3>1. CASE a = b
      <4>1. Content(a)'.confirmed = 0
        BY <1>8, <3>1 DEF NewUpdateQueue
      <4>2. 1 .. 0 - 1 = {}
        OBVIOUS
      <4> QED BY <4>1, <4>2 DEF Known
    <3>2. CASE a # b
      <4>1. Known(ss, a, Content(a).confirmed)
        BY <1>2 DEF Marked
      <4>2. Known(tt, a, Content(a).confirmed)
        BY <1>2, <4>1, KnownStays
      <4> QED BY <1>8, <3>2, <4>2
    <3> QED BY <3>1, <3>2
  <2> QED BY <2>1 DEF Marked
<1>14. Parked'
  <2>1. ASSUME NEW c \in Clients, client[c].q # 0
        PROVE  \/ client[c].q = queueOf'[BotOfClient[c]]
               \/ Dropped(tt, queueOf', heap, BotOfClient[c], client[c].q)
    <3> DEFINE a == BotOfClient[c] m == client[c].q
    <3>1. a \in Bots /\ a \in LongPolled
      BY <1>2, <2>1, PipelineAssumption DEF Requests
    <3>2. m = queueOf[a] \/ Dropped(ss, queueOf, heap, a, m)
      BY <1>2, <2>1 DEF Parked
    <3>3. CASE Dropped(ss, queueOf, heap, a, m)
      <4>1. \A x \in Bots : queueOf'[x] # m
        BY <1>5, <2>1, <3>3 DEF Dropped
      <4> HIDE DEF a, m
      <4>2. Dropped(tt, queueOf', heap, a, m)
        BY <1>2, <3>3, <4>1, DroppedStays
      <4> QED BY <4>2 DEF a, m
    <3>4. CASE m = queueOf[a] /\ a # b
      BY <1>5, <3>1, <3>4
    <3>5. CASE m = queueOf[a] /\ a = b
      <4>1. \A x \in Bots : queueOf'[x] # m
        BY <1>2, <1>5, <2>1, <3>5 DEF Shelf
      <4>2. Content(b) = heap[m] /\ Sound(heap[m])
        BY <1>1, <1>2, <3>5, ContentIs
      <4>3. ASSUME NEW id \in Range(heap[m].updates), Real(id), NEW i \in 1 .. id
            PROVE  <<a, i>> \in tt
        <5>1. id \in Ids /\ id <= offset[b]
          BY <1>2, <4>2, <4>3, SoundRange DEF InOrder
        <5>2. offset[b] \in Nat /\ id \in Int /\ i \in Int
          BY <4>3, <5>1 DEF TypeInv, Typed, Ids
        <5>3. CASE i = id
          <6>1. <<b, i>> \in Held(b)
            BY <4>2, <4>3, <5>3 DEF Held
          <6> QED BY <1>1, <3>5, <6>1
        <5>4. CASE i # id
          <6>1. i \in 1 .. offset[b] - 1
            BY <4>3, <5>1, <5>2, <5>4
          <6>2. <<b, i>> \in got \cup lost \cup Held(b)
            BY <1>2, <3>1, <3>5, <6>1 DEF NothingLostSilently
          <6> QED BY <1>1, <3>5, <6>2
        <5> QED BY <5>3, <5>4
      <4> HIDE DEF a, m
      <4>4. Dropped(tt, queueOf', heap, a, m)
        BY <4>1, <4>3 DEF Dropped
      <4> QED BY <4>4 DEF a, m
    <3> QED BY <3>2, <3>3, <3>4, <3>5
  <2> QED BY <1>1, <2>1 DEF Parked
<1>15. Taking'
  <2>1. ASSUME NEW a \in LongPolled, Busy(a)
        PROVE  <<a, worker[a].id>> \in (got \cup lost \cup Held(a))'
    <3>1. \A x : Seen(a, x) => Seen(a, x)'
      BY <1>3, <1>10
    <3>2. \A x : <<a, x>> \in got \cup lost \cup Held(a) => <<a, x>> \in (got \cup lost \cup Held(a))'
      BY <3>1 DEF Seen
    <3>3. <<a, worker[a].id>> \in got \cup lost \cup Held(a)
      BY <1>2, <2>1 DEF Taking, Seen
    <3> QED BY Zenon, <3>2, <3>3
  <2> QED BY <1>1, <1>3, <2>1 DEF Taking, Seen, Busy
<1> QED BY <1>6, <1>7, <1>9, <1>11, <1>12, <1>13, <1>14, <1>15 DEF QueueInv

\* A crash takes all queues with it.
LEMMA CrashKeeps ==
  ASSUME TypeInv, QueueInv, Crash
  PROVE  QueueInv'
<1>1. /\ worker' = [w \in Workers |-> Idle] /\ UNCHANGED <<config, offset>>
  BY CrashIs DEF TypeInv
<1>2. /\ heap' = <<>> /\ queueOf' = [b \in Bots |-> 0] /\ got' = got
      /\ client' = [c \in Clients |-> [client[c] EXCEPT !.at = "idle", !.q = 0]]
  BY Zenon DEF Crash
<1>3. lost' = lost \cup UNION {Held(b) : b \in Bots}
  BY Zenon DEF Crash
<1>4. \A b \in Bots : Held(b) \subseteq lost'
  BY Zenon, <1>3
<1>5. lost \subseteq lost'
  BY Zenon, <1>3
<1>6. Shelf /\ Requests /\ NothingLostSilently /\ Asked
  BY DEF QueueInv
<1>7. LongPolled \subseteq Bots /\ LongPolled' = LongPolled
  BY <1>1, ConfigsAssumption DEF TypeInv, Typed, LongPolled
<1>8. Shelf' /\ Len(heap') = 0
  <2>0. heap' = <<>> /\ queueOf' = [b \in Bots |-> 0]
    BY Zenon, <1>2
  <2>1. heap' \in Seq(Queue(Ids)) /\ Len(heap') = 0 /\ DOMAIN heap' = {}
    BY <2>0
  <2>2. queueOf' \in [Bots -> {0}] /\ 0 .. 0 = {0} /\ \A b \in Bots : queueOf'[b] = 0
    BY <2>0
  <2> QED BY <2>1, <2>2 DEF Shelf
<1>9. \A c \in Clients : /\ client'[c] \in Calls /\ client'[c].at = "idle" /\ client'[c].q = 0
                         /\ client'[c].next = client[c].next
  <2>1. TAKE c \in Clients
  <2>2. client[c] \in Calls
    BY <1>6 DEF Requests
  <2> QED BY <1>2, <2>2 DEF Calls
<1>10. Requests'
  <2>1. client' \in [Clients -> Calls]
    BY <1>2, <1>9
  <2>2. 0 \in 0 .. Len(heap')
    BY <1>8
  <2> QED BY <1>9, <2>1, <2>2 DEF Requests
<1>11. \A b \in Bots : Content(b)' = NewUpdateQueue
  BY <1>2 DEF Content
<1>12. \A b \in Bots : Ascends(NewUpdateQueue.updates) /\ Range(NewUpdateQueue.updates) = {}
  BY <1>6, ContentIs
<1>13. InOrder'
  <2>1. ASSUME NEW b \in Bots
        PROVE  /\ Ascends(Content(b)'.updates)
               /\ \A id \in Range(Content(b)'.updates) : Real(id) => id <= offset[b]
    BY <1>11, <1>12
  <2> QED BY <1>1, <2>1 DEF InOrder
<1>14. Marked'
  <2>1. ASSUME NEW b \in Bots
        PROVE  Known(got' \cup lost', b, Content(b)'.confirmed)
    <3>1. Content(b)'.confirmed = 0
      BY <1>11 DEF NewUpdateQueue
    <3>2. 1 .. 0 - 1 = {}
      OBVIOUS
    <3> QED BY <3>1, <3>2 DEF Known
  <2> QED BY <2>1 DEF Marked
<1>15. Asked' /\ Parked'
  <2>1. got \cup lost \subseteq got' \cup lost'
    BY <1>2, <1>5
  <2>2. ASSUME NEW c \in Clients
        PROVE  Known(got' \cup lost', BotOfClient[c], client'[c].next)
    BY <1>6, <1>9, <2>1, KnownStays DEF Asked
  <2>3. Asked'
    BY <2>2 DEF Asked
  <2> QED BY <1>9, <2>3 DEF Parked
<1>16. Taking'
  BY <1>1, <1>7 DEF Taking, Busy, Workers
<1>17. NothingLostSilently'
  <2>1. ASSUME NEW b \in LongPolled, NEW id \in 1 .. offset[b] - 1
        PROVE  <<b, id>> \in got' \cup lost'
    <3>1. <<b, id>> \in got \cup lost \cup Held(b)
      BY <1>6, <2>1 DEF NothingLostSilently
    <3> QED BY <1>2, <1>4, <1>5, <1>7, <3>1
  <2> QED BY <1>1, <1>7, <2>1 DEF NothingLostSilently
<1> QED BY <1>8, <1>10, <1>13, <1>14, <1>15, <1>16, <1>17 DEF QueueInv

\* The queues are empty at first.
LEMMA QueueInit == Init => QueueInv
<1> SUFFICES ASSUME Init
             PROVE  QueueInv
  OBVIOUS
<1>1. /\ heap = <<>> /\ queueOf = [b \in Bots |-> 0] /\ client = [c \in Clients |-> NewClient]
      /\ offset = [b \in Bots |-> 1] /\ worker = [w \in Workers |-> Idle]
  BY DEF Init
<1>2. Shelf /\ Len(heap) = 0
  <2>1. heap \in Seq(Queue(Ids)) /\ Len(heap) = 0 /\ DOMAIN heap = {}
    BY <1>1
  <2>2. queueOf \in [Bots -> {0}] /\ 0 .. 0 = {0} /\ \A b \in Bots : queueOf[b] = 0
    BY <1>1
  <2> QED BY <2>1, <2>2 DEF Shelf
<1>3. NewClient \in Calls /\ NewClient.at = "idle" /\ NewClient.q = 0 /\ NewClient.next = 0
  BY DEF NewClient, Calls
<1>4. \A c \in Clients : client[c] = NewClient
  BY <1>1
<1>5. 0 \in 0 .. Len(heap)
  BY <1>2
<1>6. Requests
  BY <1>1, <1>3, <1>4, <1>5 DEF Requests
<1>7. \A b \in Bots : Content(b) = NewUpdateQueue
  BY <1>1 DEF Content
<1>8. \A b : Known(got \cup lost, b, 0)
  <2>1. 1 .. 0 - 1 = {}
    OBVIOUS
  <2> QED BY <2>1 DEF Known
<1>9. InOrder
  BY <1>2, <1>7, ContentIs DEF InOrder
<1>10. Asked /\ Marked /\ Parked
  <2>1. NewUpdateQueue.confirmed = 0
    BY DEF NewUpdateQueue
  <2> QED BY <1>3, <1>4, <1>7, <1>8, <2>1 DEF Asked, Marked, Parked
<1>11. LongPolled \subseteq Bots
  BY ConfigsAssumption DEF Init, LongPolled
<1>12. Taking /\ NothingLostSilently
  <2>1. \A b \in LongPolled : 1 .. offset[b] - 1 = {}
    BY <1>1, <1>11
  <2>2. \A b \in LongPolled : ~Busy(b)
    BY <1>1, <1>11 DEF Busy, Workers
  <2> QED BY <2>1, <2>2 DEF Taking, NothingLostSilently
<1> QED BY <1>2, <1>6, <1>9, <1>10, <1>12 DEF QueueInv

\* Every step keeps the invariant of the queues.
LEMMA QueueNext == TypeInv /\ QueueInv /\ [Next]_vars => QueueInv'
<1> SUFFICES ASSUME TypeInv, QueueInv, [Next]_vars
             PROVE  QueueInv'
  OBVIOUS
<1>1. CASE \E c \in Chats : Say(c)
  <2>1. PICK c \in Chats : Say(c)
    BY <1>1
  <2>2. UNCHANGED <<config, offset, worker, heap, queueOf, client, got, lost>>
    BY <2>1 DEF Say, queueVars
  <2>3. \A b \in Bots : Busy(b)' => Busy(b) /\ worker'[b].id = worker[b].id
    BY <2>2 DEF Busy
  <2> QED BY <2>2, <2>3, WorkersKeep DEF TypeInv
<1>2. CASE \E b \in Bots : Reject(b)
  <2>1. PICK b \in Bots : Reject(b)
    BY <1>2
  <2>2. UNCHANGED <<config, offset, worker, heap, queueOf, client, got, lost>>
    BY <2>1 DEF Reject, queueVars, telegram
  <2>3. \A a \in Bots : Busy(a)' => Busy(a) /\ worker'[a].id = worker[a].id
    BY <2>2 DEF Busy
  <2> QED BY <2>2, <2>3, WorkersKeep DEF TypeInv
<1>3. CASE \E b \in Bots : Poll(b) \/ RemoveUpdateQueue(b)
  BY <1>3, PollKeeps, RemoveKeeps
<1>4. CASE \E x \in Bridges : HandleIncoming(x)
  BY <1>4, IncomingKeeps
<1>5. CASE \E w \in Workers : Routing(w) \/ Save(w)
  <2>1. PICK w \in Workers : Routing(w) \/ Save(w)
    BY <1>5
  <2>2. UNCHANGED <<config, offset, heap, queueOf, client, got, lost>>
    BY <2>1 DEF Routing, ApplyReverseRoutes, ApplyRoutes, ApplyLLMRoutes, Save, queueVars, telegram
  <2>3. Busy(w) /\ \E j : GoesOn(w, j)
    <3>1. CASE Save(w)
      BY <3>1, SaveIs DEF TypeInv
    <3>2. CASE Routing(w)
      <4>1. Busy(w) /\ (Skipped(w) \/ Sent(w))
        BY <3>2, RoutingIs DEF TypeInv
      <4>2. CASE Skipped(w)
        <5>1. PICK route \in Nat, then \in {"route", "llm", "confirm"} : Skip(w, route, then)
          BY <4>2 DEF Skipped
        <5> QED BY <4>1, <5>1, SkippedGoesOn DEF TypeInv
      <4>3. CASE Sent(w)
        <5>1. PICK s \in Sends, row \in Saved :
                worker' = [worker EXCEPT ![w] = [@ EXCEPT !.pc = "save", !.route = s.route, !.row = row]]
          BY <4>3 DEF Sent
        <5> QED BY <4>1, <5>1, SentGoesOn DEF TypeInv
      <4> QED BY <4>1, <4>2, <4>3
    <3> QED BY <2>1, <3>1, <3>2
  <2>4. PICK j : GoesOn(w, j)
    BY <2>3
  <2>5. worker' = [worker EXCEPT ![w] = j] /\ j.id = worker[w].id
    BY <2>4 DEF GoesOn
  <2>6. worker'[w] = j /\ \A v \in Workers \ {w} : worker'[v] = worker[v]
    BY <2>5 DEF TypeInv, Typed
  <2>7. \A b \in Bots : Busy(b)' => Busy(b) /\ worker'[b].id = worker[b].id
    BY <2>3, <2>5, <2>6 DEF Busy, Workers
  <2> QED BY <2>2, <2>7, WorkersKeep DEF TypeInv
<1>6. CASE \E w \in Workers : Confirm(w)
  BY <1>6, ConfirmKeeps
<1>7. CASE \E c \in Clients : Ask(c) \/ Wake(c) \/ TimeOut(c)
  <2>1. PICK c \in Clients : Ask(c) \/ Wake(c) \/ TimeOut(c)
    BY <1>7
  <2>2. UNCHANGED <<config, worker>>
    BY <2>1 DEF Ask, Wake, TimeOut, Elsewhere, telegram
  <2>3. FetchKept
    BY <2>1, AskKeeps, EndKeeps
  <2> QED BY <2>2, <2>3, FetchKeptKeeps
<1>8. CASE \E c \in Clients : Wait(c) \/ Disconnect(c)
  BY <1>8, WaitKeeps
<1>9. CASE Crash
  BY <1>9, CrashKeeps
<1>10. CASE UNCHANGED vars
  <2>1. UNCHANGED <<config, offset, worker, heap, queueOf, client, got, lost>>
    BY <1>10 DEF vars
  <2>2. \A a \in Bots : Busy(a)' => Busy(a) /\ worker'[a].id = worker[a].id
    BY <2>1 DEF Busy
  <2> QED BY <2>1, <2>2, WorkersKeep DEF TypeInv
<1> QED BY <1>1, <1>2, <1>3, <1>4, <1>5, <1>6, <1>7, <1>8, <1>9, <1>10
        DEF Next, Process, Routing, Request

\* The invariant of the queues holds always.
LEMMA QueueAlways == Spec => [](TypeInv /\ QueueInv)
<1>1. Init => TypeInv /\ QueueInv
  BY TypeInit, QueueInit
<1>2. (TypeInv /\ QueueInv) /\ [Next]_vars => (TypeInv /\ QueueInv)'
  BY TypeNext, QueueNext
<1> QED BY <1>1, <1>2, PTL DEF Spec

\* Every queue is bounded and without duplicates, and a request knows its queue.
THEOREM PipelineTyped == Spec => []TypeOK
<1>1. TypeInv /\ QueueInv => TypeOK
  <2> SUFFICES ASSUME TypeInv, QueueInv
               PROVE  TypeOK
    OBVIOUS
  <2>1. Shelf /\ Requests
    BY DEF QueueInv
  <2>2. \A b \in Bots : offset[b] \in 1 .. Len(inbox[b]) + 1 /\ queueOf[b] \in 0 .. Len(heap)
    <3>1. TAKE b \in Bots
    <3>2. offset[b] \in Nat \ {0} /\ offset[b] <= Len(inbox[b]) + 1
      BY DEF TypeInv, Typed, Assigned
    <3>3. Len(inbox[b]) \in Nat
      BY FewUpdates DEF TypeInv
    <3>4. queueOf[b] \in 0 .. Len(heap)
      BY <2>1 DEF Shelf
    <3> QED BY <3>2, <3>3, <3>4
  <2>3. \A n \in DOMAIN heap : /\ heap[n] \in Queue(1 .. BridgeBase + MaxBridged)
                               /\ Len(heap[n].updates) <= QueueSize
                               /\ IsInjective(heap[n].updates)
    BY <2>1 DEF Shelf, Sound, Ids
  <2>4. \A c \in Clients : /\ client[c].at \in {"idle", "looked", "waiting", "woken"}
                           /\ client[c].q \in 0 .. Len(heap)
                           /\ (client[c].at = "idle") = (client[c].q = 0)
    <3>1. TAKE c \in Clients
    <3>2. client[c] \in Calls
      BY <2>1 DEF Requests
    <3>3. client[c].at \in {"idle", "looked", "waiting", "woken"}
      BY <3>2 DEF Calls
    <3> QED BY <2>1, <3>3 DEF Requests
  <2>5. faults \in 0 .. MaxFaults
    BY DEF TypeInv, Typed
  <2> QED BY <2>2, <2>3, <2>4, <2>5 DEF TypeOK
<1> QED BY <1>1, QueueAlways, PTL

\* An update that Telegram may forget was handed to a backend, is queued, or was
\* given up by a full or dropped queue, a crash, or the id of a bridge: whatever
\* the queues' sizes, and however fetches, removals and restarts fall.
THEOREM NothingLost == Spec => []NothingLostSilently
<1>1. TypeInv /\ QueueInv => NothingLostSilently
  BY DEF QueueInv
<1> QED BY <1>1, QueueAlways, PTL
================================================================================
