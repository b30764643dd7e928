--------------------------- MODULE MCUpdatePipeline ---------------------------
(***************************************************************************)
(* Instances of UpdatePipeline for TLC: users write to a support bot, whose *)
(* messages are copied to the chat of the operators at another bot.         *)
(***************************************************************************)
EXTENDS UpdatePipeline, TLC

CONSTANTS support, desk, user1, operators, slack, backend

ChatBots == (user1 :> support) @@ (operators :> desk) @@ (slack :> support)

\* A route that copies what users of the support bot write to the operators.
ToDesk(action, texts) == [chats |-> {user1, slack}, texts |-> texts, action |-> action,
                          target |-> desk, dest |-> operators]

NoChoice == [b \in Bots |-> {}]
NoRoutes == [b \in Bots |-> <<>>]

\* The backend of the support bot fetches its updates.
Fetching == [writers |-> {user1}, texts |-> {"text"}, managed |-> Bots, longPolled |-> {support}, forwarding |-> {},
             routes |-> NoRoutes, llmRoutes |-> NoChoice]

\* The updates of the support bot are pushed to its backend and copied to the desk.
Copying == [writers |-> {user1, operators}, texts |-> {"text"}, managed |-> Bots, longPolled |-> {}, forwarding |-> {support},
            routes |-> [NoRoutes EXCEPT ![support] = <<ToDesk("forward", {"text"})>>],
            llmRoutes |-> NoChoice]

\* One route copies, the next drops, and the model chooses the user's own chat.
Choosing == [writers |-> {user1}, texts |-> {"text", NoText}, managed |-> Bots, longPolled |-> {}, forwarding |-> {},
             routes |-> [NoRoutes EXCEPT ![support] =
               <<ToDesk("copy", {"text", NoText}), ToDesk("forward", {NoText}), ToDesk("drop", {"text"}),
                 ToDesk("copy", {"text", NoText})>>],
             llmRoutes |-> [NoChoice EXCEPT ![support] =
               {[action |-> "copy", target |-> support, dest |-> "same"]}]]

Configurations == {Fetching, Copying, Choosing}
BackendOfSupport == backend :> support
================================================================================
