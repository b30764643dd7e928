----------------------------- MODULE MCBotRunners -----------------------------
(* An instance of BotRunners for TLC: two requests at once. *)
EXTENDS BotRunners

ManagedOrIdle == {<<TRUE, FALSE>>, <<FALSE, FALSE>>}
================================================================================
