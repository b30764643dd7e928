------------------------ MODULE MCConfigurationBackup ------------------------
(***************************************************************************)
(* Instances of ConfigurationBackup for TLC.                               *)
(***************************************************************************)
EXTENDS ConfigurationBackup, TLC

\* Two tokens of one Telegram bot, one of another.
TwoIdentities == ("a1" :> "A") @@ ("a2" :> "A") @@ ("b1" :> "B")

OnAndOff == {[inbound |-> TRUE, enabled |-> TRUE], [inbound |-> TRUE, enabled |-> FALSE]}

OneSource == ("s" :> "w")

\* Two bots, two destinations of the first and one route, and a service with
\* one subscription to each of two bots that reach the same chat.
Populated == [
  bots      |-> {[ref |-> 1, token |-> "a1"], [ref |-> 2, token |-> "b1"]},
  dests     |-> {[ref |-> 1, bot |-> 1, chat |-> "c1", active |-> TRUE],
                 [ref |-> 2, bot |-> 2, chat |-> "c1", active |-> TRUE]},
  routes    |-> {[key |-> "k", bot |-> 1, dest |-> 1, inbound |-> TRUE, enabled |-> TRUE]},
  workloads |-> {[name |-> "w", active |-> TRUE, publish |-> TRUE,
                  grants |-> {"k"}, credentials |-> 1]},
  services  |-> {"s"},
  subs      |-> {[service |-> "s", ref |-> 1, dest |-> 1, active |-> TRUE],
                 [service |-> "s", ref |-> 2, dest |-> 2, active |-> TRUE]}]

\* Two historical aliases of one bot reach one chat; nobody is subscribed yet.
Aliases == [Populated EXCEPT
  !.bots = {[ref |-> 1, token |-> "a1"]},
  !.dests = {[ref |-> 1, bot |-> 1, chat |-> "c1", active |-> TRUE],
             [ref |-> 2, bot |-> 1, chat |-> "c1", active |-> FALSE]},
  !.services = {}, !.subs = {}]

TwoBackups == {Populated, Aliases}

Symmetry == Permutations(Editors)
==============================================================================
