--------------------------- MODULE InboundLifecycle ---------------------------
(*****************************************************************************)
(* What the inbound gateway promises about the delivery of one update, seen  *)
(* by the team behind a backend and by the operator: its route is decided    *)
(* once; what has none is rejected for good; the others are tried until the  *)
(* backend accepts one, after which nothing is tried again, or the attempts  *)
(* are used up and it is dead; and a callback query has one delivery,        *)
(* whichever of its updates brings it.                                       *)
(*                                                                           *)
(* A try counts when it begins: an interrupted one is lost, so there may be  *)
(* more of them than attempts.  Discarding is the weak spot: an entry that   *)
(* was left pending still has a discarded delivery tried (Try).              *)
(*****************************************************************************)
EXTENDS Naturals

CONSTANTS Updates, CallbackOf, NoCallback, Routes, MaxAttempts

VARIABLES phase, route, tries

vars == <<phase, route, tries>>

Phase == {"absent", "rejected", "queued", "delivered", "dead", "discarded"}

TypeOK == /\ phase \in [Updates -> Phase]
          /\ route \in [Updates -> Routes \cup {"none"}]
          /\ tries \in [Updates -> Nat]

Init == /\ phase = [u \in Updates |-> "absent"]
        /\ route = [u \in Updates |-> "none"]
        /\ tries = [u \in Updates |-> 0]

\* The updates of the callback query of u.
Peers(u) == {v \in Updates : CallbackOf[u] # NoCallback /\ CallbackOf[v] = CallbackOf[u]}

\* The update is stored, with the route it has from then on.
Accept(u) ==
  /\ phase[u] = "absent"
  /\ \A v \in Peers(u) : phase[v] = "absent"
  /\ \E r \in Routes :
       /\ route' = [route EXCEPT ![u] = r]
       /\ phase' = [phase EXCEPT ![u] =
                      IF r \in {"unknown", "disabled"} THEN "rejected" ELSE "queued"]
  /\ UNCHANGED tries

Go(u, from, to) ==
  /\ phase[u] = from
  /\ phase' = [phase EXCEPT ![u] = to]
  /\ UNCHANGED <<route, tries>>

Try(u) ==
  /\ phase[u] \in {"queued", "discarded"}
  /\ phase' = [phase EXCEPT ![u] = "queued"]
  /\ tries' = [tries EXCEPT ![u] = @ + 1]
  /\ UNCHANGED route

\* The last try was accepted ...
Settle(u) == tries[u] > 0 /\ Go(u, "queued", "delivered")

\* ... or failed, and none is left: the adapter has one, a backend MaxAttempts.
Bury(u) ==
  /\ tries[u] >= IF route[u] = "adapter" THEN 1 ELSE MaxAttempts
  /\ Go(u, "queued", "dead")

Replay(u)  == Go(u, "dead", "queued")
Discard(u) == Go(u, "dead", "discarded")

\* Something happens (said first, so that TLC need not look for what does not).
Next ==
  /\ vars' # vars
  /\ \E u \in Updates :
       Accept(u) \/ Try(u) \/ Settle(u) \/ Bury(u) \/ Replay(u) \/ Discard(u)

Spec == Init /\ [][Next]_vars
==============================================================================
