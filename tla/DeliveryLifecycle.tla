-------------------------- MODULE DeliveryLifecycle --------------------------
(***************************************************************************)
(* What the outbound gateway promises about one delivery, seen by the      *)
(* workload, the operator and the chat: it is queued until it is           *)
(* dispatched; a dispatch ends as delivered, as uncertain, or, only when   *)
(* the chat did not get the message, back in the queue or dead.  Nothing   *)
(* leaves delivered or uncertain, so the chat gets the message once.       *)
(*                                                                         *)
(* Discarding is the weak spot: the code lets a discarded delivery come    *)
(* back (Revive), where the dialog tells the operator it cannot.           *)
(***************************************************************************)
EXTENDS Naturals

CONSTANT Deliveries

VARIABLES phase, got

vars == <<phase, got>>

Phase == {"absent", "queued", "dispatched", "delivered", "uncertain", "dead",
          "discarded"}

TypeOK == /\ phase \in [Deliveries -> Phase]
          /\ got \in [Deliveries -> {0, 1}]

Init == /\ phase = [d \in Deliveries |-> "absent"]
        /\ got = [d \in Deliveries |-> 0]

Move(d, from, to) ==
  /\ phase[d] \in from
  /\ \E p \in to : phase' = [phase EXCEPT ![d] = p]
  /\ UNCHANGED got

Accept(d)   == Move(d, {"absent"}, {"queued"})
Dispatch(d) == Move(d, {"queued"}, {"dispatched"})

\* The chat gets the message of a dispatch, once.
Take(d) ==
  /\ phase[d] = "dispatched" /\ got[d] = 0
  /\ got' = [got EXCEPT ![d] = 1]
  /\ UNCHANGED phase

Confirm(d) == got[d] = 1 /\ Move(d, {"dispatched"}, {"delivered"})
Park(d)    == Move(d, {"dispatched"}, {"uncertain"})

\* A definite failure: only of a message the chat did not get.
Fail(d) == got[d] = 0 /\ Move(d, {"dispatched"}, {"queued", "dead"})

Drop(d)    == Move(d, {"queued"}, {"dead"})
Replay(d)  == Move(d, {"dead"}, {"queued"})
Discard(d) == Move(d, {"dead"}, {"discarded"})
Revive(d)  == Move(d, {"discarded"}, {"queued", "dead"})

Next == \E d \in Deliveries :
  \/ Accept(d) \/ Dispatch(d) \/ Take(d) \/ Confirm(d) \/ Park(d) \/ Fail(d)
  \/ Drop(d) \/ Replay(d) \/ Discard(d) \/ Revive(d)

Spec == Init /\ [][Next]_vars
==============================================================================
