--------------------------- MODULE MCInboundDelivery ---------------------------
(***************************************************************************)
(* Instances of InboundDelivery for TLC.                                   *)
(***************************************************************************)
EXTENDS InboundDelivery, TLC

\* Every update brings a message of its own.
NoCallbacks == [u \in Updates |-> NoCallback]

\* The first two updates are of one callback query.
SameCallback == [u \in Updates |-> IF u <= 2 THEN "q1" ELSE NoCallback]

Symmetry == Permutations(Hooks) \cup Permutations(Operators)
==============================================================================
