-------------------------- MODULE MCOutboundDelivery --------------------------
(***************************************************************************)
(* Instances of OutboundDelivery for TLC.                                  *)
(***************************************************************************)
EXTENDS OutboundDelivery, TLC

\* Deliveries and payloads are interchangeable, except for the split between
\* workload and service deliveries.
Symmetry == Permutations(WorkloadDeliveries) \cup Permutations(Payloads)
              \cup Permutations(Producers) \cup Permutations(Operators)
              \cup Permutations(Workers)
==============================================================================
