-------------------------- MODULE MCAdapterExecution --------------------------
(***************************************************************************)
(* Instances of AdapterExecution for TLC.                                  *)
(***************************************************************************)
EXTENDS AdapterExecution, TLC

Symmetry == Permutations(Workers) \cup Permutations(Configs)
==============================================================================
