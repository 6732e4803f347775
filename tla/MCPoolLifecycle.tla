-------------------------- MODULE MCPoolLifecycle --------------------------
(***************************************************************************)
(* TLC instances of PoolLifecycle.                                         *)
(***************************************************************************)
EXTENDS PoolLifecycle, TLC

\* ADO pools and agent IDs are interchangeable in every safety run.
Symmetry == Permutations(PoolNames) \cup Permutations(AgentIds)
=============================================================================
