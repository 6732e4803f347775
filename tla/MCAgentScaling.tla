--------------------------- MODULE MCAgentScaling ---------------------------
(***************************************************************************)
(* TLC instances of AgentScaling.                                          *)
(***************************************************************************)
EXTENDS AgentScaling, TLC

\* Pod names and job identities are interchangeable in every safety run.
Symmetry == Permutations(Pods) \cup Permutations(Jobs)
=============================================================================
