----------------------------- MODULE MCAgentPod -----------------------------
(***************************************************************************)
(* TLC instances of AgentPod.                                              *)
(***************************************************************************)
EXTENDS AgentPod
=============================================================================
