-------------------------- MODULE MCPoolRecreation --------------------------
(***************************************************************************)
(* TLC instances of PoolRecreation.                                        *)
(***************************************************************************)
EXTENDS PoolRecreation
=============================================================================
