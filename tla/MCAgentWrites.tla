--------------------------- MODULE MCAgentWrites ---------------------------
(***************************************************************************)
(* A new and an old proposal, each about a source of its own.              *)
(***************************************************************************)
EXTENDS AgentWrites, TLC

CONSTANTS p1, p2, s1, s2, c1, c2

MCCites == p1 :> s1 @@ p2 :> s2
=============================================================================
