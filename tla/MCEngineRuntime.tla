-------------------------- MODULE MCEngineRuntime --------------------------
(***************************************************************************)
(* Instance of EngineRuntime for TLC: three requests, three children.      *)
(***************************************************************************)
EXTENDS EngineRuntime

MCRequests == 1..3
MCChildren == 11..13
=============================================================================
