------------------------------ MODULE MCAgentHost ------------------------------
(***************************************************************************)
(* AgentHost for TLC.  Run ids are interchangeable model values: no        *)
(* definition orders them, and a CHOOSE over runs picks from a singleton.  *)
(* Invocation ids are numbers, given out in the order of the calls.        *)
(***************************************************************************)
EXTENDS AgentHostProperties, TLC

RunSymmetry == Permutations(Run)
=============================================================================
