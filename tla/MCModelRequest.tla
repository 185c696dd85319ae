----------------------------- MODULE MCModelRequest -----------------------------
(***************************************************************************)
(* ModelRequest for TLC, as MCAgentHost is for AgentHost.                  *)
(***************************************************************************)
EXTENDS ModelRequest, TLC

RunSymmetry == Permutations(Run)
=============================================================================
