---------------------------- MODULE MCTuiClient ----------------------------
(* Instances of the terminal client for TLC.                               *)
EXTENDS TuiClientProperties
=============================================================================
