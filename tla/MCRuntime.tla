------------------------------ MODULE MCRuntime ------------------------------
(* One run with up to two calls.                                           *)
EXTENDS RuntimeProperties, TLC
=============================================================================
