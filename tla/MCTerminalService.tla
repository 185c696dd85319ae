------------------------- MODULE MCTerminalService -------------------------
(* Instances of the terminals for TLC.                                     *)
EXTENDS TerminalServiceProperties
=============================================================================
