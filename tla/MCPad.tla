-------------------------------- MODULE MCPad -------------------------------
(* Instances of Pad for TLC.                                               *)
EXTENDS Pad
=============================================================================
