--------------------------- MODULE MCMessageLink ---------------------------
(* Instances of MessageLink for TLC; the constants are plain numbers.      *)
EXTENDS MessageLink
=============================================================================
