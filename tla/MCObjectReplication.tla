------------------------ MODULE MCObjectReplication ------------------------
(* Instances of ObjectReplication for TLC. One client asks, the other only *)
(* listens; which of them connects first is open.                          *)
EXTENDS ObjectReplication

CONSTANTS c1, c2

OneAsks == c1 :> 1 @@ c2 :> 0
=============================================================================
