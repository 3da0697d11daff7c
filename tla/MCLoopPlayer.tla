---------------------------- MODULE MCLoopPlayer ----------------------------
(* Instances of LoopPlayer for TLC.                                        *)
EXTENDS LoopPlayer

CONSTANTS a, b, c, n1, n2

SmallOnAt == n1 :> 0 @@ n2 :> 1
SmallLength == n1 :> 1 @@ n2 :> 0
OneNote == <<n1>>
=============================================================================
