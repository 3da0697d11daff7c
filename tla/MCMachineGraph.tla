--------------------------- MODULE MCMachineGraph ---------------------------
(* Instances of MachineGraph for TLC.                                      *)
EXTENDS MachineGraph

CONSTANTS s2, s3, s4, t4, u4

(* Audio: sink 1 with two summing inputs, effects 2 and 3 and a source 4.  *)
AudioOriginator == s2 :> 2 @@ s3 :> 3 @@ s4 :> 4
AudioFits == {<<s2, 1, 1>>, <<s3, 1, 1>>, <<s4, 1, 1>>, <<s2, 1, 2>>,
              <<s3, 1, 2>>, <<s2, 3, 1>>, <<s3, 2, 1>>, <<s4, 2, 1>>}
NoSequenceOf == [m \in 1..4 |-> NULL]

(* The same without the source, for the run whose requests are unruly.     *)
SmallOriginator == s2 :> 2 @@ s3 :> 3
SmallFits == {<<s2, 1, 1>>, <<s2, 3, 1>>, <<s3, 2, 1>>}
SmallSequenceOf == [m \in 1..3 |-> NULL]

(* Audio and midi: sink 1 with two summing inputs, synth 2 with an audio   *)
(* input 1 and a midi input 2, its Sequence 3, and effect 4, which has two *)
(* audio outputs s4 and u4 and a midi output t4.                           *)
FullOriginator == s2 :> 2 @@ s3 :> 3 @@ s4 :> 4 @@ t4 :> 4 @@ u4 :> 4
FullFits == {<<s2, 1, 1>>, <<s4, 1, 1>>, <<u4, 1, 1>>, <<s2, 1, 2>>, <<u4, 1, 2>>,
             <<s2, 4, 1>>, <<s4, 2, 1>>, <<s3, 2, 2>>, <<t4, 2, 2>>}
FullSequenceOf == 2 :> 3 @@ [m \in {1, 4} |-> NULL]
=============================================================================
