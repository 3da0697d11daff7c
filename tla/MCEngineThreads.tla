--------------------------- MODULE MCEngineThreads --------------------------
(* Instances of EngineThreads for TLC.                                     *)
EXTENDS EngineThreads

(* A synth connected to a sink.                                            *)
OneWire == {<<2, 1>>}
=============================================================================
