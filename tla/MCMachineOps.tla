---------------------------- MODULE MCMachineOps ----------------------------
(* Instances of MachineOps for TLC: the callers are interchangeable.       *)
EXTENDS MachineOps, TLC

CONSTANTS ui, io

CallerSymmetry == Permutations({ui, io})
=============================================================================
