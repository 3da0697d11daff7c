SPECIFICATION Spec
CONSTANTS
  s2 = s2
  s3 = s3
  s4 = s4
  t4 = t4
  u4 = u4
  NULL = NULL
  Machines = {1, 2, 3}
  Sequences_ = {}
  SequenceOf <- SmallSequenceOf
  Sinks = {1}
  Signals = {s2, s3}
  Originator <- SmallOriginator
  Midi = {}
  Inputs = {1}
  Fits <- SmallFits
  MaxCount = 2
  Requests = {"repeat", "stale"}
INVARIANTS
  Acyclic ChainComplete
CHECK_DEADLOCK FALSE
