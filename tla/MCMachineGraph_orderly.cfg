SPECIFICATION Spec
CONSTANTS
  s2 = s2
  s3 = s3
  s4 = s4
  t4 = t4
  u4 = u4
  NULL = NULL
  Machines = {1, 2, 3, 4}
  Sequences_ = {3}
  SequenceOf <- FullSequenceOf
  Sinks = {1}
  Signals = {s2, s3, s4, t4, u4}
  Originator <- FullOriginator
  Midi = {s3, t4}
  Inputs = {1, 2}
  Fits <- FullFits
  MaxCount = 2
  Requests = {}
INVARIANTS
  CountsMatch ListsSound NotInUse TiedTogether
CHECK_DEADLOCK FALSE
