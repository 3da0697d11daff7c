SPECIFICATION Spec
CONSTANTS
  s2 = s2
  s3 = s3
  s4 = s4
  t4 = t4
  u4 = u4
  NULL = NULL
  Machines = {1, 2, 3, 4}
  Sequences_ = {}
  SequenceOf <- NoSequenceOf
  Sinks = {1}
  Signals = {s2, s3, s4}
  Originator <- AudioOriginator
  Midi = {}
  Inputs = {1, 2}
  Fits <- AudioFits
  MaxCount = 2
  Requests = {}
INVARIANTS
  RenderOrder
CHECK_DEADLOCK FALSE
