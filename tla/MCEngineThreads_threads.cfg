SPECIFICATION FairSpec
CONSTANTS
  NULL = NULL
  Machines = {1, 2}
  Midi = {2}
  Wires <- OneWire
  Pool = 3
  MaxRows = 1
  MaxWrites = 1
  MaxOps = 4
INVARIANTS
  TypeOK TableFollows PlayStateKnown
PROPERTIES
  OperationsEnd StopReturns
CHECK_DEADLOCK FALSE
