SPECIFICATION Spec
CONSTANTS
  c1 = c1
  c2 = c2
  Conns = {c1, c2}
  MaxId = 2
  MaxRequests <- OneAsks
  MaxUpdates = 2
  MaxRemovals = 1
INVARIANTS
  StillServed
CHECK_DEADLOCK FALSE
