SPECIFICATION FairSpec
CONSTANTS
  c1 = c1
  c2 = c2
  Conns = {c1, c2}
  MaxId = 2
  MaxRequests <- OneAsks
  MaxUpdates = 2
  MaxRemovals = 1
INVARIANTS
  ReplicaFollows
PROPERTIES
  NoSpuriousDrop RemovalsArrive QueriesReturn
CHECK_DEADLOCK FALSE
