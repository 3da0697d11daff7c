SPECIFICATION Spec
CONSTANTS
  c1 = c1
  Conns = {c1}
  Seqs = {1, 2}
  InitialIds = 1
  MaxId = 2
  Instances_ <- FewInstances
  Notes <- FewNotes
  MaxServed = 4
INVARIANTS
  PatternsFollow InstancesFollow IdsUnique NoPartialOverlap
CHECK_DEADLOCK FALSE
