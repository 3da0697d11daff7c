SPECIFICATION FairSpec
CONSTANTS
  MaxSessions = 2
  MaxMsgs = 3
  MaxFields = 2
  Repeats = FALSE
  NULL = NULL
INVARIANTS
  OneWrite
PROPERTIES
  ImplementsChannel Delivery LossIsNoticed
CHECK_DEADLOCK FALSE
