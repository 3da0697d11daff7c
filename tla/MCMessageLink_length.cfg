SPECIFICATION Spec
CONSTANTS
  MaxSessions = 2
  MaxMsgs = 3
  MaxFields = 2
  Repeats = TRUE
  NULL = NULL
INVARIANTS
  InStep
CHECK_DEADLOCK FALSE
