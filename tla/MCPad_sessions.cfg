SPECIFICATION PadFairSpec
CONSTANTS
  NULL = NULL
  Fingers = {0}
  Columns = {0}
  TicksPerLine = 8
  LoopStart = 0
  LoopEnd = 1
  MaxSessions = 2
  MaxMotions = 2
  MaxEvents = 3
  MaxOps = 2
  Moments = {0, 1, 2, 4, 5}
  Late = 5
INVARIANTS
  MotionsOwned SilentAfterwards ExportReturns
PROPERTIES
  SessionsEnd
CHECK_DEADLOCK FALSE
