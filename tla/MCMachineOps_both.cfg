SPECIFICATION FairSpec
CONSTANTS
  ui = ui
  io = io
  audio = audio
  NULL = NULL
  Callers = {ui, io}
  Kount = 3
  MaxOps = 4
  MaxQueue = 3
  Kinds = {"plain", "throw", "make", "kill"}
  Plugins = {"OpenSL", "ALSA"}
  Reuse = {"ALSA"}
  RenderFails = {"ALSA"}
INVARIANTS
  RenderAlone OneExecutorBetweenSinks InOrder LockIsCounted
PROPERTIES
  WaitersReturn
CHECK_DEADLOCK FALSE
