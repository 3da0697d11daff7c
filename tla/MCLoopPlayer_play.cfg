SPECIFICATION FairSpec
CONSTANTS
  NULL = NULL
  a = a
  b = b
  c = c
  n1 = n1
  n2 = n2
  Loops = {a, b, c}
  FirstLoop = a
  Loaded <- OneNote
  Notes = {n1, n2}
  OnAt <- SmallOnAt
  Length <- SmallLength
  Times = {2}
  MaxActive = 2
  StoreSize = 2
  MaxLoops = 3
  SequenceLength = 2
  TicksPerLine = 2
  MinLength = 1
  End = 2
  Lines = {0, 1}
  Lengths = {0, 1}
  MaxOps = 4
INVARIANTS
  ClocksAgree SequencedLoopsExist ReadsLiveNotes NextIsAhead
PROPERTIES
  LinesKeepLoops NotesEnd LoopIsReached
CHECK_DEADLOCK FALSE
