CONSTANTS
  Delays = {0, 2}
  TestTimeout = 3
  MaxFiles = 2
  MaxCalls = 4
  MaxPosts = 1
  MaxTurns = 2
  LoopLimit = 2
  WorkAmongStale = FALSE
  None = None
SPECIFICATION FairSpec
INVARIANTS EndsWhenDone OwnFile
PROPERTIES InTurn LoopEnds
CHECK_DEADLOCK FALSE
