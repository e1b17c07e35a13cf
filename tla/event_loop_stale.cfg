CONSTANTS
  Delays = {0, 2}
  TestTimeout = 3
  MaxFiles = 2
  MaxCalls = 3
  MaxPosts = 0
  MaxTurns = 3
  LoopLimit = 2
  WorkAmongStale = TRUE
  None = None
SPECIFICATION Spec
INVARIANTS EndsWhenDone
CHECK_DEADLOCK FALSE
