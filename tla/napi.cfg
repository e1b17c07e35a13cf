CONSTANTS
  addon1 = addon1
  addon2 = addon2
  object1 = object1
  None = None
  Envs = {addon1, addon2}
  Objects = {object1}
  MaxRecords = 2
  MaxRefs = 1
  MaxCount = 1
  MaxExceptions = 2
  MaxDepth = 2
  CollectsRunning = FALSE
  Addons = {"e1", "e2"}
  Hooks = {"h"}
  AsyncHooks = {"s"}
  Tsfns = {"f", "g"}
  MaxFinalizers = 1
  MaxAgain = 1
  Registers <- AllHandled
  FailsRegistered = FALSE
SPECIFICATION MCSpec
INVARIANTS Exceptions ScopeLive  WrapLive DisposalSafe NothingLeft
PROPERTIES DisposalEnds
CHECK_DEADLOCK FALSE
SYMMETRY Symmetry
