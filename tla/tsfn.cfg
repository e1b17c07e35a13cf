CONSTANTS
  t1 = t1
  t2 = t2
  t3 = t3
  Threads = {t1, t2, t3}
  Initial = {t1, t2}
  MaxQueue = 1
  MaxCalls = 2
SPECIFICATION FairSpec
INVARIANTS Safety
PROPERTIES ImplementsCallQueue Progress
CHECK_DEADLOCK FALSE
