CONSTANTS
  w1 = w1
  w2 = w2
  NFiles = 4
  Workers = {w1, w2}
  Bail = 2
  MaxFailed = 2
  f1 = f1
  f2 = f2
  TestFiles = {f1, f2}
  DomFiles = {f1}
  MaxIsolate = 4
  Tests = {"t1", "t2"}
  Suites = {"file", "block"}
  Root = "file"
  Trees <- SmallTrees
  NHooks = 2
  MaxOdd = 3
  NoValue = NoValue
  Unavailable = Unavailable
  MaxArgs = 3
  MaxCalls = 1
  MaxRuns = 2
  MinLines = 80
SPECIFICATION StagesSpec
INVARIANTS
  AsAsked ShardsCover
  RunOnce BailOvershoot NoSilentSkip
  RunsAlone Verdict
  HooksAround EachTestTold
  TellsWhatRan GateIsHonest
PROPERTIES RunEnds
CHECK_DEADLOCK FALSE
