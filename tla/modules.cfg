CONSTANTS
  t1 = t1
  t2 = t2
  Modules = {"a", "e"}
  Esbuild = {"e"}
  Esm = {"e"}
  Unshared = {}
  App = {"a", "e"}
  Threads = {t1, t2}
  Grain = 2
  Window = 2
  Cap = 1
  Edited = {"a"}
  MaxText = 2
  MaxTime = 2
  MaxEdits = 2
  Machines = {"cache", "graph"}
  Remocks = FALSE
  MaxOps = 2
  f1 = f1
  f2 = f2
  f3 = f3
  pkg = pkg
  Files <- MCFiles
  Leaves = {pkg}
  Tests <- MCTests
  Graphs <- MCGraphs
  Changes <- MCChanges
  NModules = 3
  MaxItems = 2
  MaxTotal = 3
SPECIFICATION StagesSpec
INVARIANTS
  NoOverSelection ExactWithoutCycles
  LoadsWhatWasThere CodeCacheSound
  ReadsWhatWasAsked ServesWhatWasAsked OneInstance
  RunsLikeTheSource
SYMMETRY Symmetry
CHECK_DEADLOCK FALSE
