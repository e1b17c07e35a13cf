CONSTANTS
  t1 = t1
  t2 = t2
  Modules = {"a", "e"}
  Esbuild = {"e"}
  Esm = {"e"}
  Unshared = {}
  App = {"a", "e"}
  Threads = {t1, t2}
  Grain = 2
  Window = 2
  Cap = 1
  Edited = {"a"}
  MaxText = 2
  MaxTime = 3
  MaxEdits = 2
  Machines = {"graph"}
  Remocks = TRUE
  MaxOps = 2
SPECIFICATION MCSpec
INVARIANTS LinksTheMock
SYMMETRY Symmetry
CHECK_DEADLOCK FALSE
