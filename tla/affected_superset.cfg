CONSTANTS
  f1 = f1
  f2 = f2
  f3 = f3
  pkg = pkg
  Files <- MCFiles
  Leaves = {pkg}
  Tests <- MCTests
  Graphs <- MCGraphs
  Changes <- MCChanges
SPECIFICATION AffectedSpec
INVARIANTS NeverUnderSelects
CHECK_DEADLOCK FALSE
