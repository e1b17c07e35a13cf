CONSTANTS
  a = a
  b = b
  w1 = w1
  w2 = w2
  w3 = w3
  p1 = p1
  p2 = p2
  Works = {w1, w2, w3}
  Isolates = {a, b}
  Owner <- OwnerOf
  PoolThreads = {p1, p2}
  None = None
  MaxRounds = 2
SPECIFICATION FairSpec
INVARIANTS Safety
PROPERTIES ImplementsRounds Progress
