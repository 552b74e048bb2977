CONSTANTS
  Procs = {p1, p2}
  NoProc = NoProc
  NoBlock = NoBlock
  Blocks = {k, m, n}
  Values = {0, 1}
  NBUF = 2
  MaxPins = 1
SPECIFICATION FairSpec
INVARIANTS Coherent BuffersCounted
PROPERTIES UsesSleepLocks IoCompletes
CHECK_DEADLOCK FALSE
