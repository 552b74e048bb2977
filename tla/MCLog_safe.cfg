CONSTANTS
  Procs = {p1, p2, p3}
  Blocks = {a, b, c}
  Values = {0, 1}
  MAXOPBLOCKS = 2
  LOGSIZE = 4
  OpBlocks = 1
  MaxCrashes = 2
SPECIFICATION Spec
INVARIANTS QuiescentDurable Reserved SleepersBlocked
PROPERTY ImplementsAtomicDisk
SYMMETRY Symmetry
