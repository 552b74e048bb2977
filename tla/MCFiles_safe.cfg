CONSTANTS
  Procs = {p1, p2}
  NoProc = NoProc
  NFILE = 2
  INPUT_BUF = 2
  Wrap = 4
  ROWS = 2
  COLS = 2
  NINODES = 4
  IPB = 5
  FSSIZE = 14
  BSIZE = 2
  BPB = 10
  LOGSIZE = 1
  MAXOPBLOCKS = 6
  NDIRECT = 1
  HostFiles <- MCHostFiles
  Workloads <- MCWorkloads
SPECIFICATION Spec
INVARIANTS BlocksOnce FileExact TransactionFits ConsoleExact
SYMMETRY Symmetry
CHECK_DEADLOCK FALSE
