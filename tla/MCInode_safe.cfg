CONSTANTS
  Procs = {p1, p2}
  NoProc = NoProc
  Names = {"a", "b"}
  NInum = 3
  Workloads <- MCWorkloads
SPECIFICATION Spec
INVARIANTS CacheExact NothingDangles LinksCounted
SYMMETRY Symmetry
CHECK_DEADLOCK FALSE
