CONSTANTS
  Cpus = {c1, c2}
  Procs = {p1}
  Locks = {1, 2}
  NoCpu = NoCpu
SPECIFICATION Spec
SYMMETRY Symmetry
INVARIANTS MutualExclusion InterruptsOff NcliMatched
