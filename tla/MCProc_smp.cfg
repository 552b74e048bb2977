SPECIFICATION Spec
CONSTANTS
  NPROC = 3
  Cpus = {c1, c2}
  Chans = {ch}
  Calls = {"fork", "exit", "wait"}
SYMMETRY Symm
CHECK_DEADLOCK FALSE
INVARIANTS TypeOK SlotOwner ParentAlive NotStranded 
