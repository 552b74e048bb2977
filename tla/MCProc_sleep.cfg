SPECIFICATION Spec
CONSTANTS
  NPROC = 2
  Cpus = {c1, c2}
  Chans = {ch}
  Calls = {"fork", "exit", "wait", "sleep", "wakeup", "fault", "SIGKILL", "SIGSTOP"}
SYMMETRY Symm
CHECK_DEADLOCK FALSE
INVARIANTS NoLostWakeup NoPanic OneCpuUp
