CONSTANTS
  SIG_MAX = 4
  SIGKILL = 2
  SIGSTOP = 3
  SIGCONT = 4
  Senders = {s1}
  KillSigs = {0, 2, 3, 4}
  Acts <- ActsPlain
  Masks <- MasksAll
  CodeMasks <- MasksCode
  Smps = {TRUE, FALSE}
  MaxKills = 2
  MaxPid = 2
SPECIFICATION FairSpec
INVARIANT TypeOK
PROPERTIES NoLostSignalUp KernelSignalsActed   
CHECK_DEADLOCK FALSE
