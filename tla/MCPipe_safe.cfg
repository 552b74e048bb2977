CONSTANTS
  Procs = {p1, p2}
  x = x
  y = y
  Bytes = {x, y}
  Payloads <- MCPayloads
  PIPESIZE = 2
  Wrap = 4
  Sizes = {0, 1, 3}
SPECIFICATION FairSpec
INVARIANT Inv
PROPERTIES ImplementsStream CloseUnblocks
CHECK_DEADLOCK FALSE
