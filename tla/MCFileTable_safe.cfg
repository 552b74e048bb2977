CONSTANTS
  Procs = {p1, p2}
  InitProc = p1
  Inodes = {root}
  Root = root
  Pipes = {k, m}
  Nil = Nil
  NFILE = 3
  NOFILE = 2
SPECIFICATION Spec
INVARIANT UsesCounted
SYMMETRY Symmetry
