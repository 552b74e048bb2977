CONSTANTS
  NPROC = 3
  NCPU = 2
  PGSIZE = 2
  NPTENTRIES = 2
  UTABS = 2
  KTABS = 1
  End = 3
  Low = 14
  PHYSTOP = 36
  Programs <- MCPrograms
  ArgSizes = {1, 3}
  Increments <- MCIncrements
SPECIFICATION Spec
INVARIANTS PagesOnce ImagesWhole
