CONSTANTS
  FirstPage = 1
  NumPages = 6
  MAX_NODES = 6
  Policy = "first_fit"
  NumCpus = 2
  Thread = {t1, t2, t3}
  Program = {t1, t2}
  NONE = NONE
  VBase = {0, 1}
  SegPages = {1}
  VM_STACKPAGES = 1
  UserStack = 4
  Touched = {1, 3}
  NUM_TLB = 1
  KernelPages = {2}
  MaxKernelBlocks = 1
SPECIFICATION vmSpec
SYMMETRY Symmetry
INVARIANTS
  MemoryIsTiled
  PagesHaveOneOwner
  TlbIsCurrent
CHECK_DEADLOCK FALSE
