CONSTANTS
  NumCpus = 2
  Mapping = {m1, m2}
  NONE = NONE
  TLBSHOOTDOWN_MAX = 1
  MaxRequests = 2
  Stop = {"panic", "offline"}
  Thread = {t1, t2}
  SfsUser = {t2}
  Sectors = 2
  Value = {0, 1}
  Blank = 0
  MaxLen = 2
  MaxTries = 1
  BUSY = "BUSY"
  Reader = {r}
  Writer = {w}
  Ring = 3
  CR = {2}
  MaxTyped = 3
  MaxLine = 2
  TooManyDuds = 0
  Transient = TRUE
SPECIFICATION DevSpec
SYMMETRY Symmetry
INVARIANTS
  NoSleepWithWork
  OverflowFlushes
  InputIsKept
  OutputIsKept
PROPERTY ImplementsDisk
CHECK_DEADLOCK FALSE
