CONSTANTS
  FirstPage = 1
  NumPages = 3
  MAX_NODES = 4
  Policy = "first_fit"
  Thread = {t1, t2}
  NONE = NONE
  PAGE_SIZE = 6
  Sizes = {2, 4}
  NPAGEREFS = 2
  Requests = {2, 3, 7}
  MaxLive = 4
  MBLOCKSIZE = 8
  MallocSizes = {0, 7, 9}
  HeapLimit = 9
  D = 12
  N = 2
  LineSizes = {1, 2}
  LongLine = 2
  SaveSize = 2
  MaxLines = 5
  Policies = {"first_fit", "best_fit", "worst_fit"}
  Consumer = {c1, c2}
  Producer = {p1, p2}
  capacity = 2
  MaxItems = 4
  maxSize = 2
  MaxFiles = 3
  MaxDepth = 2
  HALF_BITS = 2
  WBITS = 5
  Args <- ArgsValue
  LongArgs <- LongArgsValue
  SnpLen = 5
  MaxFormat = 5
  MaxMem = 8
  EmuName = {x, y}
  EmuHandle = {0, 1, 2}
  RootHandle = 0
  MaxHeld = 3
  DevName = {"null", "lhd0", "lhd0raw", "con"}
  RawOf <- RawOfValue
  MaxDevs = 3
  MaxRefs = 1
  TThread = {1, 2}
  MaxFrames = 3
  MaxSpin = 1
  ADDRBITS = 4
  USERSPACETOP = 8
  numprocs = 2
  KeyCounts = {0, 1, 5}
  RANDOM_MAX = 5
  WORKNUM = 2
  Pid = {1, 2, 3}
  MAXBG = 2
  maxlen = 5
  MAXMENUARGS = 2
  MaxRead = 1
  MaxProgs = 1
  LB_NSLOTS = 4
  Machines <- MachinesValue
  CpuBoards <- CpuBoardsValue
  Second = 6
  Small = 3
  Latency = 3
  MaxTime = 13
  PGSIZE = 2
  ADDRESSES = 32
  USERSTACK = 16
  DUMBVM_STACKPAGES = 1
  NUM_TLB = 3
  FirstFree = 2
  RamSize = 14
  DumbThread = {1, 2}
  DumbPrograms <- DumbProgramsValue
  Touched = {2, 8}
  MaxKpages = 2
SPECIFICATION ProgramsSpec
SYMMETRY Symmetry
INVARIANTS
  KernelHeapIsWhole
  HeapIsWhole
  LinesAreKept
  NobodyIsForgotten
  GrepIsComplete
  MillicodeIsRight
  NumbersReadBack
  HandlesAreKept
  DevicesAreFound
  InterruptStateAgrees
  SucceedsOnlySorted
  JobsAreRemembered
  MenuDoesAsTold
  BusAgrees
  TimeIsRight
  ProgramsKeepTheirMemory
CHECK_DEADLOCK FALSE
