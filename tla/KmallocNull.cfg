CONSTANTS
  FirstPage = 1
  NumPages = 3
  MAX_NODES = 6
  Policy = "first_fit"
  Thread = {t1, t2}
  NONE = NONE
  PAGE_SIZE = 8
  Sizes = {2, 4}
  NPAGEREFS = 2
  Requests = {2, 9}
  MaxLive = 4
SPECIFICATION Spec
INVARIANT NullWhenOutOfMemory
CHECK_DEADLOCK FALSE
