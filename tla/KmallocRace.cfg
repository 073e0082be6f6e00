CONSTANTS
  FirstPage = 1
  NumPages = 3
  MAX_NODES = 4
  Policy = "first_fit"
  Thread = {t1, t2}
  NONE = NONE
  PAGE_SIZE = 6
  Sizes = {2, 4}
  NPAGEREFS = 2
  Requests = {2, 3, 7}
  MaxLive = 4
SPECIFICATION Spec
INVARIANT OneSpinlockIsEnough
CHECK_DEADLOCK FALSE
