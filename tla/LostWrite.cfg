CONSTANTS
  Thread = {t1, t2}
  SfsUser = {t1, t2}
  Sectors = 2
  Value = {0, 1}
  Blank = 0
  MaxLen = 1
  MaxTries = 1
  BUSY = "BUSY"
SPECIFICATION lhdSpec
INVARIANT DoneMeansWritten
CHECK_DEADLOCK FALSE
