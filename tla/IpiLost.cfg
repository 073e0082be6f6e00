CONSTANTS
  NumCpus = 2
  Mapping = {}
  NONE = NONE
  TLBSHOOTDOWN_MAX = 2
  MaxRequests = 0
  Stop = {"panic"}
SPECIFICATION FairSpec
PROPERTY SentIsReceived
CHECK_DEADLOCK FALSE
