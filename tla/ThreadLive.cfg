CONSTANTS
  NumCpus = 2
  Thread = {t1, t2, t3}
  Sem = {}
  lbolt = lbolt
  NONE = NONE
  MaxCount = 0
SPECIFICATION LiveSpec
PROPERTIES
  InterruptsComeBack
  ReadyThreadRuns
