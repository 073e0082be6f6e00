CONSTANTS
  NumCpus = 2
  Thread = {t1, t2, t3}
  Sem = {s1}
  lbolt = lbolt
  NONE = NONE
  MaxCount = 2
SPECIFICATION Spec
SYMMETRY Symmetry
INVARIANTS
  TypeOK
  OneCpuPerThread
  OneListPerThread
  NoDanglingThread
  MigrationFindsThreads
  IdleCpuIsCalled
  NoLostWakeup
PROPERTY ZombiesStayDead
