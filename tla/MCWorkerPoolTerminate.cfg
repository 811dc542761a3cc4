SPECIFICATION Spec
CONSTANTS
  Tasks = {t1, t2}
  Unclonable = {}
  None = none
  PoolSize = 2
  MaxThreads = 4
INVARIANT AllThreadsStopped
CHECK_DEADLOCK FALSE
