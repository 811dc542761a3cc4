SPECIFICATION Spec
CONSTANTS
  BulkheadCalls = {c1, c2, c3, c4, c5}
  MaxConcurrent = 2
  MaxQueued = 2
  DegradationThreshold = 50
  MaxForfeits = 3
  BreakerCalls = {c1, c2, c3, c4}
  Threshold = 2
  ResetTimeout = 2
  MaxForced = 1
  EnhancedCalls = {c1, c2, c3}
  FailureThreshold = 2
  HalfOpenAttempts = 2
  MaxTimers = 3
  Clients = {a, b, c}
  MinConnections = 2
  MaxConnections = 2
  MaxCreated = 4
  QueueTasks = {t1, t2, t3, t4, t5}
  Limits = {1, 2, 3}
  PoolTasks = {t1, t2, t3, t4}
  Unclonable = {t1}
  None = none
  PoolSize = 2
  MaxThreads = 3
INVARIANTS
  TypeOK
  PlacesAccounted
  BreakersFit
  TasksAccounted
PROPERTIES
  ClosedAsLongAsDue
  StartsAsItShould
  EverythingEnds
CHECK_DEADLOCK FALSE
