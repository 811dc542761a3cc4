SPECIFICATION Spec
CONSTANTS
  Calls = {c1, c2, c3}
  FailureThreshold = 2
  HalfOpenAttempts = 2
  ResetTimeout = 2
  MaxTimers = 3
PROPERTY FullResetTimeout
