SPECIFICATION Spec
CONSTANTS
  Calls = {c1, c2, c3, c4, c5}
  MaxConcurrent = 2
  MaxQueued = 2
  DegradationThreshold = 50
  MaxForfeits = 3
INVARIANT AtMostMaxConcurrent
