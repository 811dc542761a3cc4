SPECIFICATION Spec
CONSTANTS
  Messages = {m1}
  Subscribers = {a, b, c}
  MaxRetries = 2
  BufferSize = 2
  MaxEntries = 4
  Unserializable = {3}
  Services = {s1, s2, s3}
  Nobody = nobody
  Callers = {p, q}
  k1 = k1
  k2 = k2
  Keys <- MCKeys
  Needs <- MCChain
  Nothing = nothing
  MaxMade = 2
  MaxClears = 1
  Transports = {1, 2}
  MaxLogged = 3
  MaxKept = 2
  MaxSwaps = 1
  MaxLines = 5
  Big = {2, 4}
  MaxSize = 3
  FileCounts = {1, 2, 3, 4}
  BatchSize = 2
INVARIANTS
  RefusedIsCircular
CHECK_DEADLOCK FALSE
