SPECIFICATION Spec
CONSTANTS
  Instances = {i1, i2}
  Watchers = {a, b, o}
  OneShot = {o}
  Refreshes = {1, 2}
  MaxChanges = 2
  Observed = {"static"}
  Ids = {i1, i2}
  Services = {s1, s2}
  Name = s1
  NoService = none
  MaxStarts = 2
  Keys = {k1, k2}
  Values = {v1}
  Undefined = undefined
  Checks = {1, 2}
  CacheKeys = {k1, k2}
  Fills = {f1, f2}
  MaxSize = 1
  Ttl = 1
  Names = {"n1", "n2"}
  Assignments <- MCAssignments
  UsedAtMost = 90
  Runs = {1, 2}
  Threshold = 50
  MaxHealthChanges = 3
INVARIANTS
  TypeOK
  CopiesAgree
  CacheIsTruthful
PROPERTIES
  PublishedIsRegular
  CatchesUp
CHECK_DEADLOCK FALSE
