SPECIFICATION Spec
CONSTANTS
  Subjects = {"LoadBalancer", "RateLimit", "Collections", "Application"}
  Ids = {"i1", "i2", "i3"}
  Weight <- MCWeight
  VirtualNodes <- MCNodes
  KeyHashes <- MCHashes
  MaxPicks = 4
  MaxEdits = 2
  MaxGenerations = 2
  Limits = {2, 3}
  Windows = {1, 2}
  Costs = {1, 2}
  Stores = {1, 2}
  SeenMax = 2
  SeenWindow = 2
  MaxTime = 5
  MaxCalls = 3
  MaxResets = 2
  Keys = {k1, k2, k3}
  MaxEntries = 2
  Ttl = 1
  Numbers <- MCNumbers
  Elements = {"any", "Int8", "Uint8", "Int16"}
  Items = {1, 2}
  Capacity = 3
  Priorities = {0, 1}
  MaxHeap = 6
  MaxSteps = 8
  Hashes <- MCFilterHashes
  Bits = 5
  HashFunctions = 3
  MaxCounter = 7
  ImportGraphs <- MCImports
  RootModules <- MCRootModules
  Wirings <- MCWirings
  Closers = {s1, s2}
INVARIANTS
  TypeOK
  ContainersHold
  UpAndDown
PROPERTIES
  BalancersFair
  LimitsHold
CHECK_DEADLOCK FALSE
