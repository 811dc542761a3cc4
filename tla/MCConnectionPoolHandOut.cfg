SPECIFICATION Spec
CONSTANTS
  Clients = {a, b, c}
  MinConnections = 2
  MaxConnections = 2
  MaxCreated = 5
CHECK_DEADLOCK FALSE
INVARIANT HandedOutOnce
