SPECIFICATION SuiteSpec
CONSTANTS
  Lockers = {c1, c2, c3, c4}
  Clients = {a, b, 1, 2}
  Slots = 2
  Tasks = 4
  OnceCallers = {a, b, c}
  MaxRuns = 3
  MaxResets = 2
  LoadCallers = {a, b}
  Keys = {k1, k2}
  Given = given
  Nothing = nothing
  MaxLoads = 3
  MaxDeletes = 2
INVARIANTS
  SuiteTypeOK
  CapacityRespected
  NoIdleSlot
  Exclusion
  NobodyStranded
  ComputationsShared
PROPERTIES
  NoReaderOvertakesWriter
  LimitersAreFair
  EverybodyAnswered
CHECK_DEADLOCK FALSE
