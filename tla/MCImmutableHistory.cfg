SPECIFICATION Spec
CONSTANTS
  Callers = {p, q}
  Configs = {c1, c2}
  Nothing = nothing
  MaxVersions = 1
  MaxNumber = 3
  MaxMishaps = 1
PROPERTIES
  ImmutableHistory
