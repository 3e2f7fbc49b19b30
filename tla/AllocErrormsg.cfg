CONSTANTS
  Block = {b1,b2,b3,b4}
  NULL = NULL
  Size = {1,2,4}
  MAX_CACHED_MEMORY = 3
  MAX_CACHED_ENTRIES = 2
  memory_limit = 5
  Reserve = 2
  ErrormsgGrows = TRUE
SYMMETRY BlockSymmetry
SPECIFICATION Spec
INVARIANT HandedOut
CHECK_DEADLOCK FALSE
