SPECIFICATION MCSpec
CONSTANTS
  Trees <- All
  Text <- Texts
  Elements = 2
  Fuel = 6
INVARIANTS TypeOK TokensRestored StacksFollowParser ExecuteInSync ForStackFollowsLoops
PROPERTIES IsStructured Termination
\* A script stops.
CHECK_DEADLOCK FALSE
