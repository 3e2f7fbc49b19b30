SPECIFICATION MCSpec
CONSTANTS
  Trees <- Condition
  Text <- Texts
  Elements = 2
  Fuel = 3
PROPERTIES IsStructured
\* A script stops.
CHECK_DEADLOCK FALSE
