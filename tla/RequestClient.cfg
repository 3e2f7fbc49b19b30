CONSTANTS
  Limits = {"off"}
  Interruptible = {}
  MayAbort = TRUE
  Endings = {}
  MaxCalls = 2
  MaxRegistered = 2
SPECIFICATION Spec
PROPERTIES AbortCallsFunctions
CHECK_DEADLOCK FALSE
