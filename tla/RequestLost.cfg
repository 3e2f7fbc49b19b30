CONSTANTS
  Limits = {"on"}
  Interruptible = {}
  MayAbort = FALSE
  Endings = {"error","exit"}
  MaxCalls = 2
  MaxRegistered = 2
SPECIFICATION Spec
PROPERTIES TimeLimitAborts
CHECK_DEADLOCK FALSE
