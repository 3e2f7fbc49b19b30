CONSTANTS
  Limits = {"off","on"}
  Interruptible = {"startup","script","done"}
  MayAbort = TRUE
  Endings = {"error","exit"}
  MaxCalls = 2
  MaxRegistered = 2
SPECIFICATION FairSpec
INVARIANTS TypeOK TerminateIsOwn CompleteWhileRunning NothingLeft
PROPERTIES RequestEnds ScriptFunctionsCalled AbortSticks
CHECK_DEADLOCK FALSE
