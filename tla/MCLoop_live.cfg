CONSTANTS
  DeferDepth = 2
  NestIn = {}
  Errors = {"e1", "e2", "nil"}
  Nil = "nil"
  StartWhileClosing = FALSE
  MaxQueue = 3
  MaxAlive = 2
  MaxStack = 4
SPECIFICATION FairSpec
INVARIANTS FirstPassDrains
PROPERTIES ProceedTerminates StopEndsRun CloseAllTerminates
CHECK_DEADLOCK FALSE
