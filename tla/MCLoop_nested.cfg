CONSTANTS
  DeferDepth = 2
  NestIn = {"event"}
  Errors = {"e1", "e2", "nil"}
  Nil = "nil"
  StartWhileClosing = TRUE
  MaxQueue = 3
  MaxAlive = 2
  MaxStack = 7
SPECIFICATION Spec
INVARIANTS PopSucceeds DeferredInOrder
PROPERTIES ErrorsAreRaised
CHECK_DEADLOCK FALSE
