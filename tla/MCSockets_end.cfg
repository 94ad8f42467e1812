CONSTANTS
  Others = {}
  LuaIntegers = TRUE
  MAX_ACCEPT_COUNT = 1
  MaxAddr = 2
  MaxBuf = 2
  MaxClients = 3
  Peers = {p1, p2}
  None = None
  MaxHandles = 2
SPECIFICATION Spec
PROPERTY EndKeepsData
CHECK_DEADLOCK FALSE
