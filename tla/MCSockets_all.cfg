CONSTANTS
  Others = {"close", "interrupt"}
  LuaIntegers = FALSE
  MAX_ACCEPT_COUNT = 1
  MaxAddr = 2
  MaxBuf = 2
  MaxClients = 3
  Peers = {p1, p2}
  None = None
  MaxHandles = 2
SPECIFICATION FairSockSpec
INVARIANTS WaitingIsExact WakesItsOwn ConnectedIsConnected AcceptQueue OnlyFromPeer
PROPERTIES TimeoutWakes ErrorWakes
CHECK_DEADLOCK FALSE
