SPECIFICATION BadvpnSpec
CONSTANTS
  Wnd = 2
  SndBuf = 2
  RecvBuf = 3
  Password = TRUE
  MaxSent = 4
  MaxReceived = 5
  Locals = {l1, l2}
  Remotes = {r1, r2}
  MaxConnections = 2
  BufferSize = 1
  MaxQueries = 2
  Nothing = Nothing
  ProcLimit = 5
  ProcqLimit = 1
INVARIANTS
  BadvpnTypeOK
  WindowIsRoom
  RelayUnderWay
  ClosedInOrder
  ConnectionsDistinct
  FirstPacketIsOwn
  RepliesFindEntry
  CacheExclusive
  NoLostWakeup
PROPERTIES
  HalfClosedIsFreed
  KilledExits
CHECK_DEADLOCK FALSE
