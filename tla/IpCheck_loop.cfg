SPECIFICATION FairSpec
CONSTANTS
  None = None
  Proxies = {p1, p2, p3}
  Dead = {p3}
  ProbeOn = TRUE
  CacheIp = TRUE
  MaxFailures = 3
  MaxSessions = 3
  MaxSleeps = 1
INVARIANTS
  TypeOK
  LoopStaysAlive
  VerdictsAreOwn
  SavedOwnUnlessOverlapped
PROPERTIES
  DeadProxyIsTornDown
CHECK_DEADLOCK FALSE
