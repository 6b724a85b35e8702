SPECIFICATION Spec
CONSTANTS
  None = None
  Proxies = {p1, p2}
  Dead = {}
  ProbeOn = TRUE
  CacheIp = TRUE
  MaxFailures = 3
  MaxSessions = 2
  MaxSleeps = 0
INVARIANTS
  SavedUnderOwnKey
CHECK_DEADLOCK FALSE
