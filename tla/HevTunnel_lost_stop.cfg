SPECIFICATION FairTunnelSpec
CONSTANTS
  Callers = {c1, c2}
  Sessions = {s1}
  MaxStarts = 1
  TunFails = FALSE
  None = None
PROPERTIES
  StopReturns
CHECK_DEADLOCK FALSE
