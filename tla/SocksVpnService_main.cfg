SPECIFICATION FairSpec
CONSTANTS
  Main = main
  Binders = {}
  Events = {"start", "sysstart", "stop", "unbind"}
  HevChoices = {TRUE, FALSE}
  Overlap = TRUE
  MaxSessions = 2
  MaxQueue = 2
INVARIANTS
  TypeOK
  TunnelBelongsToSession
  StoppedClosesInterface
  SettledRunningIsUp
PROPERTIES
  ImplementsVpnSession
  ConnectingEnds
CHECK_DEADLOCK FALSE
