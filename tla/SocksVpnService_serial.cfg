SPECIFICATION Spec
CONSTANTS
  Main = main
  Binders = {b1}
  Events = {"start", "sysstart", "stop", "unbind"}
  HevChoices = {TRUE, FALSE}
  Overlap = FALSE
  MaxSessions = 2
  MaxQueue = 1
INVARIANTS
  SettledStoppedIsClean
PROPERTIES
  PostedStopEndsOwnSession
CHECK_DEADLOCK FALSE
