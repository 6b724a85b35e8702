SPECIFICATION Spec
CONSTANTS
  Main = main
  Binders = {}
  Events = {"start"}
  HevChoices = {FALSE}
  Overlap = TRUE
  MaxSessions = 2
  MaxQueue = 1
PROPERTIES
  PostedStopEndsOwnSession
CHECK_DEADLOCK FALSE
