SPECIFICATION Spec
CONSTANTS
  Main = main
  Binders = {b1}
  Events = {"start", "stop"}
  HevChoices = {FALSE}
  Overlap = FALSE
  MaxSessions = 1
  MaxQueue = 2
INVARIANTS
  StoppedClosesInterface
CHECK_DEADLOCK FALSE
