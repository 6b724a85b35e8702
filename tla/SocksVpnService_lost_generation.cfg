SPECIFICATION Spec
CONSTANTS
  Main = main
  Binders = {b1}
  Events = {"start"}
  HevChoices = {FALSE}
  Overlap = TRUE
  MaxSessions = 3
  MaxQueue = 1
INVARIANTS
  OrphanIsStale
CHECK_DEADLOCK FALSE
