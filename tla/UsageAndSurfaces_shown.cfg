SPECIFICATION ShownSpec
CONSTANTS
  Profiles = {p1, p2}
  None = None
  BinderStops = FALSE
  Cancels = FALSE
  PersistTicks = 2
  UidStart = 1
  MaxSessions = 2
  MaxBytes = 2
  AppEvents = 2
  BubbleEvents = 4
  MaxCommands = 1
INVARIANTS
  ShownTypeOK
  StoppedIsSaved
  CountsWhileUp
  KillLosesLittle
  RebindPending
PROPERTIES
  SurfacesSettle
CHECK_DEADLOCK FALSE
