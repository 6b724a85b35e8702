SPECIFICATION Spec
CONSTANTS
  Profiles = {p1, p2}
  None = None
  BinderStops = FALSE
  Cancels = TRUE
  PersistTicks = 2
  UidStart = 1
  MaxSessions = 3
  MaxBytes = 3
PROPERTIES
  UsageNeverShrinks
CHECK_DEADLOCK FALSE
