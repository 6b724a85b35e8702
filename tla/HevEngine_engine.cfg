SPECIFICATION EngineSpec
CONSTANTS
  Callers = {c1, c2}
  Sessions = {s1, s2}
  MaxStarts = 2
  TunFails = TRUE
  None = None
  Window = 2
  Ring = 2
  MaxUp = 3
  MaxDown = 3
  PoolSize = 2
  CopyNums = 2
  MaxFrames = 4
  MaxReplies = 2
INVARIANTS
  EngineTypeOK
  WritesToOpenPair
  NoWakeAborts
  TimerServesSessions
  NoSleepOverWork
  OrderlyEndIsComplete
  FramesKeepOrder
PROPERTIES
  StopOfRunningReturns
  TerminatedSessionsEnd
  ClosedEnds
CHECK_DEADLOCK FALSE
