SPECIFICATION FairSpec
CONSTANTS
  t1 = t1
  t2 = t2
  Paths <- MCPaths
  KindsOf <- MCDirectory
  Reported <- MCTopLevel
  Threads = {t1, t2}
  NoThread = NoThread
  NoPath = NoPath
  MaxClock = 2
  ClockSkew = 1
INVARIANT
  UpdatesReachCache
PROPERTY
  MutexReleased
