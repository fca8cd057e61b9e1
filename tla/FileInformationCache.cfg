SPECIFICATION Spec
CONSTANTS
  t1 = t1
  t2 = t2
  Paths <- MCPaths
  KindsOf <- MCKindsOf
  Reported <- MCReported
  Threads = {t1, t2}
  NoThread = NoThread
  NoPath = NoPath
  MaxClock = 2
  ClockSkew = 0
SYMMETRY Symmetry
INVARIANTS
  TypeOK
  RootCached
  UniqueNames
  UpdatesReachCache
PROPERTY
  AnswersAreCurrent
