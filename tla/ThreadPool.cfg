SPECIFICATION FairSpec
CONSTANTS
  Workers = {w1, w2}
  Producers = {p1, p2}
  Destroyer = d
  Nobody = Nobody
  NoTask = NoTask
  Tasks = {k1, k2, k3}
CHECK_DEADLOCK FALSE
INVARIANTS
  TypeOK
  NoLostWakeup
PROPERTIES
  DestructorReturns
  ImplementsTaskPool
