SPECIFICATION FairSpec
CONSTANTS
  Tasks = {1, 2}
  Capacity = 2
  Clients = {c1, c2}
  Ids = {a, b}
  NoId = NoId
  Destroys = TRUE
  MaxSlips = 1
CHECK_DEADLOCK FALSE
INVARIANTS
  TypeOK
  RunningIsWorkedOn
  ReadyMeansDownloaded
  NobodyBlockedAtEnd
PROPERTY
  WaitReturns
