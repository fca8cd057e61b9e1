SPECIFICATION FairSpec
CONSTANTS
  Workers = {w1, w2}
  Main = main
  NoActor = NoActor
  MaxTokens = 3
  Rotates = TRUE
  DiskFails = TRUE
  Torn = Torn
INVARIANTS
  TypeOK
  PairMatched
  KeepsSession
PROPERTY
  QuitEnds
