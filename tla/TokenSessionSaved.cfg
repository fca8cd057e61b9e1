SPECIFICATION Spec
CONSTANTS
  Workers = {w1}
  Main = main
  NoActor = NoActor
  MaxTokens = 4
  Rotates = TRUE
  DiskFails = FALSE
  Torn = Torn
INVARIANT
  SavedTokenCurrent
