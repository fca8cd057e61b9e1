SPECIFICATION Spec
CONSTANTS
  MaxRanges = 2
  MaxCount = 3
  MaxBlockSize = 3
  Layouts <- MCLayouts
  MaxRequest = 7
  Batch = 2
  NativeSize = 2
CHECK_DEADLOCK FALSE
INVARIANTS
  TypeOK
  ReadReturnsFile
  FailsOnlyAcrossRanges
