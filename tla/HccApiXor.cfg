SPECIFICATION HccSpec
CONSTANTS
  NativeSize = 4
  CountBits = 4
  Room = 26
  HttpCodes = {200, 404}
  MaxPieces = 1
  StringLength = 11
  HashLength = 2
  BufferBits = 12
  Texts <- MCTexts
  Slips = {0}
CHECK_DEADLOCK FALSE
INVARIANT
  StaysInBuffer
