SPECIFICATION HccSpec
CONSTANTS
  NativeSize = 4
  CountBits = 4
  Room = 26
  HttpCodes = {200, 302, 400, 401, 403, 404, 409, 429, 499, 500, 501, 503, 504}
  MaxPieces = 3
  StringLength = 11
  HashLength = 2
  BufferBits = 12
  Texts <- MCTexts
  Slips = {0, 2, 31, 33, 47, 58, 59}
CHECK_DEADLOCK FALSE
INVARIANTS
  FlipsBuffer
  SignedInFull
  SuccessIsWhole
  CidNamesItsHash
