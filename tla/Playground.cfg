SPECIFICATION PlaygroundFairSpec
CONSTANTS
  cid = cid
  bos = bos
  Processes = {p1, p2}
  Home = p1
  Threads = {t1, t2}
  Reads <- MCReads
  ElsewhereBlocks = {cid}
  Hashed = {cid}
  Legacy = {bos}
  Keys = {k}
  Short = Short
  Junk = Junk
  Genuine = Genuine
  Nothing = Nothing
INVARIANTS
  TypeOK
  HashedIsGenuine
  TrustsWhatItReturned
PROPERTY
  ReadEnds
