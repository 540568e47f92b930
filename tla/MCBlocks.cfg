SPECIFICATION Spec
CONSTANTS
  p1 = p1
  p2 = p2
  i1 = i1
  i2 = i2
  i3 = i3
  Proc = {p1, p2}
  Ino = {i1, i2, i3}
  FileIno <- MCFileIno
  Files <- MCFiles
  SwapFile = {2}
  BSIZE = 2
  NDIRECT = 1
  NBLOCKS = 4
  Image <- MCImage
  MaxChunk = 2
  Writes <- MCWrites
  ReadSize = 3
  None = None
CHECK_DEADLOCK FALSE
INVARIANTS
  BlocksAreExact
  ContentsAreExact
  SharedWritesAppend
