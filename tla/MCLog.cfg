SPECIFICATION Spec
CONSTANTS
  Proc = {p1, p2}
  Block = {b1, b2, b3}
  Value = {0, 1}
  Blank = 0
  NoBuf = NoBuf
  MAXOPBLOCKS = 3
  OPBLOCKS = 2
  LOGSIZE = 6
  SIZE = 6
INVARIANTS
  LogIsExact
PROPERTIES
  SleepersWake
  OperationsAreAtomic
