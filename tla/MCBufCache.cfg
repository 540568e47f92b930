SPECIFICATION Spec
CONSTANTS
  Proc = {p1, p2}
  Block = {k1, k2, k3}
  Written = {k1}
  Value = {0, 1}
  Blank = 0
  Faulty = {k2}
  NBUF = 2
  None = None
CHECK_DEADLOCK FALSE
INVARIANTS
  BuffersAreExact
  ReadsAreCurrent
  NothingIsLost
PROPERTIES
  RequestsFinish
