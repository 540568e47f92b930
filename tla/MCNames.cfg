SPECIFICATION Spec
CONSTANTS
  Proc = {p1, p2}
  SwapUsers = {p2}
  NSWAP = 2
  SwapName <- MCSwapName
  NINODES = 4
  MaxLost = 1
  p1 = p1
  p2 = p2
  a = a
  b = b
  s0 = s0
  s1 = s1
  Name = {a, b}
  Programs <- MCPrograms
  None = None
CONSTRAINT FewLost
CHECK_DEADLOCK FALSE
INVARIANTS
  RefsAreExact
  NamesAreExact
  InUseIsAllocated
