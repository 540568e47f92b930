SPECIFICATION Spec
CONSTANTS
  Proc = {p1, p2}
  Signature = {0, 1, 2, 3}
  Frame = {f1, f2, f3}
  Value = {v}
  Torn = Torn
  None = None
  SHARED_MEMORY_PER_PROC = 2
  SHARED_MEMORY_GLOBAL = 2
SYMMETRY Symmetry
INVARIANTS
  UsersAreHolders
  HeldIsFound

  
CHECK_DEADLOCK FALSE
