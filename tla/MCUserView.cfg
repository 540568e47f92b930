SPECIFICATION UserSpec
CONSTANTS
  Proc = {p1, p2}
  InitProc = p1
  Pgdir = {d1, d2, d3}
  Frame = {1, 2, 3, 4}
  BootList <- Boot4
  None = None
  Value = {0, 1}
  Zero = 0
  Text = 0
  TextPages = 1
  USERTOP = 4
  UINT_MAX = 100
SYMMETRY Symmetry
CHECK_DEADLOCK FALSE
PROPERTIES
  MemoryIsPrivate
