SPECIFICATION Spec
CONSTANTS
  NPROC = 4
  Cpu = {c1, c2}
  Killable = {2}
  None = None
  Event = Event
INVARIANTS
  OneStackEach
  ParentIsAlive
  SleepersAreWoken
SYMMETRY Symmetry
