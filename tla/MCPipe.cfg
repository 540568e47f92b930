SPECIFICATION Spec
CONSTANTS
  Proc = {p1, p2}
  First = p1
  Killable = {p2}
  NOFILE = 2
  NFILE = 2
  Writes <- MCWrites
  PIPESIZE = 2
  UINT = 4
  MAXREAD = 2
  None = None
CHECK_DEADLOCK FALSE
INVARIANTS
  EndsAreExact
  SleepersHaveReason
PROPERTIES
  PipeIsStream
  ReadersFinish
