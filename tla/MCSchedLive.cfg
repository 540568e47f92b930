SPECIFICATION Spec
CONSTANTS
  NPROC = 3
  Cpu = {c1}
  Killable = {2}
  None = None
  Event = Event
PROPERTIES
  RunnableRuns
  KilledExits
  OrphansAreReaped
