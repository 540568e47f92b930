SPECIFICATION Spec
CONSTANTS
  Word <- MCWord
  Line <- MCLine
  Again <- MCAgain
  MaxLines = 2
  MAXARGS = 3
  PID = {1, 2, 3, 4, 5}
  NOFILE = 6
  Reader = {r1, r2}
  Char = {"a"}
  INPUT_BUF = 3
  UINT = 6
  MaxRead = 2
  UNITS = 16
  HEADER = 8
  MINUNITS = 3
  Request = {0, 8, 20}
  Letter = {"a", "b"}
  MaxText = 3
  MEM = 4
  DIRSIZ = 14
  FIELD = 2
  NSWAP = 6
  PidOf <- MCPidOf
  BYTE = 4
INVARIANTS
  ParseIsGrammar
  DescriptorsAreExact
  ForegroundIsDone
  HeapIsExact
  AnswersAreExact
PROPERTIES
  PromptReturns
  LinesAreExact
