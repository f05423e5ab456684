SPECIFICATION Spec
CONSTANTS
  MaxAddr = 2
  Entry = 1
  MAX_BREAKPOINTS = 2
  Pid <- MCPid
  Program <- MCProgram
  Byte = {0}
  Image <- MCZeroImage
  Ops <- MCProcessOps
INVARIANTS
  PidIsOurs
  OneTracee
  QuietAtPrompt
  FreeIsClean
PROPERTIES
  AttachedSurvives
