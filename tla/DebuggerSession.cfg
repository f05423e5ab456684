SPECIFICATION DSpec
CONSTANTS
  MaxAddr = 3
  Entry = 1
  MAX_BREAKPOINTS = 2
  Pid <- MCPid
  Program = {1}
  Byte = {0}
  Image <- MCZeroImage
  Ops <- MCAllOps
INVARIANTS
  DTypeOK
  TrapOwned
  OgByteIsProgram
  ExitLeavesNothing
PROPERTIES
  LaunchedDies
  ImplementsSession
CHECK_DEADLOCK FALSE
