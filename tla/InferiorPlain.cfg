SPECIFICATION FairSpec
CONSTANTS
  MaxAddr = 3
  Entry = 1
  MAX_BREAKPOINTS = 2
  Pid <- MCPid
  Program <- MCProgram
  Byte <- MCByte
  Image <- MCReadableImage
  Ops <- MCPlainOps
INVARIANTS
  PhyIsTrue
  EnabledIsInserted
  CodeIntact
PROPERTIES
  
  DeathNoticed
