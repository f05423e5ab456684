SPECIFICATION LSpec
CONSTANTS
  Name <- MCName
  Address <- MCAddress
  Path = {"here", "bin", "nowhere"}
  Word = {"w1", "w2", "w3"}
  File <- MCFile
  Here <- MCHere
  InPATH <- MCInPATH
  NoPath = NoPath
  Denied = Denied
  NotFound = NotFound
  Length <- MCLength
  Ret = {9}
  Window = 3
  SizeMod = 32
  ProcAddr <- MCProcAddr
INVARIANTS
  LTypeOK
  LabelsOfProgram
  NoForeignLabel
  ListsProgram
  FunctionListed
  BreakAndListAgree
PROPERTIES
  CurrentListed
