SPECIFICATION Spec
CONSTANTS
  MaxAddr = 2
  Entry = 1
  MAX_BREAKPOINTS = 2
  Pid = {1}
  Program = {1}
  Byte = {0, 1}
  Image <- MCReadableImage
  Ops <- MCPlainOps
INVARIANTS
  DisabledStaysOut
