SPECIFICATION DSpec
CONSTANTS
  MaxAddr = 3
  Entry = 1
  MAX_BREAKPOINTS = 2
  Pid = {1}
  Program = {1}
  Byte = {0, 1}
  Image <- MCImage
  Ops <- MCIdOps
PROPERTIES
  IdNamesBreakpoint
CHECK_DEADLOCK FALSE
