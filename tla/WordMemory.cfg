SPECIFICATION Spec
CONSTANTS
  WordSize = 2
  MaxAddr = 5
  Access <- MCAccess
  Byte = {0, 204, 255}
  Ones = 255
  SignBit = {204, 255}
  BpAddr = {1, 2, 3, 4}
  MaxBytes = 3
  MaxRows = 2
  Line <- MCLine
INVARIANTS
  TypeOK
  OwnBytesKept
PROPERTIES
  ImplementsBytes
  FailsForCause
  FailureHarmless
  AcceptedLine
