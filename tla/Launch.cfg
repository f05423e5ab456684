SPECIFICATION FairSpec
CONSTANTS
  MaxRuns = 2
INVARIANTS
  TypeOK
  Accounted
  TrackedChild
  BreakpointsInProgram
  ReporterStops
PROPERTIES
  HandshakeEnds
CHECK_DEADLOCK FALSE
