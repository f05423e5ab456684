SPECIFICATION FairSpec
CONSTANTS
  MaxRuns = 1
PROPERTIES
  RunStartsOrFails
CHECK_DEADLOCK FALSE
