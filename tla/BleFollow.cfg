SPECIFICATION Spec
CONSTANTS
  MaxSyncs = 1
  QueueDepth = 1
  MaxBis = 2
  Repeats = FALSE
  MaxReports = 3
  MaxRefusals = 1
  MaxInFlight = 3
  MaxGiven = 3
  MaxOps = 2
  Restarts = TRUE
INVARIANTS
  TypeOK
  NothingAfterStop
  FlagsAreReal
  PathsAreSet
PROPERTIES
  PathsOfThisScan
CHECK_DEADLOCK FALSE
