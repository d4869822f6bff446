SPECIFICATION Spec
CONSTANTS
  MaxSyncs = 1
  QueueDepth = 1
  MaxBis = 1
  Repeats = FALSE
  MaxReports = 3
  MaxRefusals = 0
  MaxInFlight = 3
  MaxGiven = 3
  MaxOps = 3
  Restarts = TRUE
PROPERTIES
  FreshScan
CHECK_DEADLOCK FALSE
