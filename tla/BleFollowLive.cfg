SPECIFICATION FairSpec
CONSTANTS
  MaxSyncs = 1
  QueueDepth = 2
  MaxBis = 1
  Repeats = TRUE
  MaxReports = 0
  MaxRefusals = 0
  MaxInFlight = 1
  MaxGiven = 1
  MaxOps = 1
  Restarts = FALSE
PROPERTIES
  RequestsEnd
CHECK_DEADLOCK FALSE
