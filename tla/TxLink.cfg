SPECIFICATION FairSpec
CONSTANTS
  Threads <- MCThreads
  Priority <- MCPriority
  CoopPriority = 5
  TxPriority = 3
  Reader = "reader"
  SendsControl <- MCControl
  SendsData <- MCData
  Lens = {2, 3, 9}
  MaxFrame = 4
  Size = 7
  Reserve = 3
  Chunk = 2
  MaxSends = 3
  MaxFailures = 1
  MaxResets = 1
INVARIANTS
  TypeOK
  StreamIntact
  CountsExact
  HighWaterHolds
PROPERTIES
  ReserveServesControl
  Drains
CHECK_DEADLOCK FALSE
