SPECIFICATION FairSpec
CONSTANTS
  Streams <- MCStreams
  HeaderLen = 2
  MaxPayload = 7
  DmaLen = 4
  RingSize = 5
  Chunk = 2
  BufSize = 6
  MaxLost = 1
  MaxErrors = 1
INVARIANTS
  TypeOK
  ReaderKeepsAll
  LossIsContained
PROPERTIES
  EveryCommandHandled
CHECK_DEADLOCK FALSE
