SPECIFICATION FairSpec
CONSTANTS
  Channels <- MCChannels
  Times <- MCTimes
  Lens <- MCLens
  MaxEntries = 3
  MaxPsdu = 5
  MaxDt = 3
  HeaderLen = 2
  EntryLen = 1
  MaxBytes = 9
  MaxPackets = 3
INVARIANTS
  TypeOK
  LingerCovers
PROPERTIES
  LossyFifoSpec
  PacketsLeave
CHECK_DEADLOCK FALSE
