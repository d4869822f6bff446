SPECIFICATION FairSpec
CONSTANTS
  Arrivals <- MCArrivals
  MaxPacket = 3
  MaxEntries = 3
  MaxDt = 3
  HeaderLen = 1
  EntryLen = 1
  MaxBytes = 10
  MaxPackets = 4
  MaxStops = 2
INVARIANTS
  TypeOK
  OneAtMostAfterStop
  CountsAddUp
  LingerCovers
PROPERTIES
  LossyFifoSpec
  PacketsLeave
CHECK_DEADLOCK FALSE
