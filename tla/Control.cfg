SPECIFICATION Spec
CONSTANTS
  Channels <- MCChannels
  BootChannel = 11
  Values <- MCValues
  Radios <- MCRadios
  Phys = {0, 4, 256}
  Timings <- MCTimings
  Entries <- MCEntries
  BadEntry = "bad"
  KeyFrames <- MCKeys
  FilterFrames <- MCFilters
  MaxKeys = 2
  MaxFilter = 1
  Wide = 65536
  MaxCommands = 7
  MaxRefusals = 2
  MaxLapses = 1
INVARIANTS
  TypeOK
  OneReceiver
  HostIsRight
  KeysLiveOneCapture
PROPERTIES
  StartsAsAsked
CHECK_DEADLOCK FALSE
