SPECIFICATION Spec
CONSTANTS
  Channels <- MCChannels
  BootChannel = 11
  Values <- MCValues
  Radios <- MCRadios
  Phys = {1, 256}
  Timings <- MCTimings
  Entries <- MCEntries
  BadEntry = "bad"
  KeyFrames <- MCKeys
  FilterFrames <- MCFilters
  MaxKeys = 2
  MaxFilter = 1
  Wide = 65536
  MaxCommands = 5
  MaxRefusals = 0
  MaxLapses = 0
PROPERTIES
  FilterAsAsked
CHECK_DEADLOCK FALSE
