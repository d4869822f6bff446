SPECIFICATION Spec
CONSTANTS
  Channels <- MCChannels
  Asked <- MCAsked
  BootChannel = 11
  MaxOps = 3
  MaxFrames = 3
  MaxRefusals = 1
  MaxLapses = 1
  MaxTimeouts = 1
INVARIANTS
  TypeOK
  StopIsClean
  RadioAsBelieved
  ReadingIsOwn
  RecordsAreTrue
CHECK_DEADLOCK FALSE
