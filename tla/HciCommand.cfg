SPECIFICATION FairSpec
CONSTANTS
  Callers <- MCCallers
  Coop <- MCCoop
  Opcodes = {1, 2}
  MaxCalls = 3
  MaxTimeouts = 3
  MaxFailures = 1
INVARIANTS
  TypeOK
  AnswerIsOwn
  BufferNotKept
PROPERTIES
  EveryCallReturns
CHECK_DEADLOCK FALSE
