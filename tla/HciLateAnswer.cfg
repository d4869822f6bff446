SPECIFICATION Spec
CONSTANTS
  Callers <- MCCallers
  Coop <- MCCoop
  Opcodes = {1}
  MaxCalls = 2
  MaxTimeouts = 1
  MaxFailures = 0
INVARIANTS
  AnswerIsAlwaysOwn
CHECK_DEADLOCK FALSE
