SPECIFICATION Spec
CONSTANTS
  WordBits = 5
  ProgramCalls <- SomeCalls
  TrapCalls <- SomeTrapCalls
  MaxCalls = 2
  MaxTraps = 1
INVARIANTS
  TypeOK
  FormatAgrees
CHECK_DEADLOCK FALSE
