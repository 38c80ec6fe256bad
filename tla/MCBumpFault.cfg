SPECIFICATION Spec
CONSTANTS
  WordBits = 7
  PageSize = 16
  HeaderSize = 3
  Buffers <- OneBuffer
  Requests <- SomeRequests
  MaxAllocs = 4
INVARIANT
  FailureIsNull
CHECK_DEADLOCK FALSE
