SPECIFICATION Spec
CONSTANTS
  WordBits = 7
  PageSize = 16
  HeaderSize = 3
  Buffers <- ThreeBuffers
  Requests <- SomeRequests
  MaxAllocs = 4
INVARIANTS
  TypeOK
  NoOverlap
  Aligned
  UsedListSorted
PROPERTIES
  RegionsKept
  NullOnlyWhenFull
CHECK_DEADLOCK FALSE
