SPECIFICATION Spec
CONSTANTS
  ObjSize = 4
  PointerSize = 2
  HeaderSize = 3
  WordBits = 8
  Buffers <- ExactBuffers
  Pages <- ExactPages
  Refill = {TRUE, FALSE}
  MaxBlockList = 3
INVARIANTS
  TypeOK
  BlocksInBounds
  RegionInvariant
  NextRegionExists
  CountsExact
PROPERTY
  ImplementsPool
CHECK_DEADLOCK FALSE
