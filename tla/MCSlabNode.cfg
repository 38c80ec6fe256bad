SPECIFICATION Spec
CONSTANTS
  ObjSize = 72
  PointerSize = 8
  HeaderSize = 32
  WordBits = 14
  Buffers = {}
  Pages <- NodePages
  Refill = {TRUE}
  MaxBlockList = 0
INVARIANT
  BlocksInBounds
CHECK_DEADLOCK FALSE
