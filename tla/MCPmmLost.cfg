SPECIFICATION Spec
CONSTANTS
  Word = 128
  PageSize = 4
  REGION_COUNT = 2
  ArenaBlocks = 3
  ArenaReserve = 1
  Policies = {"FIRST_FIT"}
  RegionInputs <- MapRegions
  AllocInputs <- MapRequests
  MaxAllocs = 4
INVARIANT
  FreeBytesListed
CHECK_DEADLOCK FALSE
