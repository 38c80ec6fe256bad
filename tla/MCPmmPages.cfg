SPECIFICATION Spec
CONSTANTS
  Word = 128
  PageSize = 4
  REGION_COUNT = 2
  ArenaBlocks = 4
  ArenaReserve = 2
  Policies = {"FIRST_FIT"}
  RegionInputs <- PageRegions
  AllocInputs <- PageRequests
  MaxAllocs = 5
INVARIANTS
  FreeBytesListed
  FirstFitComplete
  NeverHalts
CHECK_DEADLOCK FALSE
