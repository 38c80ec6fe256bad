SPECIFICATION BootSpec
CONSTANTS
  WordBits = 16
  NodeNames = {"soc"}
  Properties <- SomeProperties
  MaxNodes = 3
  MaxProps = 3
  Blobs <- SomeBlobs
  VirtioDevices <- SomeVirtioDevices
  bsp_hartid = 1
  map_capacity = 2
INVARIANTS
  TypeOK
  TreeMirrorsBlob
  CellsInherited
  LookupFinds
  DriversMatchTree
  RegisteredDriversLive
CHECK_DEADLOCK FALSE
