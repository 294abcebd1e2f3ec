CONSTANTS
  BlkSize = 2
  Sectors = 3
  MaxSize = 4
  MaxCalls = 2
  Byte = {0, 1}
  Disk <- DiskValues
  Input <- InputValues
SPECIFICATION Spec
INVARIANTS
  NeighboursKept
  WriteResult
  ReadResult
PROPERTIES
  CallReturns
CHECK_DEADLOCK FALSE
