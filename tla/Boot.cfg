CONSTANTS
  ArenaSizes <- Arenas
  Elements = 2
  ForeverStart = 24576
  ForeverStop = 106496
  HeapStart = 106496
  HeapEnd = 114688
  Page = 4096
  BrkStart = 114688
  Machines <- AllMachines
  Number = {17, 64, 93, 96, 115, 209, 210, 214, 222}
  Value = {0, 7}
  Faults = {2, 5, 7}
  MaxUser = 4
  MaxFrames = 4
SPECIFICATION Spec
INVARIANTS
  BlocksApart
  DrivesScannedDevice
  RingsAgree
  UserContextKept
PROPERTIES
  BootsToUser
  FaultsStop
CHECK_DEADLOCK FALSE
