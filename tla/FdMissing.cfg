\* Paths that name nothing, too.
CONSTANTS
  MaxFd = 3
  Elements = 2
  Path = {eve, random5, missing, dirMissing}
  FileOf <- AllFiles
  Lookup <- AllLookup
  Image = {"supported"}
  NoIno = NoIno
  NoPath = NoPath
  eve = eve
  random5 = random5
  missing = missing
  dirMissing = dirMissing
  inoEve = inoEve
  inoRandom5 = inoRandom5
  inoDir = inoDir
  Ino = {inoEve, inoRandom5, inoDir}
  Offset <- Offsets
  Size = {0, 1}
  PosMod = 4
  IntMod = 4
SPECIFICATION Spec
INVARIANTS
  MissingIsRefused
CHECK_DEADLOCK FALSE
