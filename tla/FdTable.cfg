\* Paths that exist, on a supported file system: a table of three, which fills.
CONSTANTS
  MaxFd = 3
  Elements = 2
  Path = {eve, random5}
  FileOf <- Files
  Lookup <- FilesLookup
  Image = {"supported"}
  NoIno = NoIno
  NoPath = NoPath
  eve = eve
  random5 = random5
  missing = missing
  dirMissing = dirMissing
  inoEve = inoEve
  inoRandom5 = inoRandom5
  inoDir = inoDir
  Ino = {inoEve, inoRandom5, inoDir}
  Offset <- Offsets
  Size = {0, 1}
  PosMod = 4
  IntMod = 4
SPECIFICATION Spec
INVARIANTS
  AccessesNamedFile
  NullOnlyOnStdout
PROPERTIES
  KeepsItsFile
CHECK_DEADLOCK FALSE
