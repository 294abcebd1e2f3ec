CONSTANTS
  BlockLen = 8
  SectorLen = 4
  MaxBlocks = 2
  Char = {".", "a", "b", "c", "d", "e", "v"}
  Nul = Nul
  Inode <- Files
  Entries <- Directories
  FileData <- Contents
  Dir = {2, 3}
  Root = 2
  Paths <- Longer
  Stack <- StackCells
  Misread <- Anything
  MayFail = FALSE
SPECIFICATION WalkSpec
INVARIANTS
  MissingIsReported
