CONSTANTS
  BlockLen = 8
  SectorLen = 4
  MaxBlocks = 2
  Char = {".", "a", "b", "c", "d", "e", "v"}
  Nul = Nul
  Inode <- Files
  Entries <- Directories
  FileData <- Contents
  Dir = {2, 3}
  Root = 2
  Paths <- All
  Stack <- StackCells
  Misread <- Anything
  MayFail = TRUE
SPECIFICATION WalkSpec
INVARIANTS
  ResolvesExactly
  RestIntact
PROPERTIES
  WalkEnds
\* A walk that has overwritten the stack goes no further.
CHECK_DEADLOCK FALSE
