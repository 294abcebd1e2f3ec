CONSTANTS
  BlockLen = 2
  Blocks = 7
  Direct = 2
  IBlocks = 3
  Wrap = 6
  FileBlocks <- Files
  Pos = {0, 1, 4}
  Size = {0, 1, 3}
  MaxLen = 3
  MaxCalls = 2
SPECIFICATION Spec
INVARIANTS
  OthersKept
  CountsWhatWasDone
  StampedUnlessFailed
PROPERTIES
  CallEnds
CHECK_DEADLOCK FALSE
