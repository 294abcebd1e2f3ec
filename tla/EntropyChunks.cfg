\* Requests of up to two chunks.
CONSTANTS
  Num = 8
  IdxMod = 16
  NullAddr = NullAddr
  Frame = {f1, f2}
  ChunkSize = 2
  MaxLength = 4
SPECIFICATION Spec
INVARIANT DeliversFreshBytes
