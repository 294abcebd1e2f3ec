\* Requests of at most one chunk, such as the 8 bytes of configure_dl_random,
\* from different stack frames.
CONSTANTS
  Num = 8
  IdxMod = 16
  NullAddr = NullAddr
  Frame = {f1, f2}
  ChunkSize = 2
  MaxLength = 2
SPECIFICATION Spec
INVARIANTS
  DeliversFreshBytes
PROPERTIES
  NoStrayWrite
  CallReturns
