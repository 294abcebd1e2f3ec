CONSTANTS
  Num = 5
  IdxMod = 10
  NullAddr = NullAddr
  Frame = {f1, f2}
  Sector = {s1, s2}
  Data = {d1, d2}
SPECIFICATION Spec
INVARIANTS
  TypeOK
  ServesCurrentRequest
  CompletionIsReal
PROPERTIES
  NoStrayWrite
  RefinesSectorDisk
  ImplementsSectorDisk
