CONSTANTS
  Num = 4
  IdxMod = 8
  NullAddr = NullAddr
  Buffer = {b1, b2}
  Text = {t1, t2}
SPECIFICATION Spec
INVARIANTS
  PrintsOnce
PROPERTIES
  WriteReturns
