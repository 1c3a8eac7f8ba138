SPECIFICATION Spec
CONSTANTS
  Byte = {"a", "b"}
  MaxLen = 4
  Block = 2
INVARIANTS
  TrueIfSame
