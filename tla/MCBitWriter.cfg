SPECIFICATION Spec
CONSTANTS
  ByteBits = 3
  WordBytes = 2
  Capacity = 7
  Codes <- SomeCodes
INVARIANTS
  TypeOK
  Written
  CursorInv
CHECK_DEADLOCK FALSE
