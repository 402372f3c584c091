CONSTANTS
  Letter = {a}
  a = a
  SIZE = 3
  Capacity = 6
  MaxLength = 7
SPECIFICATION Spec
INVARIANTS OneChunkAway SameSums
PROPERTIES TransferImplemented BothEnd
CHECK_DEADLOCK FALSE
