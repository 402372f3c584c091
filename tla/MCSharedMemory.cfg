CONSTANTS
  Letter = {a}
  a = a
  SIZE = 2
  MaxLength = 5
  MaxRuns = 2
SPECIFICATION Spec
INVARIANT Alternation
PROPERTIES TransferImplemented BothEnd
CHECK_DEADLOCK FALSE
