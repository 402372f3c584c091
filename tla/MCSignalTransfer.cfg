CONSTANTS
  MAX_BUFF_SIZE = 4
  MaxSize = 14
SPECIFICATION Spec
INVARIANTS InOrder LossIsLone
CHECK_DEADLOCK FALSE
