CONSTANTS
  MAX_BUFF_SIZE = 4
  MaxSize = 4
SPECIFICATION Spec
PROPERTY TransferGoesOn
CHECK_DEADLOCK FALSE
