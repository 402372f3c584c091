CONSTANTS
  Letter = {a}
  a = a
  SIZE = 2
  MaxLength = 4
  MAXMSG = 1
  NoQueue = NoQueue
  MaxRuns = 2
  Capacity = 3
  x = x
  y = y
  Asker = {x, y}
  MAX_MESSAGES = 2
  Descriptors = 4
  MaxAsks = 3
  MaxKills = 1
SPECIFICATION Spec
INVARIANTS NoBrokenPipe TokensInARow OneUnderWay
PROPERTIES TransferImplemented BothEnd Answered
CHECK_DEADLOCK FALSE
