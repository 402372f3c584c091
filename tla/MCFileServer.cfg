CONSTANTS
  c1 = c1
  c2 = c2
  t1 = t1
  t2 = t2
  doc = doc
  none = none
  Client = {c1, c2}
  Thread = {t1, t2}
  File = {doc, none}
  Pieces <- TwoNames
  Readers = {c1}
  Gets <- GetTwice
  PipeSize = 1
  MaxNoise = 1
SPECIFICATION Spec
INVARIANTS ReadsDontBlock Routing OneRequestInOrder EndIsEndOfFile
PROPERTIES MainServes ReadersServed
CHECK_DEADLOCK FALSE
