CONSTANTS
  p1 = p1
  c1 = c1
  c2 = c2
  Producer = {p1}
  Consumer = {c1, c2}
  BUF_SIZE = 2
  Count = 3
  Spurious = FALSE
SPECIFICATION Spec
INVARIANT BufferInBounds
CHECK_DEADLOCK FALSE
