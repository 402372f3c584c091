CONSTANTS
  Dirs = {"root", "sub", "deep"}
  Root = "root"
  Parent <- Chain
  Paths <- Files
  MaxChanges = 3
SPECIFICATION Spec
INVARIANTS QuietMeansSaved NothingUnseen
PROPERTY CopiesKept
CHECK_DEADLOCK FALSE
