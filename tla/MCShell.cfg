CONSTANTS
  Letter = {"a", "b"}
  Lines <- Typed
  Output <- Programs
  Filters <- FilterB
  Capacity = 1
SPECIFICATION Spec
INVARIANTS ParsedAsWritten WholeInput OnlyWriterHolds DescriptorsReused EndedFits
PROPERTY PromptComesBack
CHECK_DEADLOCK FALSE
