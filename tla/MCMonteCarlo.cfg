\* Four threads, one of which may not come into being.
SPECIFICATION MonteCarloSpec
CONSTANTS
  NThreads = 4
  MaxRefused = 1
INVARIANT
  ArgsOutliveReaders
PROPERTY
  SumImplemented
CHECK_DEADLOCK FALSE
