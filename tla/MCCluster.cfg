\* Two machines, a table of three entries, two duplicated datagrams, one worker
\* that may be killed.
SPECIFICATION Spec
CONSTANTS
  h1 = h1
  h2 = h2
  NoHost = NoHost
  Hosts <- MCHosts
  Cores <- MCCores
  MaxCores = 2
  MaxWorkers = 3
  MainPoints = 6
  MaxDup = 2
  MayCrash <- MCMayCrash
INVARIANTS
  AnswerIntegrity
  NoNaNSummed
  StripsWithinTask
  OneWorkerIsRight
PROPERTIES
  TableOnlyGrows
  RoundImplemented
  ServedWorkerEnds
  NoWorkerLeftBehind
CHECK_DEADLOCK FALSE
