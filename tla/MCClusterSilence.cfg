\* Two machines, no crash and no duplicate: what the timeout leaves behind.
SPECIFICATION Spec
CONSTANTS
  h1 = h1
  h2 = h2
  NoHost = NoHost
  Hosts <- MCHosts
  Cores <- MCCores
  MaxCores = 2
  MaxWorkers = 2
  MainPoints = 6
  MaxDup = 0
  MayCrash <- MCNobody
INVARIANTS
  TimeoutMeansSilence
CHECK_DEADLOCK FALSE
