SPECIFICATION FairSpec
CONSTANTS
  r1 = r1
  r2 = r2
  Server = {1, 2, 3}
  Request <- MCRequest1
  Origin <- MCOrigin1
  PauseOnElection = TRUE
  LateMessages = FALSE
  SlowDisk = {1, 2, 3}
  MaxCrashes = 1
  MaxRestarts = 0
  MaxElections = 1
PROPERTIES
  SyncCompletes
CHECK_DEADLOCK FALSE
