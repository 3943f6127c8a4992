SPECIFICATION Spec
CONSTANTS
  r1 = r1
  r2 = r2
  Server = {1, 2, 3}
  Request <- MCRequest1
  Origin <- MCOrigin1
  PauseOnElection = TRUE
  LateMessages = FALSE
  SlowDisk = {1, 2, 3}
  MaxCrashes = 1
  MaxRestarts = 1
  MaxElections = 2
INVARIANTS
  SyncExcludesWrites
CHECK_DEADLOCK FALSE
