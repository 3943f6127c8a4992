SPECIFICATION Spec
CONSTANTS
  r1 = r1
  r2 = r2
  Server = {1, 2, 3}
  Request <- MCRequest1
  Origin <- MCOrigin1
  PauseOnElection = FALSE
  LateMessages = FALSE
  SlowDisk = {}
  MaxCrashes = 2
  MaxRestarts = 1
  MaxElections = 2
INVARIANTS
  EpochHasOneCoordinator
CHECK_DEADLOCK FALSE
