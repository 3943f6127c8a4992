SPECIFICATION Spec
CONSTANTS
  r1 = r1
  r2 = r2
  Server = {1, 2, 3}
  Request <- MCRequest2
  Origin <- MCOrigin2
  PauseOnElection = FALSE
  LateMessages = FALSE
  SlowDisk = {}
  MaxCrashes = 1
  MaxRestarts = 1
  MaxElections = 2
INVARIANTS
  CommittedIsDurable
CHECK_DEADLOCK FALSE
