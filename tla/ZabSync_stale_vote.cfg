SPECIFICATION Spec
CONSTANTS
  r1 = r1
  r2 = r2
  Server = {1, 2, 3}
  Request <- MCRequest2
  Origin <- MCOrigin2
  PauseOnElection = FALSE
  LateMessages = TRUE
  SlowDisk = {1, 2, 3}
  MaxCrashes = 1
  MaxRestarts = 0
  MaxElections = 1
INVARIANTS
  PrefixConsistent
CHECK_DEADLOCK FALSE
