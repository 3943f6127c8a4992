SPECIFICATION FairSpec
CONSTANTS
  r1 = r1
  r2 = r2
  Server = {1, 2, 3}
  Request <- MCRequest2
  Origin <- MCOrigin2
  PauseOnElection = TRUE
  LateMessages = FALSE
  SlowDisk = {}
  MaxCrashes = 1
  MaxRestarts = 0
  MaxElections = 1
INVARIANTS
  PrefixConsistentIfVotesHold
  NoFatal
  CommittedIsDurable
PROPERTIES
  SyncCompletes
CHECK_DEADLOCK FALSE
