SPECIFICATION FairSpec
CONSTANTS
  c1 = c1
  Server = {1, 2, 3}
  Client = {c1}
  MaxRequests = 3
  Scenarios <- MCScenarios
INVARIANTS
  OneOK
PROPERTIES
  HeartbeatKeepsSession
  PendingIsAnswered
CHECK_DEADLOCK FALSE
