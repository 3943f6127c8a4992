SPECIFICATION Spec
CONSTANTS
  c1 = c1
  Server = {1, 2, 3}
  Client = {c1}
  MaxRequests = 3
  Scenarios <- MCFailover
INVARIANTS
  RejectedHasNoEffect
CHECK_DEADLOCK FALSE
