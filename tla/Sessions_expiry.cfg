SPECIFICATION FairSpec
CONSTANTS
  c1 = c1
  Server = {1, 2, 3}
  Client = {c1}
  MaxRequests = 2
  Scenarios <- MCOrphan
PROPERTIES
  OrphansExpire
CHECK_DEADLOCK FALSE
