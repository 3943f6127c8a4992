SPECIFICATION FairSpec
CONSTANTS
  Servers <- MCServers4
  ZXID <- MCZXID4
  Scenarios <- MCElections
INVARIANTS
  TypeOK
  CoordinatorIsBest
  RingComplete
PROPERTIES
  Converges
CHECK_DEADLOCK FALSE
