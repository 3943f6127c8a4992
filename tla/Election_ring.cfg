SPECIFICATION Spec
CONSTANTS
  Servers <- MCServers4
  ZXID <- MCZXID4
  Scenarios <- MCRing
INVARIANTS
  RingIsWhole
CHECK_DEADLOCK FALSE
