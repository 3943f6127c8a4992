SPECIFICATION Spec
CONSTANTS
  Workloads <- MCWorkloads
  Topics <- MCTopics
INVARIANTS
  CacheIsAhead
  EphemeralsEndWithSession
PROPERTIES
  NoOverwrite
  NoLostUpdate
CHECK_DEADLOCK FALSE
