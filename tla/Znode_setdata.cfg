SPECIFICATION Spec
CONSTANTS
  Workloads <- MCSetdata
  Topics <- MCTopics
INVARIANTS
  PredictsChildren
CHECK_DEADLOCK FALSE
