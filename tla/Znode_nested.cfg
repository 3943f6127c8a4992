SPECIFICATION Spec
CONSTANTS
  Workloads <- MCNested
  Topics <- MCTopics
INVARIANTS
  NoPanic
CHECK_DEADLOCK FALSE
