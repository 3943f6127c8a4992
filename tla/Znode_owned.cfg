SPECIFICATION Spec
CONSTANTS
  Workloads <- MCOwned
  Topics <- MCTopics
INVARIANTS
  CommitsGoOn
CHECK_DEADLOCK FALSE
