SPECIFICATION Spec
CONSTANTS
  Workloads <- MCReinit
  Topics <- MCTopics
PROPERTIES
  NoOverwrite
CHECK_DEADLOCK FALSE
