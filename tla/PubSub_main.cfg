SPECIFICATION FairSpec
CONSTANTS
  c1 = c1
  c2 = c2
  s1 = s1
  s2 = s2
  Server = {s1, s2}
  Client = {c1}
  MaxMessages = 3
  Scenarios <- MCScenarios
PROPERTIES
  NoGap
  WatchDelivers
  Delivered
  WatchIsPersisted
CHECK_DEADLOCK FALSE
