SPECIFICATION Spec
CONSTANTS
  f1 = f1
  f2 = f2
  r1 = r1
  r2 = r2
  r3 = r3
  Follower <- MCFollower
  Request <- MCRequest2
  OwnRequest <- MCOwn
  Direct = TRUE
INVARIANTS
  CommitAgreement
CHECK_DEADLOCK FALSE
