SPECIFICATION Spec
CONSTANTS
  s1 = s1
  s2 = s2
  s3 = s3
  r1 = r1
  r2 = r2
  Server <- MCServer
  Leader = s1
  Request <- MCRequest2
  Origin <- MCOrigin2
  MaxCount = 2
  MaxCrashes = 0
  MaxDrops = 1
INVARIANTS
  CommitAgreement
CHECK_DEADLOCK FALSE
