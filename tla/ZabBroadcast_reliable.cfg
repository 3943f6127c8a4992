SPECIFICATION FairSpec
CONSTANTS
  s1 = s1
  s2 = s2
  s3 = s3
  r1 = r1
  r2 = r2
  Server <- MCServer
  Leader = s1
  Request <- MCRequest2
  Origin <- MCOrigin2
  MaxCount = 2
  MaxCrashes = 1
  MaxDrops = 0
INVARIANTS
  CommitAgreement
  CommitHasQuorum
  NoFatal
  LogHasNoGaps
  IInv
PROPERTIES
  ProposedIsCommitted
  FollowerRequestsAnswered
  ImplementsAtomicBroadcast
CHECK_DEADLOCK FALSE
