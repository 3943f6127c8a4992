SPECIFICATION Spec
CONSTANTS
  EpochLimit = 5
  CountLimit = 3
  FixedSize = 1
  LengthSize = 2
  ContentSize <- MCSizes4
  Garbage = {0, 2, 5}
  MaxCuts = 1
  MaxRestarts = 1
INVARIANTS
  ReadsWhatWasSaved
  NeverBehindLog
  LogInZxidOrder
CHECK_DEADLOCK FALSE
