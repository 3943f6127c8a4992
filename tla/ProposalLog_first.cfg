SPECIFICATION Spec
CONSTANTS
  EpochLimit = 4
  CountLimit = 6
  FixedSize = 2
  LengthSize = 2
  ContentSize <- MCSizes4
  Garbage = {0, 3, 6}
  MaxCuts = 1
  MaxRestarts = 1
INVARIANTS
  NeverBehindFirstEpoch
CHECK_DEADLOCK FALSE
