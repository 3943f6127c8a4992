SPECIFICATION Spec
CONSTANTS
  EpochLimit = 4
  CountLimit = 6
  FixedSize = 1
  LengthSize = 1
  ContentSize <- MCSizes6
  Garbage = {0, 3, 6}
  MaxCuts = 1
  MaxRestarts = 1
INVARIANTS
  ZxidsAreUnique
CHECK_DEADLOCK FALSE
