SPECIFICATION FairSpec
CONSTANTS
  Configs = {c1, c2, bound, invalid}
  Valid = {c1, c2, bound}
  Starts = {c1, c2}
  NoConfig = NoConfig
  MaxHangups = 3
  MaxEdits = 2
  MaxTroubles = 1
INVARIANTS
  TypeOK
  BadReloadNeverStops
PROPERTIES
  AppliedIsFresh
  LatestIsServed
  StopIsNotLost
CHECK_DEADLOCK FALSE
