SPECIFICATION FairSpec
CONSTANTS
  MaxNotices = 2
  MaxLapses = 1
  MaxMisses = 1
  MaxFaults = 1
INVARIANTS
  KeptUntilKnown
  OnePerNotice
PROPERTIES
  DialogsCatchUp
CHECK_DEADLOCK FALSE
