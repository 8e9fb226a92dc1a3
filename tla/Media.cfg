SPECIFICATION FairSpec
CONSTANTS
  Parts <- MCOne
  EditOnly <- MCNothing
  Mixes <- MCAlone
  HasText = FALSE
  Calls = {1, 2}
  MaxAttempts = 2
  PollLimit = 1
  MaxFaults = 1
  MaxSpare = 3
INVARIANTS BoundedCopies
PROPERTIES RecordedCloses Settles
CHECK_DEADLOCK FALSE
