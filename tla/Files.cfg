SPECIFICATION FilesSpec
CONSTANTS
  Tasks = {"a", "b"}
  Scenes <- MCScenes
  Size = 2
  MaxDownloadAttempts = 2
  MaxCuts = 1
INVARIANTS
  OwnContent
  NothingStays
CHECK_DEADLOCK FALSE
