SPECIFICATION ObserverFairSpec
CONSTANTS
  Watched <- MCWatched
  FailAfter <- MCFailAfter
  Conditions <- MCConditions
  Well <- MCWell
  StatusEvery = 2
  PushMaxAge = 1
  MaxSkew = 1
  DedupTtl = 2
  MaxFlight = 1
  MaxChanges = 2
  MaxLapses = 1
INVARIANTS
  MessagesAreRecent
  AlertsAreSpaced
PROPERTIES
  ProblemsAreReported
CHECK_DEADLOCK FALSE
