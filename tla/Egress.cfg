SPECIFICATION FairSpec
CONSTANTS
  Primary = Primary
  Fallback = Fallback
  None = None
  Interval = 1
  FailoverAfter = 3
  Stable = 2
  Residence = 3
  Cooldown = 3
  ReminderEvery = 2
  MaxCrashes = 1
  MaxStalls = 1
INVARIANTS
  RouteIsSaved
  FailoverIsEarned
  ReturnIsEarned
PROPERTIES
  SwitchesAreSpaced
  FailsOver
