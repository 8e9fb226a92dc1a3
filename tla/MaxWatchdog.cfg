SPECIFICATION WatchdogSpec
CONSTANTS
  Modes = {"home", "direct", "auto"}
  AlertAfter = 1
  SelfHealGrace = 2
  StartupGrace = 3
  Cooldown = 4
  ProbeInterval = 1
  MaxTime = 6
  MaxLosses = 1
  MaxFailures = 1
INVARIANTS
  LongOutageIsTold
  HealthIsHonest
  ReauthIsNotMasked
PROPERTIES
  RestartsAreSpaced
CHECK_DEADLOCK FALSE
