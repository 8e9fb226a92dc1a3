SPECIFICATION FairSpec
CONSTANTS
  read = read
  fetch = fetch
  Calls <- MCCalls
  Download = fetch
  Clients = {1, 2, 3}
  None = None
  MaxSwitches = 1
  MaxDrops = 1
  MaxDamages = 1
  MaxReauths = 1
  MaxFaults = 1
  MaxStrays = 1
INVARIANTS
  OneClient
  CallsKeepToTheRoute
PROPERTIES
  CallsEnd
  ComesBack
CHECK_DEADLOCK FALSE
