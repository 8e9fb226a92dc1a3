SPECIFICATION FairSpec
CONSTANTS
  owner_dm = owner_dm
  ops_topic = ops_topic
  Order <- MCOrder
  Audience <- MCAudience
  a1 = a1
  a2 = a2
  Alerts = {a1}
  Limit = 2
  MaxSeconds = 1
  MaxOutages = 1
  MaxMishaps = 1
INVARIANTS
  EventsInOrder
  QueuedIsKept
  CopiesAreMishaps
PROPERTIES
  EventsArrive
CHECK_DEADLOCK FALSE
