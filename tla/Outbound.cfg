SPECIFICATION FairSpec
CONSTANTS
  Lease = 1
  Ttl = 4
  AttemptCap = 2
  MaxDelay = 2
  Delay <- MCDelay
  r1 = r1
  r2 = r2
  Replies = {r1}
  MediaReplies = {}
  Worker = Worker
  None = None
  MaxAttempts = 2
  PollLimit = 1
  LoseReplies = FALSE
  LoseNotices = FALSE
  MaxFaults = 1
  MaxDrops = 1
INVARIANTS
  BoundedCopies
PROPERTIES
  QueueDrains
