SPECIFICATION Spec
CONSTANTS
  Lease = 0
  Ttl = 2
  AttemptCap = 2
  MaxDelay = 2
  Delay <- MCDelay
  r1 = r1
  r2 = r2
  Replies = {r1, r2}
  MediaReplies = {r2}
  Worker = Worker
  None = None
  MaxAttempts = 1
  PollLimit = 1
  LoseReplies = TRUE
  LoseNotices = TRUE
  MaxFaults = 0
  MaxDrops = 1
INVARIANTS
  OneSenderPerText
  NoSilentLoss
PROPERTIES
  OutboundContract
