SPECIFICATION FairSpec
CONSTANTS
  Lease = 0
  Ttl = 2
  AttemptCap = 2
  MaxDelay = 2
  Delay <- MCDelay
  m1 = m1
  m2 = m2
  Messages = {m1, m2}
  MediaMessages = {}
  Live = Live
  Sweep = Sweep
  Swept = {m2}
  None = None
  PollLimit = 1
  SendAttempts = 1
  LoseReplies = FALSE
  MaxFaults = 1
INVARIANTS
  NoSilentLoss
  BoundedCopies
PROPERTIES
  InboundContract
