SPECIFICATION FairSpec
CONSTANTS
  c1 = c1
  c2 = c2
  h1 = h1
  h2 = h2
  p1 = p1
  p2 = p2
  Chats = {c1, c2}
  Handlers = {h1, h2}
  Presses = {p1, p2}
  LinkChat = c1
  Recorder = Recorder
  Operator = Operator
  Scan = Scan
  Scenarios <- MCScenarios
  None = None
  MaxTopics = 2
  MaxRemaps = 1
  MaxFaults = 1
INVARIANTS
  TopicsAreBound
  TransactionsAreWhole
  JoinsOnce
PROPERTIES
  RegistryCatchesUp
CHECK_DEADLOCK FALSE
