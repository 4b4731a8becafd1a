CONSTANTS
  e1 = e1  n1 = n1
  Ecid = {e1}
  NameId = {n1}
  MaxParts = 3
  MaxRun = 2
  MaxCount = 1
  MaxSockets = 2
  Unknown = Unknown
  Numbers = {0, 128, 2048, 65536}
  TagNames = {1, 300}
  Data <- TagData
  MaxTags = 2
  Sentinel = 2
  MaxDepth = 3
  MaxTagCount = 5
  c1 = c1  c2 = c2
  Callers = {c1, c2}
  MaxEdits = 1
  MaxSaves = 2
  p1 = p1  p2 = p2
  Peers = {p1, p2}
  ChatSessions = TRUE
  MaxMessages = 3
  MaxPolls = 3
  RingSize = 2
  SearchLimit = 3
  AskLimit = 2
  Objects = {1}
  MaxChanges = 2
  MaxUpdateSockets = 2
  Undefined = Undefined
  h1 = h1  h2 = h2
  Hashes = {h1, h2}
  MaxFiles = 3
  MaxPushes = 4
  MaxFetches = 2
  MaxProgress = 2
  MaxCalls = 2
  MaxConnections = 2
CHECK_DEADLOCK FALSE
SPECIFICATION Spec
INVARIANTS
  TypeOK   CutIsNotMistaken  PollingMissesNothing
  ResultsAreOwn TrackerFollows   CarriedOutOnce
PROPERTIES
   FetchIsSelfContained  MessagesAreKept ResultsOnlyGrow
  OptionalFieldsAreLive
