SPECIFICATION Spec
\* Appends, posts and calls are used up.
CHECK_DEADLOCK FALSE
CONSTANTS
  LpSubscribers = {s1}
  LpKinds = {"text"}
  LpMaxAppends = 2
  LpPendingCap = 1
  LpQueueDepth = 1
  LpBacklogDepth = 2
  LpMaxRecords = 3
  AiTimes = {1, 2}
  AiRing = 1
  AiWindow = 2
  AiMaxRows = 4
  AiMaxJoins = 1
  CdSubs = {a, b, c}
  CdLoops = {k, l, m}
  AsKeys = {k1, k2}
  AsBodies = {x, y}
  AsCapacity = 1
  AsMaxCalls = 2
  AsMaxCrashes = 1
  StIds = {i1}
  StDepth = 1
  StMaxBegins = 2
  StMaxCalls = 3
  IvGroups = {g1, g2}
  IvMaxDelay = 3
  IvMaxChanges = 2
  HiGroups = {g1, g2}
  HiSenders = {s1}
  HiHung = g1
  HiDepth = 1
  HiWindow = 2
  HiMaxPosts = 2
  HiMaxBreaks = 1
  RsLen = 2
  RsSide = 1
  RsAttempts = 3
  RsMaxFaults = 2
  HrTexts <- ReplyTexts
  HrDrafts = {1, 2}
  HrRetries = 1
  HrToolCap = 1
  HrMaxCalls = 3
  HrMaxFaults = 1
  CxConnectors = {1, 2}
  CxPlans <- ControlPlans
  CxRelays = TRUE
  CxCap = 2
  CxEvents = 1
  CxFaults = 1
INVARIANTS
  AgentTypeOK PreviewIsPrefix  ConnectorSound
  
PROPERTIES
  AgentProgress
