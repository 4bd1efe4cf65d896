SPECIFICATION Spec
\* Calls, events and commands are used up.
CHECK_DEADLOCK FALSE
CONSTANTS
  RaAccounts = {a1}
  RaMaxOps = 3
  RaMaxWorkers = 2
  SuMessages = {1, 2, 3, 4}
  SuGroups = {g1, g2}
  SuVersions = {0, 1, 2}
  SuRing = 1
  SuBuffer = 1
  SuLimit = 1
  SuWindow = 2
  SuSeenLimit = 4
  SuMaxChats = 3
  GcGroups = {g1}
  GcMaxCommands = 4
  GcMaxFaults = 2
  GcMaxCrashes = 1
  RoAccounts = {a1}
  RoGroups = {g1}
  RoRelays = {r1, r2}
  RoHome = r1
  RoPublishers = {p1, p2}
  RoBudget = 3
  RpAccounts = {a1, a2}
  RpStalled = a1
  RpEvents = {1, 2}
  RpLookback = 1
  RpDeliveryBuffer = 1
  RpAccountBuffer = 1
  RpMaxOpens = 2
  RpMaxFails = 1
  DyUsers = {1, 2}
  DyAges = {1, 2}
  DyWriters = {w1, w2}
  DyCallers = {1, 2, 3}
  DyChannel = 1
  DyMaxSaves = 2
  DyMaxFetches = 6
  DyMaxFaults = 1
  WcCalls = {1, 2}
  WcBuffer = 1
  WcMaxWorkers = 2
  DhConns = {2, 3}
  DhMaxRequests = 3
  DhMaxFaults = 1
  DsStreams = {s1, s2}
  DsMaxTasks = 2
  DsMaxText = 2
  DsMaxWatches = 3
  DsRetain = 1
  DsMaxFaults = 1
  DuMessages = {1, 2, 3}
  DuReplay = 2
  DuChannel = 1
  DuSnapshot = 2
  DuDedup = 3
  TuFirst <- TuFirst0
  TuLater = {"P"}
  TuLocal = {"A", "B"}
  TuMember <- TuMember0
  TuGroups = {"g1", "g2", "g3"}
  TuIndex <- TuIndex0
  TuNewGroup = "g3"
  TuIds = {1, 2}
  TuStored <- TuStored0
  TuListed = 1
  TuScrollback = 1
  TuFaults = 1
  TuInputs = 2
  TcOwn = "own"
  TcOthers = {"s2", "s3"}
  TcText = 2
  TcTextLimit = 1
  TcPreviews = 2
  TcEvents = 2
  TcFaults = 1
INVARIANTS
  PlatformTypeOK     
PROPERTIES
   PlatformProgress
