SPECIFICATION Spec
\* Inputs are used up and a stopped worker stays stopped.
CHECK_DEADLOCK FALSE
CONSTANTS
  TlInputs <- TimelineInputs
  TlCutoffs = {3}
  ClInputs <- ChatInputs
  ClMe = "me"
  ClInfos = {1}
  ClCutoff = 3
  PtMembers = {a, b}
  PtOwners = {a}
  PtStamps = {1, 2, 3}
  PjLegacies <- OldAccounts
  PjGroups = {"g1"}
  PjRecords <- KnownRecords
  PjIds = {"e1", "e2", "e3"}
  PjMessages = {"m1"}
  PjSeenCap = 2
  PjClock = 2
  PjChanges = 3
  PjFaults = 1
  ScThreads = {t1, t2}
  ScOps = 2
  ScBody = 1
  ScTries = 2
  NoThread = noThread
  MgOpeners = {"new1", "new2", "old"}
  MgPlans <- BuildPlans
  MgStarts <- FoundFiles
  MgRenamed <- RenamedMigration
  MgFaults = 1
  NtEvents <- BusEvents
  NtMine = {"m1"}
  NtBuffer = 2
  NtMax = 3
  NtRecords <- TokenRecords
  NtServers <- PushServers
  NtSelf = "me"
  AwGroups = {g1}
  AwCommands <- WorkerCommands
  AwMaxRearms = 1
  AwAttemptCap = 2
  CsMessages <- RelayMessages
  CsSeenCap = 2
  CsCrashes = TRUE
  CsSkew = 2
  CsLookback = 1
  CsHorizon = 2
  OqIntents <- Intents
  OqMaxEpoch = 2
  OqMaxRewind = 1
  GmPeers = {p1, p2}
  GmMaxEpoch = 2
  GmMaxFaults = 1
  GpClients = {"a", "b", "c"}
  GpCreator = "a"
  GpCasts <- Casts
  GpRequests <- CreateRequests
  GpEdits <- ComponentEdits
  GpNames = {"keep"}
  GpPackages <- NewPackages
  GpOps = 2
  GpFaults = 1
  MdHosts <- BlobHosts
  MdPolicy <- FirstPolicy
  MdPlans <- MediaPlans
  MdDefault = "a"
  MdLoopback = FALSE
  MdHops = 1
  MdCommits = 2
  MdDownloads = 1
  MbLines <- MarkdownLines
  MbMaxLines = 3
  MbMaxDepth = 3
  MiFamilies <- InlineFamilies
INVARIANTS
  AppTypeOK   WorkerSound  
PROPERTIES
  StepsSound WorkerProgress
