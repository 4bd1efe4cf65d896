SPECIFICATION Spec
CONSTANTS
    MaxRewind = 2
    QuorumSenders = 2
    QuorumEpochs = 1
    Override = 1
    PastLimit = 2
    MaxPast = 2
    Sealed = FALSE
    MaxCrashes = 1
    Commits = {1, 2, 3, 4, 5, 6}
    Branch <- Tree
    Priority <- TreePriority
    Committer <- TreeCommitter
    Apps <- WitnessApps
CHECK_DEADLOCK FALSE
INVARIANT OneWinner
PROPERTY OverrideBounded
