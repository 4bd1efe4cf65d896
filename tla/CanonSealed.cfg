SPECIFICATION FairSpec
CONSTANTS
    MaxRewind = 2
    QuorumSenders = 2
    QuorumEpochs = 1
    Override = 1
    PastLimit = 2
    MaxPast = 2
    Sealed = TRUE
    MaxCrashes = 0
    Commits = {1, 2, 3, 4, 5, 6, 7, 8}
    Branch <- Tree
    Priority <- TreePriority
    Committer <- TreeCommitter
    Apps <- TreeApps
CHECK_DEADLOCK FALSE
INVARIANT PathAnchored
PROPERTY EpochNeverRegresses
PROPERTY CommitsSettle
