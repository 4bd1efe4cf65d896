SPECIFICATION Spec
CONSTANTS
    P = P
    Q = Q
    Z = Z
    None = None
    Clients = {P, Q}
    Commits = {1, 2, 3, 4}
    Author <- PairAuthor
    MaxRewind = 1
    QuorumSenders = 2
    QuorumEpochs = 2
    Override = 1
    MaxPasses = 16
    Rounds = FALSE
    Interleaved = TRUE
    MaxFailures = 1
    LostAcks = TRUE
    MaxRestarts = 1
INVARIANTS
    TypeOK
    AppliedSound
    AppliedIsRecorded
CHECK_DEADLOCK FALSE
