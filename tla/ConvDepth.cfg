SPECIFICATION Spec
CONSTANTS
    P = P
    Q = Q
    Z = Z
    None = None
    Clients = {P, Q, Z}
    Commits = {1, 2, 3}
    Author <- DepthAuthor
    MaxRewind = 5
    QuorumSenders = 2
    QuorumEpochs = 2
    Override = 1
    MaxPasses = 16
    Rounds = FALSE
    Interleaved = FALSE
    MaxFailures = 0
    LostAcks = FALSE
    MaxRestarts = 0
INVARIANT Agreement
CHECK_DEADLOCK FALSE
