SPECIFICATION Spec
CONSTANTS
    P = P
    Q = Q
    Z = Z
    None = None
    Clients = {P, Q, Z}
    Commits = {1, 2, 3, 4}
    Author <- RaceAuthor
    MaxRewind = 5
    QuorumSenders = 2
    QuorumEpochs = 2
    Override = 1
    MaxPasses = 16
    Rounds = TRUE
    Interleaved = FALSE
    MaxFailures = 1
    LostAcks = FALSE
    MaxRestarts = 0
INVARIANT NeverStuck
CHECK_DEADLOCK FALSE
