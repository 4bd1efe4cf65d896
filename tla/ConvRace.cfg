SPECIFICATION Spec
CONSTANTS
    P = P
    Q = Q
    Z = Z
    None = None
    Clients = {P, Q, Z}
    Commits = {1, 2, 3, 4}
    Author <- RaceAuthor
    MaxRewind = 5
    QuorumSenders = 2
    QuorumEpochs = 2
    Override = 1
    MaxPasses = 16
    Rounds = TRUE
    Interleaved = FALSE
    MaxFailures = 0
    LostAcks = FALSE
    MaxRestarts = 0
INVARIANTS
    QuietAgreed
    NodesSound
PROPERTIES
    StepsSound
CHECK_DEADLOCK FALSE
