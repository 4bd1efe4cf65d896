SPECIFICATION FairSpec
CONSTANTS
    None = None
    Invites = {}
    Updates = {d1}
    Upgrades = {u1}
    Removals = {r1}
    Autos = {a1}
    Remotes = {o1}
    MaxRewind = 1
    MaxAttempts = 4
    Faulty <- ProgressSteps
    MaxFaults = 2
    MaxCrashes = 0
CHECK_DEADLOCK FALSE
INVARIANTS
    StableAgrees
    RecoverySound
PROPERTIES
    PendingResolves
