SPECIFICATION Spec
CONSTANTS
    None = None
    Invites = {i1}
    Updates = {}
    Upgrades = {}
    Removals = {}
    Autos = {}
    Remotes = {o1}
    MaxRewind = 1
    MaxAttempts = 4
    Faulty <- NoSteps
    MaxFaults = 0
    MaxCrashes = 1
CHECK_DEADLOCK FALSE
INVARIANTS
    StableAgrees
