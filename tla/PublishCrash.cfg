SPECIFICATION Spec
CONSTANTS
    None = None
    Invites = {i1}
    Updates = {}
    Upgrades = {}
    Removals = {r1}
    Autos = {a1}
    Remotes = {o1}
    MaxRewind = 1
    MaxAttempts = 4
    Faulty <- AllSteps
    MaxFaults = 1
    MaxCrashes = 2
CHECK_DEADLOCK FALSE
INVARIANTS
    TypeOK
    PublishBeforeApply
    JournalSound
PROPERTIES
    Contract
