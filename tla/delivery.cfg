CONSTANTS
    c1 = c1
    c2 = c2
    asker = asker
    o1 = o1
    o2 = o2
    Commands = {c1, c2}
    Askers = {asker}
    Operators = {o1, o2}
    MaxDeliveries = 2
    PruneEvery = 2
    MaxRecords = 1
    MaxCopies = 3
    MaxEntries = 2
    Scenarios <- MCScenarios
SPECIFICATION Spec
CHECK_DEADLOCK FALSE
INVARIANTS
    AppliedTrue
    NoLostWakeup
    NothingLost
    ClaimHeld
