CONSTANTS
    p1 = p1
    p2 = p2
    home = home
    work = work
    d1 = d1
    d2 = d2
    c1 = c1
    c2 = c2
    c3 = c3
    c4 = c4
    c5 = c5
    Procs = {p1, p2}
    NoProc = NoProc
    Spaces = {home, work}
    NoSpace = NoSpace
    Dirs = {d1, d2}
    Clients = {c1, c2, c3, c4, c5}
    Nobody = Nobody
    Closer = Closer
    ProcOf <- MCProcOf
    SpaceOf <- MCSpaceOf
    ModeOf <- MCModeOf
    Allowed <- MCAllowed
    Scenarios <- MCScenarios
SPECIFICATION Spec
CHECK_DEADLOCK FALSE
INVARIANTS
    OneOwner
    StoreOutlivesOperations
    ClaimsMatch
