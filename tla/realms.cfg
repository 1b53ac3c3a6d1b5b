CONSTANTS
    Users = {u1, u2}
    u2 = u2
    Order <- MCOrder
    Seed <- MCSeed
    Span = 2
    u1 = u1
    r1 = r1
    r2 = r2
    r3 = r3
    r4 = r4
    r5 = r5
    Requests = {r1, r2, r3, r4, r5}
    Loop = Loop
    Nobody = Nobody
    KindOf <- MCKindOf
    TargetOf <- MCTargetOf
    MaxGen = 3
    MaxFailures = 2
    Scenarios <- MCScenarios
    Realm = u2
    Restore = r1
    m1 = m1
    m2 = m2
    Memories = {m1, m2}
    Old = {m1}
    Ledgers = {"facts", "commitments"}
    LedgerOf <- MCLedgerOf
    MaxDeletes = 1
    MaxIOErrors = 1
SPECIFICATION RealmFairSpec
INVARIANTS
    RestoreExclusive
    RunnersTracked
    

    
CHECK_DEADLOCK FALSE
