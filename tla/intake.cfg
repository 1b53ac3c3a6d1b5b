CONSTANTS
    t1 = t1
    t2 = t2
    Turns = {t1, t2}
    f1 = f1
    f2 = f2
    f3 = f3
    Fragments = {f1, f2, f3}
    live1 = live1
    live2 = live2
    batch = batch
    again = again
    stray = stray
    erase = erase
    Msgs = {live1, live2, batch, again, stray, erase}
    Content <- MCContent
    Says <- MCSays
    MaxVersion = 2
    MaxDeliveries = 2
    None = None
    Plans <- MCPlans
SPECIFICATION Spec
INVARIANTS
    OneDecision
    RedactedGone
    AbsorbedKept
CHECK_DEADLOCK FALSE
