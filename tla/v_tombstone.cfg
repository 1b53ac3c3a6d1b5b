CONSTANTS
    berlin = berlin
    paris = paris
    m1 = m1
    m2 = m2
    m3 = m3
    m4 = m4
    Facts = {berlin, paris}
    NoFact = NoFact
    Msgs = {m1, m2, m3}
    NoMsg = NoMsg
    Intents = {m1, m2, m3}
    Corrections <- MCCorrections
    Dated = {m1, m2, m3}
    SlotOf <- MCSlotOf
    Single <- MCSingle
    Replaceable <- MCSingle
    Targets = {"drawer", "kg"}
    MaxActivations = 4
    MaxEvidence = 6
    Workers = {"turn", "cmd"}
    MaxDeliveries = 2
    Scenarios <- MCCorrectForget
SPECIFICATION Spec
INVARIANTS
    ForgottenStaysForgotten
