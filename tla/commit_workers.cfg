CONSTANTS
    call = call
    i1 = i1
    i2 = i2
    i3 = i3
    delete = delete
    erase = erase
    say = say
    archive = archive
    Cids = {call}
    NoCid = NoCid
    Intents = {i1, i2, i3}
    IntentOf <- MCIntentOf
    Forgets = {delete, erase, say, archive}
    ForgetOf <- MCForgetOf
    NoMsg = NoMsg
    Workers = {"cmd", "turn"}
    TripleOf <- MCTripleOf
    MaxDeliveries = 3
    Scenarios <- MCScenarios
SPECIFICATION Spec
INVARIANTS
    HistoryLegal
    CurrentBacked
    Converged
    CommandEraseCompletes
