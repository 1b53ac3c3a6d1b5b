CONSTANTS
    Drawers <- MCDrawers
    Row <- MCRow
    Statements <- MCStatements
    Fact <- MCFact
    Entities = {"mum", "town"}
    Calls <- MCCalls
    Request <- MCRequest
    Wings <- MCWings
    Shadow <- MCShadow
    RrfK = 60
    ThemeK = 1
    ThemeFloor = 1
    MaxEntities = 2
    PerEntity = 2
    Scenarios <- MCScenarios
SPECIFICATION Spec
INVARIANTS
    OnlyVisible
    EmptyHonest
    PalaceExclusive
PROPERTIES
    VoiceAnswered
    
CHECK_DEADLOCK FALSE
