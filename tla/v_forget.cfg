CONSTANTS
    Drawers <- MCDrawers
    Of <- MCOf
    Assertions = {"a1", "a2", "a3"}
    Commitments = {"c1"}
    Sources = {"e1", "e2"}
    Nothing = "nothing"
    Origin <- MCOrigin
    Matching <- MCMatching
    Stored <- MCStored
    Promised <- MCPromised
    Dialogues <- MCDialogues
    Clicks <- MCClicks
    Plan <- MCPlan
    Spaces = {"s", "other"}
    PageSize = 2
    MaxScan = 4
    MaxCandidates = 2
    MaxDeliveries = 3
    Reads <- MCReads
    Request <- MCRequest
    Time <- MCTime
    Rank <- MCRank
    Room <- MCRoom
    Told <- MCTold
    ChunkSize = 2
    Scenarios <- MCMixed
SPECIFICATION ReadSpec
PROPERTIES
    ConfirmedForgotten
CHECK_DEADLOCK FALSE
