SPECIFICATION BrowseSpec
CONSTANTS
    MaxUrl = 40
    ColonReach = 4
    Forever = 9
    MaxVisits = 2
    MaxAgain = 1
    Bytes <- MCBytes
    LowTrail <- MCLowTrail
    Leftovers <- MCLeftovers
    ToPage <- MCToPage
    WordTable <- MCWordTable
    Texts <- MCTexts
    Scenarios <- MCScenarios
    Pages <- MCPages
INVARIANTS LinksKept PageWhole BodyArrivesOnce
PROPERTY HandlerEnds
CHECK_DEADLOCK FALSE
