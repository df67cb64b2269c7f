CONSTANTS
    Interfaces <- MCInterfaces
    IfreqSize = 40
    Resolve <- MCResolve
    NULL = NULL
    Scenarios <- MCScenarios
    Files <- MCFiles
    PrefixHost <- MCPrefixHost
    MaxDay = 4
    MaxDomains = 2
    MaxFiles = 3
SPECIFICATION Spec
INVARIANTS
    OnlyLicensed
    LicenceSurvives
    SectionsCombine
    PhrasesOfTheSection
PROPERTIES
    ClockNotTurnedBack
CHECK_DEADLOCK FALSE
