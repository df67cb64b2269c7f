CONSTANTS
    Chars = {1, 2}
    Phrases <- MCPhrases
    Texts <- MCTexts
    Behind <- MCBehind
    MaxRules = 3
SPECIFICATION Spec
INVARIANTS
    TypeOK
    LongestWins
    FoundIfNoneNests
    NothingSkipped
PROPERTIES
    ConversionEnds
