CONSTANTS
    Chars = {1, 2}
    Phrases <- MCPhrases
    Texts <- MCTexts
    Behind <- MCBehind
    MaxRules = 3
SPECIFICATION Spec
INVARIANT
    NothingAfterBreak
