CONSTANT
    Docs <- MCDocs
SPECIFICATION Spec
INVARIANT
    NoTokenIsText
CHECK_DEADLOCK FALSE
