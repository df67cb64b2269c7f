CONSTANT
    Docs <- MCDocs
SPECIFICATION Spec
INVARIANTS
    TypeOK
    NothingLost
    TagsFound
PROPERTY
    ParseReturns
CHECK_DEADLOCK FALSE
