CONSTANT
    Docs <- MCDocs
SPECIFICATION Spec
INVARIANT
    NoEndIsText
CHECK_DEADLOCK FALSE
