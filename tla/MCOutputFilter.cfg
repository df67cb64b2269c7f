CONSTANTS
    Requests <- MCRequests
    MaxChunks = 3
    MaxMeta = 2
    MaxBuckets = 2
SPECIFICATION Spec
INVARIANTS
    TypeOK
    NothingLost
    WholeOrNotAtAll
    NoStaleLength
    FallbackIsClean
    EosEndsIt
PROPERTIES
    EosComesOut
CHECK_DEADLOCK FALSE
