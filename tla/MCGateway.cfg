CONSTANTS
    Workers = {w1, w2}
    Requests <- MCRequests
    Names = {"new", "old"}
    NULL = NULL
    MAX_CACHE_SIZE = 3
SPECIFICATION Spec
INVARIANTS
    TypeOK
    FetchJustified
    MissesBounded
SYMMETRY
    Symmetry
