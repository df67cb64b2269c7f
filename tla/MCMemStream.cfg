CONSTANTS
    Plain = plain
    Marked = marked
    Junk = junk
    MYPAGESIZE = 2
    MaxPages = 3
    MaxWrite = 5
    MaxRead = 3
SPECIFICATION Spec
INVARIANTS
    TypeOK
    CursorsInStep
    RingClosed
    MemoryBound
PROPERTIES
    QueueRefinement
    CallReturns
