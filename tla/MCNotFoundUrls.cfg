CONSTANTS
    Threads = {t1, t2}
    Urls = {u1, u2, u3, u4}
    Nodes = {n1, n2, n3, n4}
    MAX_CACHE_SIZE = 4
    Null = null
    Nobody = nobody
SPECIFICATION Spec
INVARIANTS
    TypeOK
    OnlyOwnerInside
    TableSound
    CacheBound
PROPERTIES
    CacheRefinement
    MutexReleased
