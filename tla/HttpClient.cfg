SPECIFICATION FairSpec
CONSTANTS
    Requests = {r1, r2}
    Methods = {"get", "post", "head"}
    OverlapMethods = {"get"}
    Other = other
    Nobody = nobody
    MaxFds = 2
    CacheSize = 5
    ChunkSize = 3
    Headers = {0, 2}
    BodyLen = 2
    PostLen = 2
INVARIANTS
    TypeOK
    GotContent
    ClosesOwn
PROPERTIES
    Ends
CHECK_DEADLOCK FALSE
