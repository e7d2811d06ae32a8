SPECIFICATION FairSpec
CONSTANTS
    Clients = {c1, c2, c3}
    NoClient = none
    MaxFds = 2
    MaxChunks = 3
    CacheSize = 2
CHECK_DEADLOCK FALSE
INVARIANTS
    TypeOK
    RepliesToAsker
    NoLeak
PROPERTY Accepts
