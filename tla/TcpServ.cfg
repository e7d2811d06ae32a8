SPECIFICATION FairSpec
CONSTANTS
    Clients = {c1, c2, c3, c4}
    NoClient = none
    MaxFds = 2
    MaxChunks = 2
CHECK_DEADLOCK FALSE
INVARIANTS
    TypeOK
    NoLeak
PROPERTIES
    NewestStays
    Accepts
