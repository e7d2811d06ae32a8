SPECIFICATION Spec
CONSTANTS
    Clients = {c1, c2}
    NoClient = none
    MaxFds = 2
    MaxChunks = 2
    CacheSize = 2
CHECK_DEADLOCK FALSE
PROPERTIES
    ClosesOldOnly
