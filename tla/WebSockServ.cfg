SPECIFICATION FairSpec
CONSTANTS
    Base = 6
    Text = 4
    Code16 = 2
    MaskLen = 2
    Clients = {old, new}
    OldClients = {old}
    NoClient = none
    MaxFds = 2
    CacheSize = 10
    ChunkSize = 6
    StrSize = 3
    Garbage <- MCGarbage
    Messages <- MCMessages
    Mask <- MCMask
    MaxMsgs = 2
INVARIANTS
    TypeOK
    InOrder
    Understood
PROPERTIES
    Greeted
CHECK_DEADLOCK FALSE
