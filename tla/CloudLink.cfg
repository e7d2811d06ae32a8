SPECIFICATION FairSpec
CONSTANTS
    Base = 4
    HeadByte = 1
    TailByte = 2
    Tasks = {t1, t2}
    MaxFds = 1
    CacheSize = 12
    AddrLen = 2
    DataRet = 0
    Frames <- MCFrames
    MaxEvents = 2
    Outgoing <- MCOutgoing
INVARIANTS
    TypeOK
    InOrder
    OnlyGranted
    NoLeak
    ReadBack
PROPERTIES
    Arrives
