SPECIFICATION KeyFairSpec
CONSTANT NKeys = 3
INVARIANT KeyTypeOK
PROPERTIES
    Promised
    DownIsSure
    Reported
