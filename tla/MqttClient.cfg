SPECIFICATION FairSpec
CONSTANTS
    EvLoop = evloop
    CmdTasks = {uart}
    Clients = {k1, k2}
    NULL = NULL
    MaxSockets = 1
    AutoReconnect = TRUE
INVARIANTS
    TypeOK
    StopMeansStopped
    SingleClient
    LitWhileUp
PROPERTIES
    StopReturns
    Reconnects
CHECK_DEADLOCK FALSE
