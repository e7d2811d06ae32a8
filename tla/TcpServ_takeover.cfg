SPECIFICATION Spec
CONSTANTS
    Clients = {c1, c2}
    NoClient = none
    MaxFds = 2
    MaxChunks = 1
CHECK_DEADLOCK FALSE
PROPERTY TakesOver
