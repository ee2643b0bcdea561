CONSTANTS
    g1 = g1
    g2 = g2
    Getters = {g1, g2}
    Nobody = Nobody
    MaxConns = 2
    NumDialAttempts = 2
    MaxDials = 3
    MaxPending = 1
    MaxFailures = 2
SPECIFICATION FairSpec
INVARIANTS
    PoolExact
    GetHonest
    SocketsClosed
PROPERTIES
    GetReturns
    ShutdownDrains
CHECK_DEADLOCK FALSE
