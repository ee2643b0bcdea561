CONSTANTS
    k1 = k1
    k2 = k2
    k3 = k3
    Conns <- ThreePeers
    None = None
    MaxConns = 2
    MaxAcceptErrors = 1
SPECIFICATION FairSpec
INVARIANTS
    SlotsAccounted
    SocketsOwned
PROPERTIES
    ShutdownWaits
    ShutdownReturns
    ShutdownSafe
    LateConnectionsEnd
CHECK_DEADLOCK FALSE
