CONSTANTS
    Self = Self
    Nobody = Nobody
    p1 = p1
    p2 = p2
    p3 = p3
    p4 = p4
    p5 = p5
    p6 = p6
    a = a
    b = b
    c = c
    Peers = {p1, p2, p3, p4, p5, p6}
    Closest <- ClosestOf
    Answers <- AnswersOf
    BucketSize = 2
    Callers = {a, b, c}
SPECIFICATION EitherSpec
INVARIANTS
    ProbedOnce
    NoneOutlives
    StandstillNeedsPeers
    ServerShutdownOnce
PROPERTIES
    DeadlockStays
    BootstrapReturns
CHECK_DEADLOCK FALSE
