CONSTANTS
    c1 = c1
    c2 = c2
    p1 = p1
    p2 = p2
    None = None
    Conns = {c1, c2}
    Dialed = {c1}
    Requests = {p1}
    AtHub = {p1}
    Targets <- TargetsOfRetry
    Body <- BodyOfRetry
    Reply <- ReplyOfRetry
    Served <- ServedOf
    Unserved <- UnservedOfRetry
    ContextReuse = FALSE
    IdModulus = 4
    Cap = 1
    MaxFaults = 2
SPECIFICATION FairSpec
INVARIANTS
    HandledOnce
    PushHonest

    
CHECK_DEADLOCK FALSE
