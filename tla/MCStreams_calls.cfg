CONSTANTS
    c1 = c1
    c2 = c2
    p1 = p1
    p2 = p2
    None = None
    Conns = {c1}
    Dialed = {c1}
    Requests = {p1, p2}
    AtHub = {p1}
    Targets <- TargetsOf
    Body <- BodyOf
    Reply <- ReplyOf
    Served <- ServedOf
    Unserved <- UnservedOf
    ContextReuse = FALSE
    IdModulus = 4
    Cap = 1
    MaxFaults = 1
SPECIFICATION FairSpec
INVARIANTS
    StreamIntegrity
    EofHonest
    IdsApart

    
    
CHECK_DEADLOCK FALSE
