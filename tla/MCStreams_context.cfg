CONSTANTS
    c1 = c1
    c2 = c2
    p1 = p1
    p2 = p2
    None = None
    Conns = {c1, c2}
    Dialed = {}
    Requests = {p1, p2}
    AtHub = {}
    Targets <- TargetsOfPeers
    Body <- BodyOfPeers
    Reply <- ReplyOfPeers
    Served <- ServedOf
    Unserved = {}
    ContextReuse = TRUE
    IdModulus = 4
    Cap = 3
    MaxFaults = 0
SPECIFICATION Spec
INVARIANT
    PushHonest
CHECK_DEADLOCK FALSE
