CONSTANTS
    c1 = c1
    c2 = c2
    Callers = {c1, c2}
    Reader = Reader
    None = None
    SeqOffset = 1
    SeqDelta = 2
    SeqModulus = 16
    PeerSeqs = {2}
    HandlerActs = {"ok", "error", "reply"}
    WriteDeadline = TRUE
    MaxCalls = 2
    MaxIn = 1
SPECIFICATION FairSpec
INVARIANTS
    TypeOK
    WaitersReachable
    NobodyStranded
    ReqsOwned
    RequestAnswered
PROPERTIES
    ImplementsOutbox
    EndNeedsReplies
    SendReturns
CHECK_DEADLOCK FALSE
