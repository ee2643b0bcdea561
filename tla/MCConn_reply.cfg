CONSTANTS
    c1 = c1
    Callers = {c1}
    Reader = Reader
    None = None
    SeqOffset = 1
    SeqDelta = 2
    SeqModulus = 16
    PeerSeqs = {2}
    HandlerActs = {"ok", "error", "reply"}
    WriteDeadline = FALSE
    MaxCalls = 1
    MaxIn = 1
SPECIFICATION FairSpec
PROPERTY
    EndCompletes
CHECK_DEADLOCK FALSE
