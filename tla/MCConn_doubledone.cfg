CONSTANTS
    c1 = c1
    Callers = {c1}
    Reader = Reader
    None = None
    SeqOffset = 1
    SeqDelta = 2
    SeqModulus = 16
    PeerSeqs = {2}
    HandlerActs = {"ok", "error"}
    WriteDeadline = FALSE
    MaxCalls = 1
    MaxIn = 0
SPECIFICATION Spec
INVARIANT
    SignalledOnce
CHECK_DEADLOCK FALSE
