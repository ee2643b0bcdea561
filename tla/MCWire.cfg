CONSTANTS
    Base = 3
    NoId = 0
    Nil = Nil
    Overhead = 1
    ReadBuffer = 26
    Inputs <- MCInputs
    Marker <- MCMarker
SPECIFICATION Spec
INVARIANTS
    EndToEnd
    HandshakeHonest
    PrefixRefused
    ReadHonest
PROPERTY
    Arrives
CHECK_DEADLOCK FALSE
