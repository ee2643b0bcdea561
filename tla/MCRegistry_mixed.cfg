CONSTANTS
    o1 = o1
    o2 = o2
    i1 = i1
    h1 = h1
    h2 = h2
    Conns = {o1, o2, i1}
    Outgoing = {o1, o2}
    Hosts = {h1, h2}
    HostOf <- MixedHosts
    Anonymous = {h2}
    s1 = s1
    s2 = s2
    Services = {s1, s2}
    Users = {"u"}
    Nil = Nil
    Attempts = 2
SPECIFICATION Spec
SYMMETRY Symmetry
INVARIANTS
    IndexExact
    ProvidersLeave
CHECK_DEADLOCK FALSE
