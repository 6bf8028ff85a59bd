CONSTANTS
    p1 = p1
    Peers = {p1}
    w1 = w1
    Wants = {w1}
    CidOf <- MCCidOf
    Allowed <- MCAllowed
    Small = {}
    sendDontHaves = TRUE
    h1 = h1
    Handlers = {h1}
    r1 = r1
    Receivers = {r1}
    u1 = u1
    u2 = u2
    Workers = {u1, u2}
    engineTaskWorkerCount = 2
    s1 = s1
    s2 = s2
    Senders = {s1, s2}
    l1 = l1
    l2 = l2
    l3 = l3
    l4 = l4
    Ledgers = {l1, l2, l3, l4}
    Messages <- MCMessages
    MaxConnects = 1
    MaxMessages = 2
    MaxArrivals = 1
    None = None
SYMMETRY Symmetry
CONSTRAINT ClosesEarly
SPECIFICATION Spec
INVARIANTS
    NoDoubleSend
    WorkIsSignalled
    ArrivalIsServed
    OutboxOpenForWorkers
CHECK_DEADLOCK FALSE
