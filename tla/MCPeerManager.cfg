CONSTANTS
    p1 = p1
    h1 = h1
    h2 = h2
    q1 = q1
    q2 = q2
    NoPeer = NoPeer
    w1 = w1
    Wants = {w1}
    Peers = {p1}
    Handlers = {h1, h2}
    Queues = {q1, q2}
    EarlyConns = 1
    MaxConns = 2
    MaxRetries = 2
SPECIFICATION PMSpec
INVARIANTS
    EventsAlternate
    RefsCounted
    QueuesFollowConnections
    RegisteredQueuesAlive
PROPERTIES
    ReplacedQueuesStop
    QueuesCalledAsAssumed
CHECK_DEADLOCK FALSE
