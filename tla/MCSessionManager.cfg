CONSTANTS
    s1 = s1
    s2 = s2
    SessionIDs = {s1, s2}
    w1 = w1
    Wants = {w1}
    h1 = h1
    Handlers = {h1}
    IncomingCap = 2
SPECIFICATION FairSpec
INVARIANTS
    AskedForSomeone
PROPERTIES
    BlocksAreKept
    LiveIsServed
    ReceiveEnds
CHECK_DEADLOCK FALSE
