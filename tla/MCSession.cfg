CONSTANTS
    c1 = c1
    Calls = {c1}
    h1 = h1
    Handlers = {h1}
    w1 = w1
    Wants = {w1}
    CidOf <- MCCidOf
    Repeated = {c1}
    LateInputs = FALSE
    QueueBound = 1
    IncomingCap = 1
    SpillBound = 1
    broadcastLimit = 1
    liveWantsOrderGCLimit = 0
SPECIFICATION LiveSpec
INVARIANTS
    TrackedIsWanted
PROPERTY
    LiveIsServed
CHECK_DEADLOCK FALSE
