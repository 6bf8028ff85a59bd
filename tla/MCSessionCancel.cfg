CONSTANTS
    c1 = c1
    Calls = {c1}
    h1 = h1
    Handlers = {h1}
    w1 = w1
    Wants = {w1}
    CidOf <- MCCidOf
    Repeated = {}
    LateInputs = TRUE
    QueueBound = 1
    IncomingCap = 1
    SpillBound = 0
    broadcastLimit = 1
    liveWantsOrderGCLimit = 0
SPECIFICATION FairSpec
PROPERTY
    CancelledCallsLeave
CHECK_DEADLOCK FALSE
