CONSTANTS
    p1 = p1
    p2 = p2
    Peers = {p1, p2}
    w1 = w1
    Wants = {w1}
    CidOf <- MCCidOf
    changesBufferSize = 2
    peerDontHaveLimit = 1
    MaxMessages = 2
    MaxEvents = 2
    None = None
SPECIFICATION FairSpec
INVARIANTS
    TypeOK
    CandidatesAreAsked
    NotWaitingForDontHave
PROPERTIES
    LostHopeIsReported
    SignalsReturn
CHECK_DEADLOCK FALSE
