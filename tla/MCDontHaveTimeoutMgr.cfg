CONSTANTS
    w1 = w1
    w2 = w2
    Wants = {w1, w2}
    DefaultTimeout = 1
    MaxTimeout = 2
    MaxQueue = 3
    MaxFiring = 2
SPECIFICATION FairSpec
INVARIANTS
    OneActiveEntry
    QueueInOrder
    CheckIsInTime
PROPERTY
    WaitingEnds
