CONSTANTS
    w1 = w1
    Wants = {w1}
    CanSplit = FALSE
    sendMessageCutoff = 1
    ResponsesCap = 0
SPECIFICATION Spec
INVARIANT
    ToldIsCancelled
CHECK_DEADLOCK FALSE
