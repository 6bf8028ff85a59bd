CONSTANTS
    w1 = w1
    Wants = {w1}
    CanSplit = TRUE
    sendMessageCutoff = 1
    ResponsesCap = 1
SPECIFICATION FairSpec
INVARIANTS
    CancelsNotWanted
    TracksWhatWasAsked
    TimerMatchesSchedule
    SendTimesOfSentWants
PROPERTIES
    NoLostWakeup
    AskedIsTold
CHECK_DEADLOCK FALSE
