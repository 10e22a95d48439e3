\* The push after a dump meets the mutex the dump kept.
CONSTANTS
    Senders = {core}
    Receivers = {send}
    ItemMax = 2
    MsgMax = 5
    TimedRecv = FALSE
    Spurious = FALSE
    Free = Free
SPECIFICATION FairSpec
PROPERTIES
    TryAgainReturns
CHECK_DEADLOCK FALSE
