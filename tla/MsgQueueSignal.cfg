\* A signal sent after the mutex was released reaches a later wait.
CONSTANTS
    Senders = {core}
    Receivers = {send}
    ItemMax = 2
    MsgMax = 5
    TimedRecv = FALSE
    Spurious = FALSE
    Free = Free
SPECIFICATION Spec
INVARIANTS
    AssertedSize
CHECK_DEADLOCK FALSE
