\* Every use the queue's interface allows: several senders, several
\* receivers, timed waits and spurious wakeups.
CONSTANTS
    Senders = {s1, s2}
    Receivers = {r1, r2}
    ItemMax = 2
    MsgMax = 4
    TimedRecv = TRUE
    Spurious = TRUE
    Free = Free
SPECIFICATION FairSpec
INVARIANTS
    TypeOK
    IInv
    ListShape
    AssertsHold
    NoLostWakeup
PROPERTIES
    ImplementsFifo
    Delivered
CHECK_DEADLOCK FALSE
