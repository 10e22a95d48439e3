\* Both ports; the queue of two messages is overrun, the cache of three filled.
CONSTANTS
    Ports = {"mqttclient", "mymqtt"}
    MsgMax = 6
    QueueMax = 2
    CacheMax = 3
SPECIFICATION FairSpec
INVARIANTS
    TypeOK
    TextOwned
    NodeOwned
    OnceInOrder
    DumpKept
PROPERTIES
    Drained
CHECK_DEADLOCK FALSE
