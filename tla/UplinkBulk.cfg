\* The Linux port when the network is not available.
CONSTANTS
    Ports = {"mqttclient"}
    MsgMax = 6
    QueueMax = 2
    CacheMax = 3
SPECIFICATION Spec
INVARIANTS
    NoneDropped
CHECK_DEADLOCK FALSE
