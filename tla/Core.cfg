\* Two configurations of one and two ranges, two firmware messages and one
\* power loss.
CONSTANTS
    ConfigMax = 2
    Usable = {1, 2}
    OtaMax = 2
    RestartMax = 1
SPECIFICATION FairSpec
INVARIANTS
    TypeOK
    TsCoversConfig
    CacheDurable
    SomethingRead
PROPERTIES
    OtaSettles
CHECK_DEADLOCK FALSE
