\* The tail path with nothing going wrong.
CONSTANTS
    CacheMax = 2
    UnitMax = 4
    IndexMax = 5
    FaultSets = {{}}
    None = None
SPECIFICATION FairSpec
PROPERTIES
    OldFilesPosted
CHECK_DEADLOCK FALSE
