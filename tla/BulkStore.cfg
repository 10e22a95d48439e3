\* Five sets of faults, among them all; see the properties for what each may break.
CONSTANTS
    CacheMax = 3
    UnitMax = 4
    IndexMax = 5
    FaultSets = {
        {"open", "write", "rename", "db", "lost", "reject", "nomem", "restart", "crash"},
        {"open", "write", "rename", "db", "lost"},
        {"open", "write", "rename", "lost", "restart"},
        {"open", "db", "reject", "nomem", "restart"},
        {"open", "write", "lost", "restart"}}
    None = None
SPECIFICATION FairSpec
INVARIANTS
    TypeOK
    NothingLost
    TailBehindUnsent
    NoRepeatUpload
PROPERTIES
    IndexedFilesKept
    TailMoves
    ImplementsOutbox
CHECK_DEADLOCK FALSE
