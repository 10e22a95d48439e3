\* A configuration that arrives while the device runs.
CONSTANTS
    ConfigMax = 2
    Usable = {1, 2}
    OtaMax = 0
    RestartMax = 0
SPECIFICATION Spec
INVARIANTS
    NewestParsed
CHECK_DEADLOCK FALSE
