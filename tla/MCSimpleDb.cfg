\* Two keys and two threads; texts of two lengths.
CONSTANTS
    Threads = {core, mqtt}
    Size = 2
    Lengths = {1, 2}
    PutMax = 3
    RestartMax = 1
SYMMETRY Symmetry
SPECIFICATION Spec
INVARIANTS
    TypeOK
    FileWhole
CHECK_DEADLOCK FALSE
