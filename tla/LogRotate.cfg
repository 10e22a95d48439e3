\* Two printing threads; rotations may overlap, and opens may fail.
CONSTANTS
    Printers = {p1, p2}
    Openers = {o1, o2}
    MaxLines = 1
    KeepDays = {0, 1}
    FdMax = 4
    PrintMax = 3
SPECIFICATION FairSpec
INVARIANTS
    TypeOK
    OneOpener
    FdsAccounted
    CurrentNamed
    TruncatesOther
PROPERTIES
    RotationEnds
CHECK_DEADLOCK FALSE
