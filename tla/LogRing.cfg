\* Two printers; lines of one byte and of a third of the buffer; two bytes make
\* a chunk.
CONSTANTS
    Printers = {core, send}
    BufSize = 20
    Lengths = {1, 7}
    LostLen = 4
    WaitMax = 2
    LineMax = 5
    Free = Free
SPECIFICATION FairSpec
INVARIANTS
    TypeOK
    IInv
    FileInOrder
    InsideBuffer
    LossesReported
PROPERTIES
    AllWritten
CHECK_DEADLOCK FALSE
