SPECIFICATION FairSpec
CONSTANTS
    Proc = {p1, p2}
    Block = {b1, b2, b3}
    Data = {0, 1}
    None = None
    MAXOPBLOCKS = 1
    LOGSIZE = 3
    LogBlocks = 3
    OpBlocks = 1
    Nested = {p1}
INVARIANTS OnlyLastBlockPanics Inv
PROPERTIES ImplementsAtomicDisk SleepersWake
