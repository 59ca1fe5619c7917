SPECIFICATION Spec
CONSTANTS
    Proc = {p1, p2}
    File = {f1, f2}
    Data = {d1, d2}
    NDIRECT = 1
    BSIZE = 3
    BPB = 12
    Blocks = 40
    MAXOPBLOCKS = 10
    Taken = {0, 9}
    Sizes = {1, 17}
    MaxCalls = 4
    None = None
SYMMETRY Symmetry
INVARIANTS BlocksOwnedOnce OpFitsLog
PROPERTY ImplementsFileContents
CHECK_DEADLOCK FALSE
