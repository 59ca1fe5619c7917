SPECIFICATION Spec
CONSTANTS
    Proc = {p1, p2}
    Pipe = {q1}
    NFILE = 3
    NOFILE = 3
    Byte = {b1, b2}
    PIPESIZE = 2
    Width = 4
    MaxBytes = 3
    MaxCalls = 5
    None = None
    Eof = Eof
    Fail = Fail
SYMMETRY Symmetry
INVARIANTS FilesExact NoLostWakeup
PROPERTY ImplementsByteQueue
CHECK_DEADLOCK FALSE
