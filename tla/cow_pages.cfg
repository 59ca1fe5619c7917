SPECIFICATION Spec
CONSTANTS
    Proc = {init, p1}
    initproc = init
    Frames = {f1, f2, f3}
    MaxPages = 2
    Data = {0, 1}
    Zero = 0
    Junk = 2
    None = None
SYMMETRY Symmetry
INVARIANTS NoPanic PageTableInv
PROPERTY ImplementsPageAlloc
\* init in exit is the panic "init exiting": the system stops.
CHECK_DEADLOCK FALSE
