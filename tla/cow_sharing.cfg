SPECIFICATION Spec
CONSTANTS
    Proc = {init, p1, p2}
    initproc = init
    Frames = {f1, f2}
    MaxPages = 1
    Data = {0, 1}
    Zero = 0
    Junk = 2
    None = None
SYMMETRY Symmetry
INVARIANT WritableIsPrivate
PROPERTIES ImplementsPageAlloc ImplementsForkMemory
\* init in exit is the panic "init exiting": the system stops.
CHECK_DEADLOCK FALSE
