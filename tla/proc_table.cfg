\* init, a child and a grandchild on three CPUs
SPECIFICATION Spec
CONSTANTS
    CPU = {c1, c2, c3}
    NPROC = 3
    NoCpu = NoCpu
SYMMETRY Symmetry
INVARIANTS StackOnOneCpu Inv NoLostWakeup SleepLockExclusive
PROPERTY ImplementsProcTree
