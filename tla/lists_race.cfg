\* Two CPUs, with balancing and stealing: what survives the races on the lists.
SPECIFICATION Spec
CONSTANTS
    NCPU = 2
    NPROC = 3
    NoCpu = NoCpu
    Balance = TRUE
    MaxCalls = 4
    Calls = {"yield", "sleep", "exit", "wakeup", "kill", "fork", "failed", "wait", "set_cpu"}
INVARIANTS RunsOnOneCpu Inv
CHECK_DEADLOCK FALSE
