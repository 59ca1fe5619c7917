\* One CPU: every kernel call, and interrupts between the steps of the scheduler.
SPECIFICATION Spec
CONSTANTS
    NCPU = 1
    NPROC = 4
    NoCpu = NoCpu
    MaxCalls = 12
    Balance = TRUE
    Calls = {"yield", "sleep", "exit", "wakeup", "kill", "fork", "wait"}
INVARIANTS NoPanic UbAtEmptyLine ListsMatchStates CountsMatchLists
\* A behaviour ends when the calls of the bound are made.
CHECK_DEADLOCK FALSE
