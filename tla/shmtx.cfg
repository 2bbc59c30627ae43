CONSTANTS
    p1 = p1
    p2 = p2
    p3 = p3
    p4 = p4
    Procs = {p1, p2, p3, p4}
    Nobody = Nobody
    PidOf <- MCPidOf
    SpinTries = 1
    Semaphore = TRUE
    MaxCrashes = 1
    MaxErrors = 1
SPECIFICATION FairSpec
INVARIANTS
    MutualExclusion
    PostsBalance
    SomebodyWakes
PROPERTIES
    OnlyHolderUnlocks
    DeadlockFreedom
    ImplementsMutex
CHECK_DEADLOCK FALSE
