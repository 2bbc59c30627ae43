CONSTANTS
    Pids = {p1, a1}
    Attachable = {a1}
    p1 = p1
    a1 = a1
    NoPid = NoPid
    Instr <- MCInstr
    Entry = 1
    Succ <- MCSucc
    Exits = {3}
    Syms = {1, 5}
    WatchAddrs = {3}
    WildAddr = 9
    MaxBps = 2
    MaxSignals = 2
SPECIFICATION Spec
INVARIANTS
    Int3Known
    OriginalsAreCode
    WaitHasAnAnswer
CHECK_DEADLOCK FALSE
