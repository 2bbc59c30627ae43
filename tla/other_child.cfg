CONSTANTS
    Pids = {p1, p2}
    Attachable = {}
    p1 = p1
    p2 = p2
    NoPid = NoPid
    Instr <- MCInstr
    Entry = 1
    Succ <- MCSucc
    Exits = {3}
    Syms = {1, 5}
    WatchAddrs = {3}
    WildAddr = 9
    MaxBps = 2
    MaxSignals = 1
SPECIFICATION Spec
PROPERTY ResumeRestores
CHECK_DEADLOCK FALSE
