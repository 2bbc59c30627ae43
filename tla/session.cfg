CONSTANTS
    Pids = {p1}
    Attachable = {}
    p1 = p1
    NoPid = NoPid
    Instr <- MCInstr
    Entry = 1
    Succ <- MCSucc
    Exits = {3}
    Syms = {1, 5}
    WatchAddrs = {3}
    WildAddr = 9
    MaxBps = 3
    MaxSignals = 2
SPECIFICATION UserSpec
INVARIANTS
    BreakpointsArmed
    CodeIntact
    StopsAtInstructionStart
    SessionInv
PROPERTIES
    Transparent
    CommandReturns
    HitMakesProgress
    SoftwareTrapIsReal
