CONSTANTS
    Programs = {"softbreak", "dbug_break", "attach", "hardbreak", "dbug", "getsyscall"}
    Instr <- MCInstr
    Entry = 2
    Succ <- MCSucc
    Exits = {11}
    Bar = 4
    Calls = {6, 7, 9, 11}
    Writes = {6, 9}
    Lost = 0
    MaxSignals = 2
SPECIFICATION FairSpec
INVARIANTS
    CallsArePaired
PROPERTIES
    RunsAsAlone
    VisitsAreShown
    StopsAreAnswered
CHECK_DEADLOCK FALSE
