------------------------------ MODULE Tracers ------------------------------
(***************************************************************************)
(* The stand-alone programs of blog/, from which the debugger grew: each   *)
(* one starts or attaches to a process, waits for it to stop, takes the    *)
(* stop for the one it is after and resumes the process, until it ends.    *)
(* softbreak, dbug_break and attach put INT3 on one function, hardbreak    *)
(* uses debug register 0, dbug and getsyscall report write(2) calls.       *)
(* A stop is handled in one action up to the next wait(): a stopped        *)
(* process does nothing in between.  It may be killed in between, which    *)
(* ends the program like a kill before: only the tracers of system calls,  *)
(* whose registers are then old ones, tell the two apart.                  *)
(***************************************************************************)
EXTENDS Integers

CONSTANTS Programs,     \* the programs of blog/ that are run
          Instr,        \* addresses of the instructions of the process
          Entry,        \* where a process is when it first stops
          Succ, Exits,  \* as in module Program
          Bar,          \* the function with the breakpoint
          Calls,        \* addresses of system calls
          Writes,       \* those of write(2)
          Lost,         \* an address that is none of the process's code
          MaxSignals    \* bound: signals sent to the process

ASSUME TracerAssumption ==
    /\ Instr \subseteq Nat \ {0} /\ Entry \in Instr /\ Bar \in Instr
    /\ Succ \in [Instr -> SUBSET Instr] /\ Exits \subseteq Instr
    /\ Writes \subseteq Calls /\ Calls \subseteq Instr /\ Lost \in Int \ Instr

VARIABLES
    prog,           \* the program that is run
    pc,             \* which of its waits it is in: "start", "loop", "step"; or "done"
    run,            \* the process: "free", "new", "running", "stopped", "exited", "killed",
                    \* "reaped"
    why,            \* what has stopped it
    ip, bar,        \* its instruction pointer, the byte at Bar
    dr0, rf,        \* debug register 0 holds Bar; resume flag
    stepping,       \* resumed by PTRACE_SINGLESTEP
    call, incall,   \* its last system call, and whether it is inside it
    orig_rax,       \* what the tracer finds there: "write", "other" or "none"
    regs,           \* the registers a tracer of system calls has read last
    iscalling, arg, \* of the tracers of system calls
    line,           \* the last call they have reported
    seen,           \* the tracer has printed this visit to Bar
    sigs

code   == <<ip, bar, dr0, rf, seen>>
calls  == <<call, incall, orig_rax, regs, iscalling, arg, line>>
vars   == <<prog, pc, run, why, stepping, code, calls, sigs>>

\* How a program gets the process to stop: by INT3 on a function, by a debug
\* register, or by PTRACE_SYSCALL.
Uses == [softbreak |-> "int3", dbug_break |-> "int3", attach |-> "int3",
         hardbreak |-> "hw", dbug |-> "calls", getsyscall |-> "calls"]

Init == /\ prog \in Programs
        /\ pc = "start"
        /\ IF prog = "attach" THEN run = "free" /\ ip \in Instr ELSE run = "new" /\ ip = Entry
        /\ why = "none" /\ bar = "insn" /\ dr0 = FALSE /\ rf = FALSE /\ stepping = FALSE
        /\ call = Lost /\ incall = FALSE /\ orig_rax = "none"
        /\ regs \in [orig_rax : {"write", "none"}, call : {Lost}, at : {"none"}]
        /\ iscalling = FALSE /\ arg = Lost
        /\ line = [arg |-> Lost, call |-> Lost, at |-> "none"]
        /\ seen = FALSE /\ sigs = 0

-----------------------------------------------------------------------------
(* The process and the kernel.                                             *)

Alive == run \in {"running", "stopped"}
Ended == run \in {"exited", "killed"}
StopFor(reason) == run' = "stopped" /\ why' = reason /\ stepping' = FALSE

\* PTRACE_CONT, PTRACE_SYSCALL or PTRACE_SINGLESTEP, without a signal.
Resume(single) == run' = "running" /\ why' = "none" /\ stepping' = single

\* PTRACE_TRACEME and SIGSTOP or the SIGTRAP of exec, or the SIGSTOP of PTRACE_ATTACH.
FirstStop == /\ run = "new" /\ StopFor("start")
             /\ UNCHANGED <<prog, pc, code, calls, sigs>>

\* PTRACE_TRACEME or exec fails and the child returns from main, or the process
\* is killed before it stops.
NeverStarts == /\ run = "new"
               /\ run' \in {"exited", "killed"}
               /\ UNCHANGED <<prog, pc, why, stepping, code, calls, sigs>>

AtBreakpoint == ip = Bar /\ (bar = "int3" \/ (dr0 /\ ~rf))

\* INT3 reports behind itself, a debug register before the instruction.
Trap == /\ run = "running" /\ AtBreakpoint
        /\ IF dr0 THEN StopFor("hw") /\ rf' = TRUE /\ UNCHANGED ip
                  ELSE StopFor("int3") /\ ip' = ip + 1 /\ UNCHANGED rf
        /\ UNCHANGED <<prog, pc, bar, dr0, seen, calls, sigs>>

StopsAtCalls == Uses[prog] = "calls" /\ ip \in Calls

Insn == /\ run = "running" /\ ip \in Instr /\ ~AtBreakpoint /\ ~StopsAtCalls
        /\ ip' \in Succ[ip]
        /\ rf' = FALSE /\ seen' = (seen /\ ip # Bar)
        /\ IF stepping THEN StopFor("step") ELSE UNCHANGED <<run, why, stepping>>
        /\ UNCHANGED <<prog, pc, bar, dr0, calls, sigs>>

EnterCall == /\ run = "running" /\ StopsAtCalls /\ ~incall
             /\ incall' = TRUE /\ call' = ip
             /\ orig_rax' = IF ip \in Writes THEN "write" ELSE "other"
             /\ StopFor("enter")
             /\ UNCHANGED <<prog, pc, code, regs, iscalling, arg, line, sigs>>

LeaveCall == /\ run = "running" /\ incall
             /\ incall' = FALSE /\ ip' \in Succ[ip]
             /\ StopFor("exit")
             /\ UNCHANGED <<prog, pc, bar, dr0, rf, seen, call, orig_rax, regs, iscalling,
                            arg, line, sigs>>

\* Off the code a process faults, or comes upon some instruction.
Derailed == /\ run = "running" /\ ip \notin Instr
            /\ \/ StopFor("signal") /\ UNCHANGED ip
               \/ ip' \in Instr /\ UNCHANGED <<run, why, stepping>>
            /\ UNCHANGED <<prog, pc, bar, dr0, rf, seen, calls, sigs>>

\* A signal stops the process and is then dropped.  On the way out of a system
\* call orig_rax still has the number of the call, elsewhere it has none.
Signal == /\ run = "running" /\ ~incall
          /\ sigs < MaxSignals /\ sigs' = sigs + 1
          /\ orig_rax' \in {orig_rax, "none"}
          /\ StopFor("signal")
          /\ UNCHANGED <<prog, pc, code, call, incall, regs, iscalling, arg, line>>

Exit == /\ run = "running" /\ ip \in Exits /\ ~AtBreakpoint
        /\ StopsAtCalls => incall
        /\ run' = "exited"
        /\ UNCHANGED <<prog, pc, why, stepping, code, calls, sigs>>

Kill == /\ Alive /\ run' = "killed"
        /\ UNCHANGED <<prog, pc, why, stepping, code, calls, sigs>>

Process == \/ FirstStop \/ NeverStarts \/ Trap \/ Insn \/ EnterCall \/ LeaveCall
           \/ Derailed \/ Signal \/ Exit \/ Kill

-----------------------------------------------------------------------------
(* The tracing programs, from one wait() to the next.                      *)

Waits(label, uses) == pc = label /\ Uses[prog] = uses /\ run = "stopped"

\* Fault: the breakpoint is not put back.
ReplantNothing == /\ Waits("step", "int3") /\ Resume(FALSE) /\ pc' = "loop"
                  /\ UNCHANGED <<prog, code, calls, sigs>>

\* The byte is saved and replaced.
Plant == /\ Waits("start", "int3")
         /\ bar' = "int3"
         /\ Resume(FALSE) /\ pc' = "loop"
         /\ UNCHANGED <<prog, ip, dr0, rf, seen, calls, sigs>>

\* Fault: rip stays behind INT3.
HitWithoutRewinding ==
    /\ Waits("loop", "int3")
    /\ bar' = "insn" /\ seen' = (why = "int3")
    /\ Resume(TRUE) /\ pc' = "step"
    /\ UNCHANGED <<prog, ip, dr0, rf, calls, sigs>>

\* Every stop is taken for the breakpoint's: byte back, rip back, one step.
Hit == /\ Waits("loop", "int3")
       /\ bar' = "insn"
       /\ ip' = IF ip - 1 \in Instr THEN ip - 1 ELSE Lost
       /\ seen' = (why = "int3")
       /\ Resume(TRUE) /\ pc' = "step"
       /\ UNCHANGED <<prog, dr0, rf, calls, sigs>>

\* After wait(NULL), whatever it has returned.
Replant == /\ Waits("step", "int3")
           /\ bar' = "int3"
           /\ Resume(FALSE) /\ pc' = "loop"
           /\ UNCHANGED <<prog, ip, dr0, rf, seen, calls, sigs>>

SetRegister == /\ Waits("start", "hw")
               /\ dr0' = TRUE
               /\ Resume(FALSE) /\ pc' = "loop"
               /\ UNCHANGED <<prog, ip, bar, rf, seen, calls, sigs>>

ShowStop == /\ Waits("loop", "hw")
            /\ seen' = (ip = Bar)
            /\ Resume(FALSE)
            /\ UNCHANGED <<prog, pc, ip, bar, dr0, rf, calls, sigs>>

StartTracing == /\ Waits("start", "calls")
                /\ Resume(FALSE) /\ pc' = "loop"
                /\ UNCHANGED <<prog, code, calls, sigs>>

\* Fault: the stops of all system calls are counted.
CountAnyStop(r) == IF ~iscalling
                   THEN iscalling' = TRUE /\ arg' = r.call /\ UNCHANGED line
                   ELSE /\ line' = [arg |-> arg, call |-> r.call, at |-> r.at]
                        /\ iscalling' = FALSE /\ UNCHANGED arg

\* Registers with write's number in orig_rax are taken for those at the entry of
\* a call and at its exit in turn.  The result printed is the one in r: the call's
\* at its exit, -38 at its entry.
CountStop(r) == IF r.orig_rax # "write" THEN UNCHANGED <<iscalling, arg, line>>
                ELSE IF ~iscalling
                THEN iscalling' = TRUE /\ arg' = r.call /\ UNCHANGED line
                ELSE /\ line' = [arg |-> arg, call |-> r.call, at |-> r.at]
                     /\ iscalling' = FALSE /\ UNCHANGED arg

Registers == [orig_rax |-> orig_rax, call |-> call, at |-> why]

\* A process killed after its registers are read cannot be resumed, which ends
\* the program.
ShowCall == /\ Waits("loop", "calls")
            /\ regs' = Registers
            /\ CountStop(Registers)
            /\ \/ Resume(FALSE) /\ UNCHANGED pc
               \/ run' = "reaped" /\ pc' = "done" /\ UNCHANGED <<why, stepping>>
            /\ UNCHANGED <<prog, code, call, incall, orig_rax, sigs>>

\* Fault: an end during the single step is not noticed.
LeaveLoop == /\ pc = "loop" /\ Ended
             /\ run' = "reaped" /\ pc' = "done"
             /\ UNCHANGED <<prog, why, stepping, code, calls, sigs>>

\* An exit is reported and ends the program.  A kill is taken for a stop, and so
\* is any end during the single step: what is done to the process fails until
\* resuming it does, which ends the program; the registers counted in the loop
\* are those read last, or whatever regs held at first.
Leave == /\ pc # "done" /\ Ended
         /\ run' = "reaped" /\ pc' = "done"
         /\ IF run = "killed" /\ pc = "loop" /\ Uses[prog] = "calls"
            THEN CountStop(regs) ELSE UNCHANGED <<iscalling, arg, line>>
         /\ UNCHANGED <<prog, why, stepping, code, call, incall, orig_rax, regs, sigs>>

softbreak  == prog = "softbreak" /\ (Plant \/ Hit \/ Replant \/ Leave)
dbug_break == prog = "dbug_break" /\ (Plant \/ Hit \/ Replant \/ Leave)
hardbreak  == prog = "hardbreak" /\ (SetRegister \/ ShowStop \/ Leave)
dbug       == prog = "dbug" /\ (StartTracing \/ ShowCall \/ Leave)
getsyscall == prog = "getsyscall" /\ (StartTracing \/ ShowCall \/ Leave)

\* attach goes on when PTRACE_ATTACH fails: waitpid fails, too, and leaves the
\* status 0, which reads as an exit.
PTRACE_ATTACH == /\ run = "free"
                 /\ \/ run' = "new" /\ UNCHANGED pc
                    \/ pc' = "done" /\ UNCHANGED run
                 /\ UNCHANGED <<prog, why, stepping, code, calls, sigs>>
attach     == /\ prog = "attach" /\ pc # "done"
              /\ PTRACE_ATTACH \/ Plant \/ Hit \/ Replant \/ Leave

Tracer == softbreak \/ dbug_break \/ attach \/ hardbreak \/ dbug \/ getsyscall

Next == Process \/ Tracer
Spec == Init /\ [][Next]_vars

\* The tracer is scheduled; nothing is assumed of the process.
FairSpec == Spec /\ WF_vars(Tracer)

-----------------------------------------------------------------------------
life == [p \in {"process"} |-> CASE Alive                   -> "alive"
                                 [] Ended \/ run = "reaped" -> "ended"
                                 [] OTHER                   -> "absent"]
at == [p \in {"process"} |-> IF why = "int3" THEN ip - 1 ELSE ip]

P == INSTANCE Program WITH Pids <- {"process"}, life <- life, at <- at

\* Only the three programs that rewind rip are misled by a signal.
Trusted == sigs' = 0 \/ Uses[prog] # "int3"

\* The process executes its own instructions, each one once, under every one of
\* the programs, provided that no signal stops it under those with INT3.
RunsAsAlone == P!Init /\ [][Trusted => P!Next]_<<life, at>>

\* No visit of the process to Bar goes unprinted, from the first to the last,
\* although the breakpoint is lifted to let the process pass.
VisitsAreShown ==
    [][Insn /\ ip = Bar /\ Uses[prog] # "calls" /\ Trusted => seen]_vars

\* Counting stops tells entries from exits as long as no signal stops the
\* process: no write(2) is missed, and what is printed has the arguments of the
\* call it is about and is the call's result.  Only the last line may show the
\* call in which the process was killed, with no result.
CallsArePaired ==
    sigs = 0 /\ Uses[prog] = "calls" =>
        /\ line.at # "none" =>
              /\ line.arg = line.call
              /\ line.at = "exit" \/ (pc = "done" /\ line.call = call)
        /\ pc = "loop" /\ run = "running" => iscalling = (incall /\ call \in Writes)

\* No stop and no end of the process leaves a program waiting for another one.
StopsAreAnswered == run = "stopped" \/ Ended ~> run = "running" \/ pc = "done"
=============================================================================
