------------------------------ MODULE Debugger ------------------------------
(***************************************************************************)
(* The debugger (main.c, command.c, dbug.c, mem.c) and the processes it    *)
(* debugs through ptrace(2) and wait(2).                                   *)
(*                                                                         *)
(* Kernel side, one value per process: its run state, the image it runs,   *)
(* the event wait() has not reported yet, what stopped it, rip, the first  *)
(* byte of each of its instructions, debug register 0, the resume flag and *)
(* the single-step flag.  Debugger side: struct dbug_struct, and pc, which *)
(* says whether the program is at its prompt, in a blocking call or        *)
(* between two requests to ptrace.                                         *)
(*                                                                         *)
(* Every program has the same image at the same base, so that one table of *)
(* symbols and one set of instruction addresses serve them all.  A child   *)
(* that has not called exec runs the image of the debugger, of which one   *)
(* function is told apart.                                                 *)
(***************************************************************************)
EXTENDS Integers, Sequences

CONSTANTS
    Pids,        \* the processes there may be
    Attachable,  \* those that run already and can only be attached
    NoPid,       \* dbug->pid before any process (0 in the code)
    Instr,       \* addresses of the instructions of the image
    Entry,       \* where a process is when exec reports
    Succ,        \* Succ[a]: addresses that may follow the instruction at a
    Exits,       \* instructions that may end the process
    Syms,        \* addresses of the functions in .symtab
    WatchAddrs,  \* addresses the user may give to watch
    WildAddr,    \* a function of the debugger's own image
    MaxBps,      \* bound: breakpoints set in one session
    MaxSignals   \* bound: signals sent to the processes

ASSUME ProcessAssumption == Attachable \subseteq Pids /\ NoPid \notin Pids
ASSUME ImageAssumption == /\ Instr \subseteq Nat
                          /\ Entry \in Instr
                          /\ Succ \in [Instr -> SUBSET Instr]
                          /\ Exits \subseteq Instr
                          /\ Syms \subseteq Instr
                          /\ WatchAddrs \subseteq Instr
                          /\ WildAddr \in Nat
                          /\ {WildAddr, WildAddr + 1} \cap Instr = {}
ASSUME BoundAssumption == MaxBps \in Nat /\ MaxSignals \in Nat

VARIABLES
    run, image, event, cause, rip, text, dr0, rf, step,  \* processes, kernel
    pc, pid, child, status, regs, funs, bps, idx, \* debugger
    copy,  \* what a child that failed to exec holds of the debugger's state
    sigs   \* signals sent so far

kernel == <<run, image, event, cause, rip, text, dr0, rf, step>>
dbug   == <<pid, status, regs, funs, bps>>
vars   == <<kernel, pc, child, idx, dbug, copy, sigs>>

RunStates == {"none",      \* does not exist yet
              "free",      \* runs, and the debugger does not trace it
              "attaching", \* PTRACE_ATTACH done, not stopped yet
              "running", "stopped",
              "dead",      \* ended, not yet waited for
              "reaped"}
Images == {"fork",     \* the debugger's, forked, before exec
           "main",     \* the debugger's, exec failed: in its own main loop
           "program"}  \* that of the program to be debugged
Events == {"none", "trap", "signal", "exited", "killed"}
Causes == {"none", "exec", "int3", "hw", "step", "signal"}
Bytes  == {"insn",   \* the program's own code
           "int3",   \* 0xCC
           "junk"}   \* 0xFF: what a failed PTRACE_PEEKTEXT leaves in orig_code
NoAddr  == -1
OwnCode == -3   \* rip anywhere else in the debugger's image or a library
Places  == Nat \cup {OwnCode}
Addrs   == Instr \cup {WildAddr}
Breakpoints == [type : {"SF", "HW"}, addr : Addrs, orig : Bytes]

Init ==
    /\ run = [p \in Pids |-> IF p \in Attachable THEN "free" ELSE "none"]
    /\ image = [p \in Pids |-> IF p \in Attachable THEN "program" ELSE "fork"]
    /\ event = [p \in Pids |-> "none"]
    /\ cause = [p \in Pids |-> "none"]
    /\ rip = [p \in Pids |-> Entry]
    /\ text = [p \in Pids |-> [a \in Addrs |-> "insn"]]
    /\ dr0 = [p \in Pids |-> NoAddr]
    /\ rf = [p \in Pids |-> FALSE]
    /\ step = [p \in Pids |-> FALSE]
    /\ pc = "prompt"
    /\ pid = NoPid
    /\ child = NoPid
    /\ status = "exited"   \* {0}: WIFEXITED(0) is true
    /\ regs = 0            \* only rip of struct user_regs_struct matters
    /\ funs = "none"
    /\ bps = <<>>
    /\ idx = 0
    /\ copy = [p \in Pids |-> [pid |-> NoPid, status |-> "exited"]]
    /\ sigs = 0

-----------------------------------------------------------------------------
(* ptrace and wait as the kernel answers them.                             *)

\* A ptrace request on p succeeds; otherwise it fails and changes nothing.
Traced(p) == p \in Pids /\ run[p] = "stopped"

Alive(p) == run[p] \in {"running", "stopped"}

\* a is an address of p's image.
Mapped(p, a) == IF image[p] = "program" THEN a \in Instr ELSE a = WildAddr

\* Children and tracees wait() may report on; without any it fails (ECHILD).
Waitable(p) == run[p] \notin {"none", "free", "reaped"}

\* Fault: a wait() that fails is tried again.
NeverNoChild == FALSE

NoChild == \A p \in Pids : ~Waitable(p)

\* wait() reports the pending event of p.
Collect(p) ==
    /\ event[p] # "none"
    /\ event' = [event EXCEPT ![p] = "none"]
    /\ run' = IF run[p] = "dead" THEN [run EXCEPT ![p] = "reaped"] ELSE run

\* p stops (or ends) and an event waits to be collected.
StopWith(p, e, c) ==
    /\ run' = [run EXCEPT ![p] = "stopped"]
    /\ event' = [event EXCEPT ![p] = e]
    /\ cause' = [cause EXCEPT ![p] = c]
    /\ step' = [step EXCEPT ![p] = FALSE]

EndWith(p, e) ==
    /\ run' = [run EXCEPT ![p] = "dead"]
    /\ event' = [event EXCEPT ![p] = e]

\* PTRACE_CONT and PTRACE_SINGLESTEP of the current process.  A stop nobody
\* has waited for yet is forgotten.
ResumeIf(ok, single) ==
    IF ok
    THEN /\ run' = [run EXCEPT ![pid] = "running"]
         /\ event' = [event EXCEPT ![pid] = "none"]
         /\ cause' = [cause EXCEPT ![pid] = "none"]
         /\ step' = [step EXCEPT ![pid] = single]
    ELSE UNCHANGED <<run, event, cause, step>>

\* Faults: no single step; only a process stopped by a trap is resumed.
ResumeUnstepped(single) == ResumeIf(Traced(pid), FALSE)
ResumeAfterTrap(single) == ResumeIf(Traced(pid) /\ status = "trap", single)

Resume(single) == ResumeIf(Traced(pid), single)

\* read_pro_mem and write_pro_mem, one byte of the current process.  data is
\* unsigned, so the test for an error of PEEKTEXT never succeeds.
\* Faults: nothing is copied to str; the byte is read after INT3 was written.
ReadNothing(a) == "junk"
ReadLate(a) == IF Traced(pid) /\ Mapped(pid, a) THEN "int3" ELSE "junk"

read_pro_mem(a) ==
    IF Traced(pid) /\ Mapped(pid, a) THEN text[pid][a] ELSE "junk"

PutByte(a, byte) ==
    text' = IF Traced(pid) /\ Mapped(pid, a)
            THEN [text EXCEPT ![pid] = [@ EXCEPT ![a] = byte]]
            ELSE text

\* Faults: the original is not put back; INT3 is not put back; INT3 is put
\* back where the process stands.
WriteNoOriginal(a, byte) == IF byte = "int3" THEN PutByte(a, byte) ELSE UNCHANGED text
WriteNotAgain(a, byte) == IF pc # "stepped" THEN PutByte(a, byte) ELSE UNCHANGED text
WriteAtRip(a, byte) ==
    PutByte(IF pc = "stepped" /\ Traced(pid) THEN rip[pid] ELSE a, byte)

write_pro_mem(a, byte) == PutByte(a, byte)

\* exit() of the debugger: the processes in killed die, the kernel detaches
\* the others with the bytes they have.
DebuggerEnds(killed) ==
    /\ pc' = "exited"
    /\ run' = [p \in Pids |-> CASE ~Waitable(p)               -> run[p]
                                [] run[p] = "dead"            -> "reaped"
                                [] p \in killed               -> "reaped"
                                [] OTHER                      -> "free"]
    /\ event' = [p \in Pids |-> "none"]

-----------------------------------------------------------------------------
(* The breakpoint table t.                                                 *)

\* Fault: the address is compared with rip.
SoftAtRip(t, i, a) == i \in DOMAIN t /\ t[i].type = "SF" /\ t[i].addr = a + 1

SoftAt(t, i, a) == i \in DOMAIN t /\ t[i].type = "SF" /\ t[i].addr = a

\* find_current_SF_bp compares addresses with rip - 1 and returns the first.
FirstSoftAt(t, i, a) == SoftAt(t, i, a) /\ \A j \in 1 .. i - 1 : ~SoftAt(t, j, a)

\* rip in dbug->regs after PTRACE_GETREGS, which may fail and leave it.
FetchedRip == IF Traced(pid) THEN rip[pid] ELSE regs

-----------------------------------------------------------------------------
(* Commands typed at the prompt.                                           *)

\* b <symbol>, up to the byte it saves.  Without symbols nothing happens.
command_break(sym) ==
    /\ pc = "prompt" /\ funs # "none"
    /\ Len(bps) < MaxBps
    /\ LET a == IF funs = "image" THEN sym ELSE WildAddr
       IN  bps' = Append(bps, [type |-> "SF", addr |-> a, orig |-> read_pro_mem(a)])
    /\ idx' = Len(bps) + 1
    /\ pc' = "inserting"
    /\ UNCHANGED <<kernel, pid, child, status, regs, funs, copy, sigs>>

\* watch <address>: always debug register 0, whatever is in it already.
command_watch(a) ==
    /\ pc = "prompt"
    /\ Len(bps) < MaxBps
    /\ bps' = Append(bps, [type |-> "HW", addr |-> a, orig |-> "junk"])
    /\ dr0' = IF Traced(pid) THEN [dr0 EXCEPT ![pid] = a] ELSE dr0
    /\ UNCHANGED <<run, image, event, cause, rip, text, rf, step, pc, pid, child,
                   status, regs, funs, idx, copy, sigs>>

\* showreg leaves the registers it fetched in dbug->regs.
command_showreg ==
    /\ pc = "prompt"
    /\ regs' = FetchedRip
    /\ UNCHANGED <<kernel, pc, pid, child, status, funs, bps, idx, copy, sigs>>

\* c, up to its wait().
command_continue ==
    /\ pc = "prompt"
    /\ Resume(FALSE)
    /\ pc' = "contwait"
    /\ UNCHANGED <<image, rip, text, dr0, rf, child, idx, dbug, copy, sigs>>

\* dbug <program>: fork; the child gets a copy of the debugger's state.
command_dbug(p) ==
    /\ pc = "prompt"
    /\ run[p] = "none"
    /\ run' = [run EXCEPT ![p] = "running"]
    /\ rip' = [rip EXCEPT ![p] = OwnCode]
    /\ cause' = [cause EXCEPT ![p] = "none"]
    /\ step' = [step EXCEPT ![p] = FALSE]
    /\ copy' = [copy EXCEPT ![p] = [pid |-> pid, status |-> status]]
    /\ child' = p
    /\ pc' = "launchwait"
    /\ UNCHANGED <<image, event, text, dr0, rf, idx, dbug, sigs>>

\* attach <pid>; PTRACE_ATTACH sends SIGSTOP.
command_attach(p) ==
    /\ pc = "prompt"
    /\ run[p] = "free" /\ p \in Attachable
    /\ run' = [run EXCEPT ![p] = "attaching"]
    /\ child' = p
    /\ pc' = "attachwait"
    /\ UNCHANGED <<image, event, cause, rip, text, dr0, rf, step, idx, dbug, copy, sigs>>

\* q: kill(0, SIGKILL), with no process yet, reaches the whole process group.
command_exit ==
    /\ pc = "prompt"
    /\ DebuggerEnds(IF pid = NoPid THEN Pids \ Attachable ELSE {pid})
    /\ UNCHANGED <<image, cause, rip, text, dr0, rf, step, child, idx, dbug, copy, sigs>>

-----------------------------------------------------------------------------
(* The blocking calls.  wait() takes the event of any child.               *)

\* command_continue: the process exited, and so does the debugger.
ContinueSeesExit ==
    /\ pc = "contwait"
    /\ \/ \E p \in Pids : event[p] = "exited"
       \/ NoChild /\ status = "exited"
    /\ status' = "exited"
    /\ DebuggerEnds({})
    /\ UNCHANGED <<image, cause, rip, text, dr0, rf, step, pid, child, regs, funs, bps,
                   idx, copy, sigs>>

\* Fault: wait(NULL), so that the status of last time is looked at.
ContinueKeepsStatus ==
    /\ pc = "contwait"
    /\ \/ \E p \in Pids : event[p] # "exited" /\ Collect(p)
       \/ NoChild /\ status # "exited" /\ UNCHANGED <<run, event>>
    /\ pc' = "gotstop"
    /\ UNCHANGED <<image, cause, rip, text, dr0, rf, step, pid, child, status, regs, funs,
                   bps, idx, copy, sigs>>

\* command_continue: another event, or no child and the status of last time.
ContinueSeesStop ==
    /\ pc = "contwait"
    /\ \/ \E p \in Pids : /\ event[p] # "exited"
                          /\ Collect(p)
                          /\ status' = event[p]
       \/ NoChild /\ status # "exited" /\ UNCHANGED <<run, event, status>>
    /\ pc' = "gotstop"
    /\ UNCHANGED <<image, cause, rip, text, dr0, rf, step, pid, child, regs, funs, bps,
                   idx, copy, sigs>>

\* SIGTRAP right behind a software breakpoint, as the registers have it.
HitFound ==
    /\ pc = "gotstop" /\ status = "trap"
    /\ \E i \in DOMAIN bps : FirstSoftAt(bps, i, FetchedRip - 1) /\ idx' = i
    /\ regs' = FetchedRip
    /\ pc' = "hit"
    /\ UNCHANGED <<kernel, pid, child, status, funs, bps, copy, sigs>>

\* resume_INT3_bp_next, request by request: the byte is restored, ...
RestoreByte ==
    /\ pc = "hit"
    /\ write_pro_mem(bps[idx].addr, bps[idx].orig)
    /\ regs' = bps[idx].addr
    /\ pc' = "restored"
    /\ UNCHANGED <<run, image, event, cause, rip, dr0, rf, step, pid, child, status,
                   funs, bps, idx, copy, sigs>>

\* ... rip is moved back, ...
SetRegs ==
    /\ pc = "restored"
    /\ IF Traced(pid)
       THEN rip' = [rip EXCEPT ![pid] = regs] /\ cause' = [cause EXCEPT ![pid] = "none"]
       ELSE UNCHANGED <<rip, cause>>
    /\ pc' = "rewound"
    /\ UNCHANGED <<run, image, event, text, dr0, rf, step, child, idx, dbug, copy, sigs>>

\* ... one instruction is started, ...
StartStep ==
    /\ pc = "rewound"
    /\ Resume(TRUE)
    /\ pc' = "stepwait"
    /\ UNCHANGED <<image, rip, text, dr0, rf, child, idx, dbug, copy, sigs>>

\* Any other stop: back to the prompt (a hardware breakpoint is only printed).
OtherStop ==
    /\ pc = "gotstop"
    /\ status = "trap" => \A i \in DOMAIN bps : ~SoftAt(bps, i, FetchedRip - 1)
    /\ regs' = FetchedRip
    /\ pc' = "prompt"
    /\ UNCHANGED <<kernel, pid, child, status, funs, bps, idx, copy, sigs>>

\* ... wait(NULL) returns, whatever for, ...
StepWaitReturns ==
    /\ pc = "stepwait"
    /\ \/ \E p \in Pids : Collect(p)
       \/ NoChild /\ UNCHANGED <<run, event>>
    /\ pc' = "stepped"
    /\ UNCHANGED <<image, cause, rip, text, dr0, rf, step, child, idx, dbug, copy, sigs>>

PlantInt3 ==
    /\ write_pro_mem(bps[idx].addr, "int3")
    /\ pc' = "prompt"
    /\ UNCHANGED <<run, image, event, cause, rip, dr0, rf, step, child, idx, dbug, copy, sigs>>

\* ... and INT3 is written again.
RearmInt3 == pc = "stepped" /\ PlantInt3

\* insert_INT3_bp after the byte is saved.
InsertInt3 == pc = "inserting" /\ PlantInt3

\* open_funs reads /proc/<pid>/exe: before exec that is the debugger itself.
SymbolsOf(p) == IF ~Alive(p) THEN "none"
                ELSE IF image[p] = "program" THEN "image" ELSE "self"

\* dbug_pro after wait(): any event but an exit makes the child current.
LaunchWaitReturns ==
    /\ pc = "launchwait"
    /\ \E p \in Pids :
        /\ Collect(p)
        /\ status' = event[p]
        /\ IF event[p] = "exited"
           THEN UNCHANGED <<pid, funs>>
           ELSE pid' = child /\ funs' = SymbolsOf(child)
    /\ pc' = "prompt"
    /\ UNCHANGED <<image, cause, rip, text, dr0, rf, step, child, regs, bps, idx, copy, sigs>>

\* attach_pro waits for the process it attached, and for no other.
AttachWaitReturns ==
    /\ pc = "attachwait"
    /\ Collect(child)
    /\ status' = event[child]
    /\ IF event[child] = "exited"
       THEN UNCHANGED <<pid, funs>>
       ELSE pid' = child /\ funs' = SymbolsOf(child)
    /\ pc' = "prompt"
    /\ UNCHANGED <<image, cause, rip, text, dr0, rf, step, child, regs, bps, idx, copy, sigs>>

-----------------------------------------------------------------------------
(* The processes.                                                          *)

debugger == <<child, idx, dbug>>

\* The child, traced from PTRACE_TRACEME on, gets to exec, which stops it at
\* the entry of a new image without breakpoints.
ExecSucceeds(p) ==
    /\ run[p] = "running" /\ image[p] = "fork" /\ rip[p] = OwnCode
    /\ StopWith(p, "trap", "exec")
    /\ image' = [image EXCEPT ![p] = "program"]
    /\ rip' = [rip EXCEPT ![p] = Entry]
    /\ text' = [text EXCEPT ![p] = [a \in Addrs |-> "insn"]]
    /\ dr0' = [dr0 EXCEPT ![p] = NoAddr]
    /\ rf' = [rf EXCEPT ![p] = FALSE]
    /\ UNCHANGED <<pc, debugger, copy, sigs>>

\* exec fails: the child returns from dbug_pro into its own main loop.
ExecFails(p) ==
    /\ run[p] = "running" /\ image[p] = "fork" /\ rip[p] = OwnCode
    /\ image' = [image EXCEPT ![p] = "main"]
    /\ UNCHANGED <<run, event, cause, rip, text, dr0, rf, step, pc, debugger, copy, sigs>>

InMainLoop(p) == run[p] = "running" /\ image[p] = "main" /\ rip[p] = OwnCode

\* The nested debugger calls the function at WildAddr.
NestedCalls(p) ==
    /\ InMainLoop(p)
    /\ rip' = [rip EXCEPT ![p] = WildAddr]
    /\ UNCHANGED <<run, image, event, cause, text, dr0, rf, step, pc, debugger, copy, sigs>>

\* c in the nested debugger: nothing to continue or to wait for.
NestedContinues(p) ==
    /\ InMainLoop(p)
    /\ copy[p].status = "exited"
    /\ EndWith(p, "exited")
    /\ UNCHANGED <<image, cause, rip, text, dr0, rf, step, pc, debugger, copy, sigs>>

\* q in the nested debugger kills the process that was current at the fork.
NestedQuits(p) ==
    /\ InMainLoop(p)
    /\ copy[p].pid # NoPid
    /\ LET q      == copy[p].pid
           killed == IF Waitable(q) /\ run[q] # "dead" THEN {q} ELSE {}
       IN  /\ run' = [r \in Pids |-> IF r \in killed \cup {p} THEN "dead" ELSE run[r]]
           /\ event' = [r \in Pids |-> CASE r = p         -> "exited"
                                         [] r \in killed  -> "killed"
                                         [] OTHER         -> event[r]]
    /\ UNCHANGED <<image, cause, rip, text, dr0, rf, step, pc, debugger, copy, sigs>>

\* q in the nested debugger when no process was current: kill(0, SIGKILL).
NestedKillsGroup(p) ==
    /\ InMainLoop(p)
    /\ copy[p].pid = NoPid
    /\ DebuggerEnds(Pids \ Attachable)
    /\ UNCHANGED <<image, cause, rip, text, dr0, rf, step, debugger, copy, sigs>>

AttachStops(p) ==
    /\ run[p] = "attaching"
    /\ StopWith(p, "signal", "signal")
    /\ \E a \in Instr : rip' = [rip EXCEPT ![p] = a]
    /\ UNCHANGED <<image, text, dr0, rf, pc, debugger, copy, sigs>>

\* Debug register 0 matches and the resume flag does not mask it.
HwFault(p) == dr0[p] = rip[p] /\ ~rf[p]

InOwnCode(p) == image[p] # "program" /\ rip[p] = OwnCode

\* An instruction to be executed next.  Those of the debugger's image at
\* OwnCode only matter when they are single-stepped.
AtInsn(p) == \/ Mapped(p, rip[p]) /\ text[p][rip[p]] = "insn"
             \/ InOwnCode(p) /\ step[p]

After(p) == IF image[p] = "program" THEN Succ[rip[p]] ELSE {OwnCode}

\* One instruction is executed; with the single-step flag a trap follows.
TraceeExecutes(p) ==
    /\ run[p] = "running" /\ ~HwFault(p) /\ AtInsn(p)
    /\ \E a \in After(p) : rip' = [rip EXCEPT ![p] = a]
    /\ rf' = [rf EXCEPT ![p] = FALSE]
    /\ IF step[p]
       THEN StopWith(p, "trap", "step")
       ELSE UNCHANGED <<run, event, cause, step>>
    /\ UNCHANGED <<image, text, dr0, pc, debugger, copy, sigs>>

TraceeExits(p) ==
    /\ run[p] = "running" /\ ~HwFault(p) /\ AtInsn(p)
    /\ rip[p] \in Exits
    /\ EndWith(p, "exited")
    /\ UNCHANGED <<image, cause, rip, text, dr0, rf, step, pc, debugger, copy, sigs>>

\* INT3 traps after the instruction: rip is one byte further.
TraceeHitsInt3(p) ==
    /\ run[p] = "running" /\ ~HwFault(p)
    /\ Mapped(p, rip[p]) /\ text[p][rip[p]] = "int3"
    /\ StopWith(p, "trap", "int3")
    /\ rip' = [rip EXCEPT ![p] = @ + 1]
    /\ rf' = [rf EXCEPT ![p] = FALSE]
    /\ UNCHANGED <<image, text, dr0, pc, debugger, copy, sigs>>

\* An execution breakpoint faults before the instruction.
TraceeHitsHw(p) ==
    /\ run[p] = "running" /\ HwFault(p)
    /\ StopWith(p, "trap", "hw")
    /\ rf' = [rf EXCEPT ![p] = TRUE]
    /\ UNCHANGED <<image, rip, text, dr0, pc, debugger, copy, sigs>>

\* In the middle of an instruction, or on a byte that is not the program's:
\* a fault, or whatever those bytes mean leads anywhere.
Derailed(p) == /\ run[p] = "running" /\ ~HwFault(p) /\ ~InOwnCode(p)
               /\ Mapped(p, rip[p]) => text[p][rip[p]] = "junk"

TraceeFaults(p) ==
    /\ Derailed(p)
    /\ StopWith(p, "signal", "signal")
    /\ UNCHANGED <<image, rip, text, dr0, rf, pc, debugger, copy, sigs>>

TraceeStrays(p) ==
    /\ Derailed(p)
    /\ \E a \in IF image[p] = "program" THEN Instr ELSE {OwnCode} : rip' = [rip EXCEPT ![p] = a]
    /\ rf' = [rf EXCEPT ![p] = FALSE]
    /\ IF step[p]
       THEN StopWith(p, "trap", "step")
       ELSE UNCHANGED <<run, event, cause, step>>
    /\ UNCHANGED <<image, text, dr0, pc, debugger, copy, sigs>>

\* A signal other than SIGKILL stops a traced process, a child before exec and
\* a nested debugger included; it is never delivered.
TraceeSignalled(p) ==
    /\ run[p] = "running"
    /\ sigs < MaxSignals
    /\ sigs' = sigs + 1
    /\ StopWith(p, "signal", "signal")
    /\ UNCHANGED <<image, rip, text, dr0, rf, pc, debugger, copy>>

ProcessKilled(p) ==
    /\ Waitable(p) /\ run[p] # "dead"
    /\ sigs < MaxSignals
    /\ sigs' = sigs + 1
    /\ EndWith(p, "killed")
    /\ UNCHANGED <<image, cause, rip, text, dr0, rf, step, pc, debugger, copy>>

Terminated == pc = "exited" /\ UNCHANGED vars

-----------------------------------------------------------------------------
Command == \/ \E sym \in Syms : command_break(sym)
           \/ \E a \in WatchAddrs : command_watch(a)
           \/ command_showreg
           \/ command_continue
           \/ \E p \in Pids : command_dbug(p) \/ command_attach(p)
           \/ command_exit

Return == \/ ContinueSeesExit
          \/ ContinueSeesStop
          \/ OtherStop
          \/ HitFound
          \/ RestoreByte
          \/ SetRegs
          \/ StartStep
          \/ StepWaitReturns
          \/ RearmInt3
          \/ InsertInt3
          \/ LaunchWaitReturns
          \/ AttachWaitReturns

Launch(p) == ExecSucceeds(p) \/ ExecFails(p) \/ AttachStops(p)

Nested(p) == NestedCalls(p) \/ NestedContinues(p) \/ NestedQuits(p) \/ NestedKillsGroup(p)

Tracee(p) == \/ TraceeExecutes(p)
             \/ TraceeExits(p)
             \/ TraceeHitsInt3(p)
             \/ TraceeHitsHw(p)
             \/ TraceeFaults(p)
             \/ TraceeStrays(p)

Next == \/ Command
        \/ Return
        \/ \E p \in Pids : \/ Launch(p) \/ Nested(p) \/ Tracee(p)
                           \/ TraceeSignalled(p) \/ ProcessKilled(p)
        \/ Terminated

Spec == Init /\ [][Next]_vars

\* The debugger's own code runs on and the processes are scheduled; nothing
\* is assumed of the user, of signals or of nested debuggers.
Fairness == /\ WF_vars(Return)
            /\ \A p \in Pids : WF_vars(Launch(p)) /\ WF_vars(Tracee(p))

FairSpec == Spec /\ Fairness

\* As above, with a user who goes on typing c.
UserSpec == FairSpec /\ WF_vars(command_continue)

-----------------------------------------------------------------------------
\* The type invariant.
TypeOK ==
    /\ run \in [Pids -> RunStates]
    /\ image \in [Pids -> Images]
    /\ event \in [Pids -> Events]
    /\ cause \in [Pids -> Causes]
    /\ rip \in [Pids -> Places]
    /\ text \in [Pids -> [Addrs -> Bytes]]
    /\ dr0 \in [Pids -> WatchAddrs \cup {NoAddr}]
    /\ rf \in [Pids -> BOOLEAN]
    /\ step \in [Pids -> BOOLEAN]
    /\ pc \in {"prompt", "inserting", "contwait", "gotstop", "hit", "restored",
               "rewound", "stepwait", "stepped", "launchwait", "attachwait", "exited"}
    /\ pid \in Pids \cup {NoPid}
    /\ child \in Pids \cup {NoPid}
    /\ pc \in {"launchwait", "attachwait"} => child \in Pids
    /\ status \in Events \ {"none"}
    /\ regs \in Places
    /\ funs \in {"none", "image", "self"}
    /\ bps \in Seq(Breakpoints)
    /\ idx \in Nat
    /\ copy \in [Pids -> [pid : Pids \cup {NoPid}, status : Events \ {"none"}]]
    /\ sigs \in Nat
=============================================================================
