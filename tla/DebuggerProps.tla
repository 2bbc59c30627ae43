-------------------------- MODULE DebuggerProps --------------------------
(***************************************************************************)
(* What the debugger promises: safety, refinement and liveness properties  *)
(* of module Debugger, and the inductive invariants from which their       *)
(* theorems follow (module Debugger_proof).                                *)
(***************************************************************************)
EXTENDS Debugger

-----------------------------------------------------------------------------
(* Properties of every session, whatever the processes do.                 *)

\* Addresses with a software breakpoint in the table.
SoftAddrs(t) == {a \in Addrs : \E i \in DOMAIN t : SoftAt(t, i, a)}

\* Every INT3 byte in any process, of this or an earlier launch, belongs to a
\* breakpoint of the table: find_current_SF_bp can explain its trap.
Int3Known == \A p \in Pids : \A a \in Addrs :
                text[p][a] = "int3" => a \in SoftAddrs(bps)

\* b twice on a symbol saves an INT3 as the second original byte, but the
\* entry the search returns never holds one: resume_INT3_bp_next never puts
\* back a breakpoint when it means to put back code.
OriginalsAreCode == \A i \in DOMAIN bps :
                       FirstSoftAt(bps, i, bps[i].addr) => bps[i].orig # "int3"

\* Whatever other processes report, a stop of the process c continued or
\* resume_INT3_bp_next single-stepped is still there to be waited for: its own
\* trap ends the wait.
WaitHasAnAnswer == pc \in {"contwait", "stepwait"} /\ Traced(pid)
                      => event[pid] # "none"

-----------------------------------------------------------------------------
(* Properties of a session with one process.                               *)

\* At the prompt the image of the stopped process is the program with INT3 at
\* the breakpoints that are listed and nowhere else, however many hits,
\* signals, interrupted single steps and duplicate b commands came before.
BreakpointsArmed ==
    pc = "prompt" /\ Traced(pid) =>
        \A a \in Addrs : Mapped(pid, a) =>
            text[pid][a] = IF a \in SoftAddrs(bps) THEN "int3" ELSE "insn"

\* A live process never has a byte its image did not have, but INT3.
CodeIntact == \A p \in Pids : Alive(p) => \A a \in Addrs : text[p][a] # "junk"

\* Where a process can be that has not been led astray.
Course(p) == IF image[p] = "program" THEN Instr ELSE {WildAddr, OwnCode}

\* At the prompt the process stands at the start of an instruction it has not
\* executed: a hit has been rewound before the user sees it.
StopsAtInstructionStart ==
    pc = "prompt" /\ Traced(pid) => rip[pid] \in Course(pid) /\ cause[pid] # "int3"

\* A program is there from exec on.  While a trap of INT3 has not been rewound
\* it is still one byte back.
life == [p \in Pids |-> CASE run[p] \in {"dead", "reaped"}          -> "ended"
                          [] Alive(p) /\ image[p] = "program"       -> "alive"
                          [] OTHER                                 -> "absent"]
at == [p \in Pids |-> IF image[p] # "program" THEN Entry
                      ELSE IF cause[p] = "int3" THEN rip[p] - 1 ELSE rip[p]]

P == INSTANCE Program WITH life <- life, at <- at

\* No command, hit or single step of the debugger skips, repeats or invents an
\* instruction: without the debugger the processes could do the same.
Transparent == P!Spec

\* A command that has something to wait for returns to the prompt or ends the
\* debugger; only a running process can keep it waiting.
CommandReturns ==
    (\/ pc \notin {"prompt", "contwait", "launchwait", "attachwait", "exited"}
     \/ pc = "contwait" /\ \A p \in Pids : run[p] # "running")
        ~> pc \in {"prompt", "exited"}

\* A software breakpoint is hit and the process gets past it: the instruction
\* under the breakpoint is executed, provided the user goes on typing c.
HitMakesProgress ==
    \A p \in Pids : (run[p] = "stopped" /\ cause[p] = "int3")
                        ~> (cause[p] = "step" \/ ~Alive(p))

\* "trigger breakpoint" is only said of, and the resumption only done for, a
\* process that INT3 has stopped.
SoftwareTrapIsReal ==
    [][pc = "gotstop" /\ pc' = "hit" /\ Traced(pid) => cause[pid] = "int3"]_vars

\* After its single step resume_INT3_bp_next has put the breakpoint back.
ResumeRestores ==
    [][pc = "stepped" /\ pc' = "prompt" /\ Alive(pid) /\ Mapped(pid, bps[idx].addr)
         => text'[pid][bps[idx].addr] = "int3"]_vars

-----------------------------------------------------------------------------
(* Inductive invariants.                                                   *)

\* From the search to the end of resume_INT3_bp_next, and in insert_INT3_bp,
\* bp is an entry of the table; for the first the one the search returns.
BetweenRequests == {"inserting", "hit", "restored", "rewound", "stepwait", "stepped"}

StepsOverEntry ==
    pc \in BetweenRequests =>
        /\ idx \in DOMAIN bps /\ bps[idx].type = "SF"
        /\ pc # "inserting" => FirstSoftAt(bps, idx, bps[idx].addr)

\* Inductive for any number of processes.
TableInv == /\ TypeOK
            /\ Int3Known
            /\ OriginalsAreCode
            /\ StepsOverEntry

\* The byte resume_INT3_bp_next has put back for its single step.
Lifted(a) == /\ pc \in {"restored", "rewound", "stepwait", "stepped"}
             /\ bps[idx].addr = a

\* a has an entry whose INT3 has been written and is not lifted.
Planted(a) == /\ \E i \in DOMAIN bps : SoftAt(bps, i, a) /\ (pc = "inserting" => i # idx)
              /\ ~Lifted(a)

\* Only a stopped or dead process has something to report.
EventInv == \A p \in Pids : event[p] # "none" =>
               run[p] = "dead" \/ (run[p] = "stopped" /\ event[p] \in {"trap", "signal"})

Waiting == pc \in {"launchwait", "attachwait"}

\* A process is current from the return of the first wait for it on.  The table
\* holds addresses of the image that was there then.
CurrentInv ==
    /\ \A p \in Pids :
         /\ run[p] \in {"none", "attaching"} \/ (run[p] = "free" /\ pc # "exited")
               => pid = NoPid
         /\ run[p] = "attaching" => Waiting
         /\ run[p] = "none" => image[p] = "fork"
         /\ run[p] = "attaching" \/ (run[p] = "free" /\ pc # "exited")
               => image[p] = "program"
         /\ Alive(p) => \/ pid = p /\ ~Waiting /\ pc # "exited"
                        \/ /\ pid = NoPid /\ Waiting
                           /\ run[p] = "stopped" => /\ event[p] # "none"
                                                    /\ cause[p] \in {"exec", "signal"}
                           /\ image[p] = "program" => run[p] = "stopped"
         /\ funs = "image" => image[p] = "program"
         /\ Alive(p) /\ pid = p /\ image[p] # "program" => funs = "self"
    /\ Waiting => pid = NoPid
    /\ pid = NoPid => /\ funs = "none"
                      /\ \A p \in Pids : \A a \in Addrs : text[p][a] = "insn"
    /\ \A i \in DOMAIN bps : bps[i].type = "SF" =>
         bps[i].addr \in CASE funs = "none"  -> {}
                           [] funs = "image" -> Syms
                           [] funs = "self"  -> {WildAddr}

\* The image of a live process: INT3 at the breakpoints but the one lifted or
\* not written yet.
ImageInv ==
    \A p \in Pids : Alive(p) =>
        /\ \A a \in Addrs : text[p][a] = IF Mapped(p, a) /\ Planted(a) THEN "int3" ELSE "insn"
        /\ \A i \in DOMAIN bps :
              FirstSoftAt(bps, i, bps[i].addr) /\ Mapped(p, bps[i].addr)
                 => bps[i].orig = "insn"

\* Where a live process stands, and what its stop will be taken for.
PlaceInv ==
    \A p \in Pids :
        /\ Alive(p) =>
             IF cause[p] = "int3"
             THEN /\ run[p] = "stopped"
                  /\ Mapped(p, rip[p] - 1) /\ rip[p] - 1 \in SoftAddrs(bps)
                  /\ \/ pc = "contwait" /\ event[p] = "trap"
                     \/ pc = "gotstop" /\ status = "trap"
                     \/ pc \in {"hit", "restored"} /\ rip[p] - 1 = bps[idx].addr
             ELSE rip[p] \in Course(p)
        /\ run[p] = "running" =>
             /\ pc \in {"contwait", "stepwait"} \/ Waiting
             /\ step[p] <=> pc = "stepwait"
             /\ image[p] = "fork" => rip[p] = OwnCode
             /\ pc = "stepwait" => rip[p] = bps[idx].addr /\ Mapped(p, rip[p])
        /\ run[p] = "stopped" =>
             /\ pc = "contwait" /\ event[p] = "trap" => cause[p] \in {"int3", "hw", "exec"}
             /\ pc = "gotstop" /\ status = "trap" => cause[p] \in {"int3", "hw", "exec"}
             /\ pc \in {"hit", "restored"} => cause[p] = "int3"
             /\ pc \in {"restored", "rewound"} => regs = bps[idx].addr
             /\ pc = "rewound" => rip[p] = regs /\ Mapped(p, regs)
             /\ cause[p] = "hw" => rip[p] \in WatchAddrs
             /\ cause[p] = "exec" => image[p] = "program"
             /\ cause[p] = "exec" /\ pc \in {"contwait", "gotstop"} => funs = "self"
             /\ image[p] = "fork" => rip[p] = OwnCode

OneProcess == \E p \in Pids : \A q \in Pids : q = p
NoWatchBehindSymbol == \A sym \in Syms : sym + 1 \notin WatchAddrs

\* Inductive under OneProcess and NoWatchBehindSymbol.
SessionInv == /\ TableInv
              /\ EventInv
              /\ CurrentInv
              /\ ImageInv
              /\ PlaceInv
=============================================================================
