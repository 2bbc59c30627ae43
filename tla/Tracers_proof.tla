--------------------------- MODULE Tracers_proof ---------------------------
(***************************************************************************)
(* The tracing programs leave the process as it is alone, show every visit *)
(* to the breakpoint and tell entries of system calls from exits: for any  *)
(* process, any set of system calls and any number of signals.             *)
(***************************************************************************)
EXTENDS Tracers, TLAPS

\* No signal has misled the program.
Clean == sigs = 0 \/ Uses[prog] # "int3"

\* Where a program is in its waits, and what it has set in the process by then.
Phases ==
    /\ sigs \in Nat
    /\ pc \in {"start", "loop", "step", "done"}
    /\ run \in {"free", "new", "running", "stopped", "exited", "killed", "reaped"}
    /\ run \in {"free", "new"} => pc \in {"start", "done"} /\ why = "none"
    /\ run = "new" => pc = "start"
    /\ run = "running" => pc \in {"loop", "step"} /\ why = "none"
    /\ run = "stopped" => pc # "done"
    /\ pc = "loop" => Uses[prog] \in {"int3", "hw", "calls"}
    /\ pc = "step" => Uses[prog] = "int3"
    /\ bar # "insn" => Uses[prog] = "int3" /\ pc # "start"
    /\ dr0 \in BOOLEAN /\ rf \in BOOLEAN /\ seen \in BOOLEAN /\ stepping \in BOOLEAN
    /\ incall \in BOOLEAN /\ iscalling \in BOOLEAN
    /\ dr0 => Uses[prog] = "hw"
    /\ incall => Uses[prog] = "calls"
    /\ stepping => Uses[prog] = "int3"

\* The process is at one of its instructions, or has just run into INT3 at Bar.
Place == IF why = "int3" THEN ip = Bar + 1 /\ Uses[prog] = "int3" ELSE ip \in Instr

\* INT3 is there exactly while the process runs freely, so that in the loop
\* nothing but INT3 stops it and in the single step nothing can be INT3.
Breaks ==
    Uses[prog] = "int3" =>
        /\ pc = "start" => why # "int3"
        /\ pc = "loop" /\ run = "running" => bar = "int3" /\ ~stepping
        /\ pc = "loop" /\ run = "stopped" => why = "int3"
        /\ pc = "step" => bar = "insn" /\ why # "int3"
        /\ pc = "step" /\ run = "running" => seen /\ stepping

\* The resume flag lets the process pass Bar once, after the stop there is shown.
Watches ==
    Uses[prog] = "hw" =>
        /\ pc = "loop" => dr0
        /\ rf => ip = Bar /\ pc # "start"
        /\ rf /\ run = "running" => seen

\* The tracer and the process agree on where in a call the process is.
Agrees ==
    /\ incall => orig_rax = IF call \in Writes THEN "write" ELSE "other"
    /\ run = "running" => iscalling = (incall /\ call \in Writes)
    /\ pc = "start" => ~incall /\ ~iscalling
    /\ pc = "loop" /\ run = "stopped" =>
          /\ why \in {"enter", "exit"}
          /\ orig_rax = IF call \in Writes THEN "write" ELSE "other"
          /\ incall = (why = "enter")
          /\ iscalling = (why = "exit" /\ call \in Writes)

\* The registers read last are those at the entry of the call: what a kill makes
\* of them is about the same call.
Reports ==
    /\ pc # "done" /\ iscalling => arg = call /\ regs.call = call
    /\ line.at # "none" =>
          /\ line.arg = line.call
          /\ line.at = "exit" \/ (pc = "done" /\ line.call = call)

IInv == /\ Phases
        /\ Clean => Place /\ Breaks /\ Watches
        /\ sigs = 0 /\ Uses[prog] = "calls" => Agrees /\ Reports

-----------------------------------------------------------------------------
\* The actions of the tracing programs, whichever program takes them.
Answers == (pc # "done" /\ PTRACE_ATTACH) \/ Plant \/ Hit \/ Replant \/ SetRegister \/ ShowStop
           \/ StartTracing \/ ShowCall \/ Leave

LEMMA TracerAnswers == Tracer => Answers
BY DEF Tracer, Answers, softbreak, dbug_break, hardbreak, dbug, getsyscall, attach

LEMMA InitIInv == Init => IInv
<1> SUFFICES ASSUME Init PROVE IInv
  OBVIOUS
<1>1. Phases
  BY DEF Init, Phases
<1>2. ip \in Instr
  BY TracerAssumption DEF Init
<1>3. Place /\ Breaks /\ Watches
  BY <1>2 DEF Init, Place, Breaks, Watches
<1>4. Agrees
  BY DEF Init, Agrees
<1>5. Reports
  BY DEF Init, Reports
<1> QED
  BY <1>1, <1>3, <1>4, <1>5 DEF IInv

LEMMA PhasesStep == IInv /\ [Next]_vars => Phases'
<1> SUFFICES ASSUME IInv, [Next]_vars PROVE Phases'
  OBVIOUS
<1> USE TracerAssumption DEF IInv, Phases, code, calls
<1>1. ASSUME FirstStop PROVE Phases'
  BY <1>1 DEF FirstStop, StopFor
<1>2. ASSUME NeverStarts PROVE Phases'
  BY <1>2 DEF NeverStarts
<1>3. ASSUME Trap PROVE Phases'
  BY <1>3 DEF Trap, StopFor, AtBreakpoint
<1>4. ASSUME Insn PROVE Phases'
  BY <1>4 DEF Insn, StopFor, AtBreakpoint, StopsAtCalls
<1>5. ASSUME EnterCall PROVE Phases'
  BY <1>5 DEF EnterCall, StopFor, StopsAtCalls
<1>6. ASSUME LeaveCall PROVE Phases'
  BY <1>6 DEF LeaveCall, StopFor
<1>7. ASSUME Derailed PROVE Phases'
  <2>1. CASE StopFor("signal")
    BY <1>7, <2>1 DEF Derailed, StopFor
  <2>2. CASE UNCHANGED <<run, why, stepping>>
    BY <1>7, <2>2 DEF Derailed
  <2> QED
    BY <1>7, <2>1, <2>2 DEF Derailed
<1>8. ASSUME Signal PROVE Phases'
  <2>1. sigs' \in Nat
    BY <1>8 DEF Signal
  <2>2. run' = "stopped" /\ run = "running" /\ stepping' = FALSE
    BY <1>8 DEF Signal, StopFor
  <2>3. UNCHANGED <<prog, pc, ip, bar, dr0, rf, seen, incall, iscalling>>
    BY <1>8 DEF Signal
  <2> QED
    BY <2>1, <2>2, <2>3
<1>9. ASSUME Exit PROVE Phases'
  BY <1>9 DEF Exit
<1>10. ASSUME Kill PROVE Phases'
  BY <1>10 DEF Kill, Alive
<1>11. ASSUME pc # "done", PTRACE_ATTACH PROVE Phases'
  BY <1>11 DEF PTRACE_ATTACH
<1>12. ASSUME Plant PROVE Phases'
  BY <1>12 DEF Plant, Waits, Resume
<1>13. ASSUME Hit PROVE Phases'
  BY <1>13 DEF Hit, Waits, Resume
<1>14. ASSUME Replant PROVE Phases'
  BY <1>14 DEF Replant, Waits, Resume
<1>15. ASSUME SetRegister PROVE Phases'
  BY <1>15 DEF SetRegister, Waits, Resume
<1>16. ASSUME ShowStop PROVE Phases'
  BY <1>16 DEF ShowStop, Waits, Resume
<1>17. ASSUME StartTracing PROVE Phases'
  BY <1>17 DEF StartTracing, Waits, Resume
<1>18. ASSUME ShowCall PROVE Phases'
  <2>1. iscalling' \in BOOLEAN
    BY <1>18 DEF ShowCall, CountStop
  <2>2. CASE Resume(FALSE) /\ UNCHANGED pc
    BY <1>18, <2>1, <2>2 DEF ShowCall, Waits, Resume
  <2>3. CASE run' = "reaped" /\ pc' = "done" /\ UNCHANGED <<why, stepping>>
    BY <1>18, <2>1, <2>3 DEF ShowCall, Waits
  <2> QED
    BY <1>18, <2>2, <2>3 DEF ShowCall
<1>19. ASSUME Leave PROVE Phases'
  <2>1. iscalling' \in BOOLEAN
    BY <1>19 DEF Leave, CountStop
  <2> QED
    BY <1>19, <2>1 DEF Leave, Ended
<1>20. ASSUME UNCHANGED vars PROVE Phases'
  BY <1>20 DEF vars
<1> QED
  BY TracerAnswers, <1>1, <1>2, <1>3, <1>4, <1>5, <1>6, <1>7, <1>8, <1>9, <1>10, <1>11, <1>12, <1>13, <1>14, <1>15, <1>16, <1>17, <1>18, <1>19, <1>20 DEF Next, Process, Answers

LEMMA PlaceStep == IInv /\ [Next]_vars => (Clean => Place /\ Breaks /\ Watches)'
<1> SUFFICES ASSUME IInv, [Next]_vars PROVE (Clean => Place /\ Breaks /\ Watches)'
  OBVIOUS
<1> USE TracerAssumption DEF IInv, Phases, Clean, Place, Breaks, Watches, code, calls
<1>1. ASSUME FirstStop PROVE (Clean => Place /\ Breaks /\ Watches)'
  BY <1>1 DEF FirstStop, StopFor
<1>2. ASSUME NeverStarts PROVE (Clean => Place /\ Breaks /\ Watches)'
  BY <1>2 DEF NeverStarts
<1>3. ASSUME Trap PROVE (Clean => Place /\ Breaks /\ Watches)'
  BY <1>3 DEF Trap, StopFor, AtBreakpoint
<1>4. ASSUME Insn PROVE (Clean => Place /\ Breaks /\ Watches)'
  <2> SUFFICES ASSUME Clean' PROVE (Place /\ Breaks /\ Watches)'
    OBVIOUS
  <2>1. Clean /\ UNCHANGED <<prog, pc, bar, dr0>>
    BY <1>4 DEF Insn
  <2>2. /\ run = "running" /\ why = "none" /\ ip \in Instr /\ ip' \in Instr /\ rf' = FALSE
        /\ seen' = (seen /\ ip # Bar)
    BY <1>4, <2>1 DEF Insn
  <2>3. CASE stepping
    <3>1. run' = "stopped" /\ why' = "step" /\ stepping' = FALSE
      BY <1>4, <2>3 DEF Insn, StopFor
    <3> QED
      BY <2>1, <2>2, <2>3, <3>1
  <2>4. CASE ~stepping
    <3>1. UNCHANGED <<run, why, stepping>>
      BY <1>4, <2>4 DEF Insn
    <3> QED
      BY <2>1, <2>2, <2>4, <3>1
  <2> QED
    BY <2>3, <2>4
<1>5. ASSUME EnterCall PROVE (Clean => Place /\ Breaks /\ Watches)'
  BY <1>5 DEF EnterCall, StopFor, StopsAtCalls
<1>6. ASSUME LeaveCall PROVE (Clean => Place /\ Breaks /\ Watches)'
  BY <1>6 DEF LeaveCall, StopFor
<1>7. ASSUME Derailed PROVE (Clean => Place /\ Breaks /\ Watches)'
  BY <1>7 DEF Derailed, StopFor
<1>8. ASSUME Signal PROVE (Clean => Place /\ Breaks /\ Watches)'
  BY <1>8 DEF Signal, StopFor
<1>9. ASSUME Exit PROVE (Clean => Place /\ Breaks /\ Watches)'
  BY <1>9 DEF Exit
<1>10. ASSUME Kill PROVE (Clean => Place /\ Breaks /\ Watches)'
  BY <1>10 DEF Kill, Alive
<1>11. ASSUME pc # "done", PTRACE_ATTACH PROVE (Clean => Place /\ Breaks /\ Watches)'
  BY <1>11 DEF PTRACE_ATTACH
<1>12. ASSUME Plant PROVE (Clean => Place /\ Breaks /\ Watches)'
  BY <1>12 DEF Plant, Waits, Resume
<1>13. ASSUME Hit PROVE (Clean => Place /\ Breaks /\ Watches)'
  <2> SUFFICES ASSUME Clean' PROVE (Place /\ Breaks /\ Watches)'
    OBVIOUS
  <2>1. Clean /\ Uses[prog] = "int3" /\ why = "int3" /\ UNCHANGED prog
    BY <1>13 DEF Hit, Waits
  <2>2. ip' = Bar
    BY <1>13, <2>1 DEF Hit
  <2>3. /\ bar' = "insn" /\ seen' = TRUE /\ pc' = "step"
        /\ run' = "running" /\ why' = "none" /\ stepping' = TRUE
    BY <1>13, <2>1 DEF Hit, Resume
  <2> QED
    BY <2>1, <2>2, <2>3
<1>14. ASSUME Replant PROVE (Clean => Place /\ Breaks /\ Watches)'
  BY <1>14 DEF Replant, Waits, Resume
<1>15. ASSUME SetRegister PROVE (Clean => Place /\ Breaks /\ Watches)'
  BY <1>15 DEF SetRegister, Waits, Resume
<1>16. ASSUME ShowStop PROVE (Clean => Place /\ Breaks /\ Watches)'
  <2> SUFFICES ASSUME Clean' PROVE (Place /\ Breaks /\ Watches)'
    OBVIOUS
  <2>1. Clean /\ Uses[prog] = "hw" /\ run = "stopped" /\ pc = "loop"
    BY <1>16 DEF ShowStop, Waits
  <2>2. /\ UNCHANGED <<prog, pc, ip, bar, dr0, rf>>
        /\ run' = "running" /\ why' = "none" /\ seen' = (ip = Bar)
    BY <1>16 DEF ShowStop, Resume
  <2>3. ip \in Instr /\ dr0
    BY <2>1
  <2> QED
    BY <2>1, <2>2, <2>3
<1>17. ASSUME StartTracing PROVE (Clean => Place /\ Breaks /\ Watches)'
  BY <1>17 DEF StartTracing, Waits, Resume
<1>18. ASSUME ShowCall PROVE (Clean => Place /\ Breaks /\ Watches)'
  BY <1>18 DEF ShowCall, Waits, Resume
<1>19. ASSUME Leave PROVE (Clean => Place /\ Breaks /\ Watches)'
  BY <1>19 DEF Leave
<1>20. ASSUME UNCHANGED vars PROVE (Clean => Place /\ Breaks /\ Watches)'
  BY <1>20 DEF vars
<1> QED
  BY TracerAnswers, <1>1, <1>2, <1>3, <1>4, <1>5, <1>6, <1>7, <1>8, <1>9, <1>10, <1>11, <1>12, <1>13, <1>14, <1>15, <1>16, <1>17, <1>18, <1>19, <1>20 DEF Next, Process, Answers

LEMMA PairsStep == IInv /\ [Next]_vars => (sigs = 0 /\ Uses[prog] = "calls" => Agrees /\ Reports)'
<1> SUFFICES ASSUME IInv, [Next]_vars PROVE (sigs = 0 /\ Uses[prog] = "calls" => Agrees /\ Reports)'
  OBVIOUS
<1> USE TracerAssumption DEF IInv, Phases, Clean, Place, Agrees, Reports, code, calls
<1>1. ASSUME FirstStop PROVE (sigs = 0 /\ Uses[prog] = "calls" => Agrees /\ Reports)'
  BY <1>1 DEF FirstStop, StopFor
<1>2. ASSUME NeverStarts PROVE (sigs = 0 /\ Uses[prog] = "calls" => Agrees /\ Reports)'
  BY <1>2 DEF NeverStarts
<1>3. ASSUME Trap PROVE (sigs = 0 /\ Uses[prog] = "calls" => Agrees /\ Reports)'
  BY <1>3 DEF Trap, StopFor, AtBreakpoint
<1>4. ASSUME Insn PROVE (sigs = 0 /\ Uses[prog] = "calls" => Agrees /\ Reports)'
  BY <1>4 DEF Insn, StopFor, AtBreakpoint, StopsAtCalls
<1>5. ASSUME EnterCall PROVE (sigs = 0 /\ Uses[prog] = "calls" => Agrees /\ Reports)'
  BY <1>5 DEF EnterCall, StopFor, StopsAtCalls
<1>6. ASSUME LeaveCall PROVE (sigs = 0 /\ Uses[prog] = "calls" => Agrees /\ Reports)'
  BY <1>6 DEF LeaveCall, StopFor
<1>7. ASSUME Derailed PROVE (sigs = 0 /\ Uses[prog] = "calls" => Agrees /\ Reports)'
  BY <1>7 DEF Derailed, StopFor
<1>8. ASSUME Signal PROVE (sigs = 0 /\ Uses[prog] = "calls" => Agrees /\ Reports)'
  BY <1>8 DEF Signal, StopFor
<1>9. ASSUME Exit PROVE (sigs = 0 /\ Uses[prog] = "calls" => Agrees /\ Reports)'
  BY <1>9 DEF Exit
<1>10. ASSUME Kill PROVE (sigs = 0 /\ Uses[prog] = "calls" => Agrees /\ Reports)'
  BY <1>10 DEF Kill, Alive
<1>11. ASSUME pc # "done", PTRACE_ATTACH PROVE (sigs = 0 /\ Uses[prog] = "calls" => Agrees /\ Reports)'
  BY <1>11 DEF PTRACE_ATTACH
<1>12. ASSUME Plant PROVE (sigs = 0 /\ Uses[prog] = "calls" => Agrees /\ Reports)'
  BY <1>12 DEF Plant, Waits, Resume
<1>13. ASSUME Hit PROVE (sigs = 0 /\ Uses[prog] = "calls" => Agrees /\ Reports)'
  BY <1>13 DEF Hit, Waits, Resume
<1>14. ASSUME Replant PROVE (sigs = 0 /\ Uses[prog] = "calls" => Agrees /\ Reports)'
  BY <1>14 DEF Replant, Waits, Resume
<1>15. ASSUME SetRegister PROVE (sigs = 0 /\ Uses[prog] = "calls" => Agrees /\ Reports)'
  BY <1>15 DEF SetRegister, Waits, Resume
<1>16. ASSUME ShowStop PROVE (sigs = 0 /\ Uses[prog] = "calls" => Agrees /\ Reports)'
  BY <1>16 DEF ShowStop, Waits, Resume
<1>17. ASSUME StartTracing PROVE (sigs = 0 /\ Uses[prog] = "calls" => Agrees /\ Reports)'
  BY <1>17 DEF StartTracing, Waits, Resume
<1>18. ASSUME ShowCall PROVE (sigs = 0 /\ Uses[prog] = "calls" => Agrees /\ Reports)'
  <2> SUFFICES ASSUME sigs' = 0, Uses[prog'] = "calls" PROVE (Agrees /\ Reports)'
    OBVIOUS
  <2>1. /\ sigs = 0 /\ Uses[prog] = "calls" /\ pc = "loop" /\ run = "stopped"
        /\ UNCHANGED <<call, incall, orig_rax>>
        /\ \/ run' = "running" /\ pc' = "loop"
           \/ run' = "reaped" /\ pc' = "done"
        /\ regs'.call = call
    BY <1>18 DEF ShowCall, Waits, Resume, Registers
  <2>2. CASE call \notin Writes
    <3>1. orig_rax # "write" /\ ~iscalling
      BY <2>1, <2>2
    <3>2. UNCHANGED <<iscalling, arg, line>>
      BY <1>18, <3>1 DEF ShowCall, CountStop, Registers
    <3> QED
      BY <2>1, <2>2, <3>1, <3>2
  <2>3. CASE call \in Writes /\ why = "enter"
    <3>1. orig_rax = "write" /\ ~iscalling /\ incall
      BY <2>1, <2>3
    <3>2. iscalling' = TRUE /\ arg' = call /\ UNCHANGED line
      BY <1>18, <3>1 DEF ShowCall, CountStop, Registers
    <3> QED
      BY <2>1, <2>3, <3>1, <3>2
  <2>4. CASE call \in Writes /\ why = "exit"
    <3>1. orig_rax = "write" /\ iscalling /\ ~incall /\ arg = call
      BY <2>1, <2>4
    <3>2. iscalling' = FALSE /\ line' = [arg |-> arg, call |-> call, at |-> why]
      BY <1>18, <3>1 DEF ShowCall, CountStop, Registers
    <3>3. line'.at = "exit" /\ line'.arg = line'.call
      BY <2>4, <3>1, <3>2
    <3> QED
      BY <2>1, <2>4, <3>1, <3>2, <3>3
  <2> QED
    BY <2>1, <2>2, <2>3, <2>4
<1>19. ASSUME Leave PROVE (sigs = 0 /\ Uses[prog] = "calls" => Agrees /\ Reports)'
  <2> SUFFICES ASSUME sigs' = 0, Uses[prog'] = "calls" PROVE (Agrees /\ Reports)'
    OBVIOUS
  <2>1. /\ Agrees /\ Reports /\ pc # "done" /\ run' = "reaped" /\ pc' = "done"
        /\ UNCHANGED <<call, incall, orig_rax>>
    BY <1>19 DEF Leave
  <2>2. Agrees'
    BY <2>1
  <2>3. \/ UNCHANGED line
        \/ iscalling /\ line' = [arg |-> arg, call |-> regs.call, at |-> regs.at]
    BY <1>19 DEF Leave, CountStop
  <2>4. CASE UNCHANGED line
    BY <2>1, <2>2, <2>4
  <2>5. CASE iscalling /\ line' = [arg |-> arg, call |-> regs.call, at |-> regs.at]
    <3>1. line'.arg = call /\ line'.call = call
      BY <2>1, <2>5
    <3> QED
      BY <2>1, <2>2, <3>1
  <2> QED
    BY <2>3, <2>4, <2>5
<1>20. ASSUME UNCHANGED vars PROVE (sigs = 0 /\ Uses[prog] = "calls" => Agrees /\ Reports)'
  BY <1>20 DEF vars
<1> QED
  BY TracerAnswers, <1>1, <1>2, <1>3, <1>4, <1>5, <1>6, <1>7, <1>8, <1>9, <1>10, <1>11, <1>12, <1>13, <1>14, <1>15, <1>16, <1>17, <1>18, <1>19, <1>20 DEF Next, Process, Answers

\* What every theorem below rests on.
LEMMA Inductive == Spec => []IInv
<1>1. IInv /\ [Next]_vars => IInv'
  BY PhasesStep, PlaceStep, PairsStep DEF IInv
<1> QED
  BY InitIInv, <1>1, PTL DEF Spec

-----------------------------------------------------------------------------
\* CallsArePaired of module Tracers: for any process that no signal stops, dbug
\* and getsyscall miss no write(2) and report its result with its own arguments,
\* the last line apart if the process is killed.
THEOREM PairedTheorem == Spec => []CallsArePaired
<1>1. IInv => CallsArePaired
  BY DEF IInv, Phases, Agrees, Reports, CallsArePaired
<1> QED
  BY Inductive, <1>1, PTL

\* VisitsAreShown of module Tracers: the process passes Bar only in a step that
\* a stop there, and its report, came before.
THEOREM VisitsTheorem == Spec => VisitsAreShown
<1>1. IInv /\ Insn /\ ip = Bar /\ Uses[prog] # "calls" /\ Trusted => seen
  <2> SUFFICES ASSUME IInv, Insn, ip = Bar, Uses[prog] # "calls", Trusted PROVE seen
    OBVIOUS
  <2>1. Clean /\ run = "running" /\ ~AtBreakpoint
    BY DEF Insn, Trusted, Clean
  <2>2. bar # "int3" /\ (dr0 => rf)
    BY <2>1 DEF AtBreakpoint
  <2>3. \/ pc = "loop" /\ Uses[prog] \in {"int3", "hw"}
        \/ pc = "step" /\ Uses[prog] = "int3"
    BY <2>1 DEF IInv, Phases
  <2> QED
    BY <2>1, <2>2, <2>3 DEF IInv, Breaks, Watches
<1> QED
  BY Inductive, <1>1, PTL DEF VisitsAreShown

-----------------------------------------------------------------------------
\* The process as module Program sees it, one process at a time.
Life == CASE Alive                   -> "alive"
          [] Ended \/ run = "reaped" -> "ended"
          [] OTHER                   -> "absent"
At == IF why = "int3" THEN ip - 1 ELSE ip

LEMMA LifeAt == life = [p \in {"process"} |-> Life] /\ at = [p \in {"process"} |-> At]
BY DEF life, at, Life, At

LEMMA Lives ==
    /\ run \in {"running", "stopped"} => Life = "alive"
    /\ run \in {"exited", "killed", "reaped"} => Life = "ended"
    /\ run \in {"free", "new"} => Life = "absent"
BY DEF Life, Alive, Ended

LEMMA AtInstr == IInv /\ Clean => At \in Instr
BY TracerAssumption DEF IInv, Place, At

\* Steps the process takes none in.
LEMMA Unseen ==
    ASSUME Life' = Life, At' = At PROVE UNCHANGED <<life, at>>
<1>1. life' = [p \in {"process"} |-> Life'] /\ at' = [p \in {"process"} |-> At']
  BY DEF life, at, Life, At
<1> QED
  BY <1>1, LifeAt

\* The ways it can take one.
LEMMA Shown ==
    ASSUME \/ Life = "absent" /\ Life' = "alive" /\ At' \in Instr
           \/ Life = "absent" /\ Life' = "ended" /\ At' = At
           \/ Life = "alive" /\ Life' = "alive" /\ At' \in Succ[At]
           \/ Life = "alive" /\ Life' = "ended" /\ At' = At
    PROVE  P!Next
<1>1. life' = [p \in {"process"} |-> Life'] /\ at' = [p \in {"process"} |-> At']
  BY DEF life, at, Life, At
<1>2. life["process"] = Life /\ at["process"] = At
  BY LifeAt
<1>3. /\ life' = [life EXCEPT !["process"] = Life']
      /\ at' = [at EXCEPT !["process"] = At']
  BY <1>1, LifeAt
<1>4. At' = At => UNCHANGED at
  BY <1>1, LifeAt
<1>5. Life' = Life => UNCHANGED life
  BY <1>1, LifeAt
<1>6. CASE Life = "absent" /\ Life' = "alive" /\ At' \in Instr
  <2>1. P!Appear("process")
    BY <1>2, <1>3, <1>6 DEF P!Appear
  <2> QED
    BY <2>1 DEF P!Next
<1>7. CASE Life = "absent" /\ Life' = "ended" /\ At' = At
  <2>1. P!FailToStart("process")
    BY <1>2, <1>3, <1>4, <1>7 DEF P!FailToStart
  <2> QED
    BY <2>1 DEF P!Next
<1>8. CASE Life = "alive" /\ Life' = "alive" /\ At' \in Succ[At]
  <2>1. P!Step("process")
    BY <1>2, <1>3, <1>5, <1>8 DEF P!Step
  <2> QED
    BY <2>1 DEF P!Next
<1>9. CASE Life = "alive" /\ Life' = "ended" /\ At' = At
  <2>1. P!Kill("process")
    BY <1>2, <1>3, <1>4, <1>9 DEF P!Kill
  <2> QED
    BY <2>1 DEF P!Next
<1> QED
  BY <1>6, <1>7, <1>8, <1>9

LEMMA StepShown ==
    ASSUME IInv, [Next]_vars, Trusted PROVE [P!Next]_<<life, at>>
<1>1. Clean
  <2>1. Process => sigs' = sigs \/ sigs' = sigs + 1
    BY DEF Process, FirstStop, NeverStarts, Trap, Insn, EnterCall, LeaveCall, Derailed, Signal,
       Exit, Kill
  <2>2. Answers => sigs' = sigs
    BY DEF Answers, PTRACE_ATTACH, Plant, Hit, Replant, SetRegister, ShowStop, StartTracing,
       ShowCall, Leave
  <2>3. sigs' = sigs \/ sigs' = sigs + 1
    BY <2>1, <2>2, TracerAnswers DEF Next, vars
  <2>4. sigs \in Nat /\ (sigs' = 0 => sigs = 0)
    BY <2>3 DEF IInv, Phases
  <2> QED
    BY <2>4 DEF Trusted, Clean
<1>2. At \in Instr
  BY <1>1, AtInstr
<1>3. (run = "running" => why = "none") /\ (run \in {"free", "new"} => why = "none")
  BY DEF IInv, Phases
<1>4. Life' = CASE run' \in {"running", "stopped"} -> "alive"
                [] run' \in {"exited", "killed", "reaped"} -> "ended"
                [] OTHER -> "absent"
  BY DEF Life, Alive, Ended
<1> DEFINE Same == Life' = Life /\ At' = At
           Moves == [P!Next]_<<life, at>>
<1>5. Same => Moves
  BY Unseen
<1> HIDE DEF Moves
<1>6. ASSUME FirstStop PROVE Moves
  <2>1. Life = "absent" /\ Life' = "alive" /\ At' = At
    BY <1>3, <1>4, <1>6, Lives DEF FirstStop, StopFor, At, code
  <2> QED
    BY <1>2, <2>1, Shown DEF Moves
<1>7. ASSUME NeverStarts PROVE Moves
  <2>1. Life = "absent" /\ Life' = "ended" /\ At' = At
    BY <1>4, <1>7, Lives DEF NeverStarts, At, code
  <2> QED
    BY <2>1, Shown DEF Moves
<1>8. ASSUME Trap PROVE Moves
  <2>1. ip \in Instr /\ why = "none" /\ run = "running" /\ run' = "stopped"
    BY <1>2, <1>3, <1>8 DEF Trap, StopFor, At
  <2>2. At' = At
    BY TracerAssumption, <2>1, <1>8 DEF Trap, StopFor, At
  <2> QED
    BY <1>4, <1>5, <2>1, <2>2, Lives
<1>9. ASSUME Insn PROVE Moves
  <2>1. run = "running" /\ run' \in {"running", "stopped"} /\ why = "none"
        /\ why' # "int3" /\ ip' \in Succ[ip]
    BY <1>3, <1>9 DEF Insn, StopFor
  <2>2. Life = "alive" /\ Life' = "alive" /\ At' \in Succ[At]
    BY <1>4, <2>1, Lives DEF At
  <2> QED
    BY <2>2, Shown DEF Moves
<1>10. ASSUME EnterCall PROVE Moves
  <2>1. Same
    BY <1>3, <1>4, <1>10, Lives DEF EnterCall, StopFor, At, code
  <2> QED
    BY <1>5, <2>1
<1>11. ASSUME LeaveCall PROVE Moves
  <2>1. Life = "alive" /\ Life' = "alive" /\ At' \in Succ[At]
    BY <1>3, <1>4, <1>11, Lives DEF LeaveCall, StopFor, At
  <2> QED
    BY <2>1, Shown DEF Moves
<1>12. ASSUME Derailed PROVE Moves
  BY <1>2, <1>3, <1>12 DEF Derailed, At
<1>13. ASSUME Signal PROVE Moves
  <2>1. Same
    BY <1>3, <1>4, <1>13, Lives DEF Signal, StopFor, At, code
  <2> QED
    BY <1>5, <2>1
<1>14. ASSUME Exit \/ Kill PROVE Moves
  <2>1. Life = "alive" /\ Life' = "ended" /\ At' = At
    BY <1>4, <1>14, Lives DEF Exit, Kill, Alive, At, code
  <2> QED
    BY <2>1, Shown DEF Moves
<1>15. ASSUME pc # "done", PTRACE_ATTACH PROVE Moves
  <2>1. Same
    BY <1>4, <1>15, Lives DEF PTRACE_ATTACH, At, code
  <2> QED
    BY <1>5, <2>1
<1>16. ASSUME Hit PROVE Moves
  <2>1. run = "stopped" /\ why = "int3" /\ ip = Bar + 1
    BY <1>1, <1>16 DEF IInv, Place, Breaks, Hit, Waits
  <2>2. ip' = Bar /\ run' = "running" /\ why' = "none"
    BY TracerAssumption, <1>16, <2>1 DEF Hit, Resume
  <2>3. Same
    BY TracerAssumption, <1>4, <2>1, <2>2, Lives DEF At
  <2> QED
    BY <1>5, <2>3
<1>17. ASSUME Plant \/ Replant \/ SetRegister \/ ShowStop \/ StartTracing
       PROVE Moves
  <2>1. run = "stopped" /\ run' = "running" /\ why' = "none" /\ UNCHANGED ip
    BY <1>17 DEF Plant, Replant, SetRegister, ShowStop, StartTracing, Waits, Resume, code
  <2>2. why # "int3"
    BY <1>1, <1>17 DEF Plant, Replant, SetRegister, ShowStop, StartTracing, Waits,
       IInv, Place, Breaks
  <2>3. Same
    BY <1>4, <2>1, <2>2, Lives DEF At
  <2> QED
    BY <1>5, <2>3
<1>18. ASSUME Leave PROVE Moves
  <2>1. Same
    BY <1>4, <1>18, Lives DEF Leave, Ended, At, code
  <2> QED
    BY <1>5, <2>1
<1>19. ASSUME UNCHANGED vars PROVE Moves
  <2>1. Same
    BY <1>4, <1>19 DEF vars, Life, Alive, Ended, At, code
  <2> QED
    BY <1>5, <2>1
<1>20. ASSUME ShowCall PROVE Moves
  <2>1. run = "stopped" /\ why # "int3" /\ UNCHANGED ip
    BY <1>1, <1>20 DEF ShowCall, Waits, IInv, Place, code
  <2>2. CASE Resume(FALSE)
    <3>1. Same
      BY <1>4, <2>1, <2>2, Lives DEF At, Resume
    <3> QED
      BY <1>5, <3>1
  <2>3. CASE run' = "reaped" /\ UNCHANGED why
    <3>1. Life = "alive" /\ Life' = "ended" /\ At' = At
      BY <1>4, <2>1, <2>3, Lives DEF At
    <3> QED
      BY <3>1, Shown DEF Moves
  <2> QED
    BY <1>20, <2>2, <2>3 DEF ShowCall
<1>21. Moves
  BY TracerAnswers, <1>6, <1>7, <1>8, <1>9, <1>10, <1>11, <1>12, <1>13, <1>14, <1>15, <1>16,
     <1>17, <1>18, <1>19, <1>20 DEF Next, Process, Answers
<1> QED
  BY <1>21 DEF Moves

\* RunsAsAlone of module Tracers: the process a program of blog/ traces runs like
\* one that nobody traces, provided no signal misleads those with INT3.
THEOREM AloneTheorem == Spec => RunsAsAlone
<1>1. Init => P!Init
  <2> SUFFICES ASSUME Init PROVE P!Init
    OBVIOUS
  <2>1. Life = "absent" /\ At \in Instr
    BY TracerAssumption, Lives DEF Init, At
  <2> QED
    BY <2>1, LifeAt DEF P!Init
<1>2. IInv /\ [Next]_vars => [Trusted => P!Next]_<<life, at>>
  BY StepShown
<1> QED
  BY Inductive, <1>1, <1>2, PTL DEF Spec, RunsAsAlone

=============================================================================
