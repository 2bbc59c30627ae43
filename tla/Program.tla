------------------------------ MODULE Program ------------------------------
(***************************************************************************)
(* What the programs under the debugger do when nobody debugs them: each   *)
(* one appears, executes instruction after instruction along its own       *)
(* control flow and ends.  Breakpoints, traps, waits and commands do not   *)
(* exist here.  The debugger is transparent when every behaviour of it     *)
(* (module Debugger) is, through a refinement mapping, one of these.       *)
(***************************************************************************)
CONSTANTS Pids,     \* the programs
          Instr,    \* addresses of their instructions
          Succ,     \* Succ[a]: addresses that may follow the one at a
          Exits     \* addresses of instructions that may end the program

VARIABLES life,     \* "absent", "alive" or "ended", per program
          at        \* address of the instruction to be executed next

vars == <<life, at>>

Init == /\ life = [p \in Pids |-> "absent"]
        /\ at \in [Pids -> Instr]

\* The program gets an image and starts, or comes under observation.
Appear(p) == /\ life[p] = "absent"
             /\ life' = [life EXCEPT ![p] = "alive"]
             /\ \E a \in Instr : at' = [at EXCEPT ![p] = a]

\* One instruction is executed, exactly once.
Step(p) == /\ life[p] = "alive"
           /\ \E a \in Succ[at[p]] : at' = [at EXCEPT ![p] = a]
           /\ UNCHANGED life

Exit(p) == /\ life[p] = "alive"
           /\ at[p] \in Exits
           /\ life' = [life EXCEPT ![p] = "ended"]
           /\ UNCHANGED at

Kill(p) == /\ life[p] = "alive"
           /\ life' = [life EXCEPT ![p] = "ended"]
           /\ UNCHANGED at

\* The program never gets as far as its first instruction.
FailToStart(p) == /\ life[p] = "absent"
                  /\ life' = [life EXCEPT ![p] = "ended"]
                  /\ UNCHANGED at

\* The observer leaves: some programs die with it, the others leave its sight.
Gone(killed) == /\ life' = [p \in Pids |-> IF p \in killed \/ life[p] = "ended"
                                           THEN "ended" ELSE "absent"]
                /\ UNCHANGED at

Next == \/ \E p \in Pids : Appear(p) \/ Step(p) \/ Exit(p) \/ Kill(p) \/ FailToStart(p)
        \/ \E killed \in SUBSET Pids : Gone(killed)

Spec == Init /\ [][Next]_vars
=============================================================================
