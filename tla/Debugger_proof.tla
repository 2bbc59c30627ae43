--------------------------- MODULE Debugger_proof ---------------------------
(***************************************************************************)
(* Theorems about the debugger, for every set of processes, every image    *)
(* and every number of breakpoints and signals.                            *)
(***************************************************************************)
EXTENDS DebuggerProps, TLAPS

USE DEF Events

-----------------------------------------------------------------------------
(* Types.                                                                  *)

LEMMA TypeInit == Init => TypeOK
  BY ImageAssumption, ProcessAssumption
     DEF Init, TypeOK, RunStates, Images, Causes, Bytes, NoAddr, Breakpoints, Places

LEMMA TypeCommand == ASSUME TypeOK, Command PROVE TypeOK'
<1>. USE DEF TypeOK, RunStates, Images, Places
<1>1. ASSUME NEW sym \in Syms, command_break(sym) PROVE TypeOK'
  <2>. DEFINE a == IF funs = "image" THEN sym ELSE WildAddr
  <2>1. a \in Addrs
    BY ImageAssumption DEF Addrs
  <2>2. read_pro_mem(a) \in Bytes
    BY <2>1 DEF read_pro_mem, Mapped, Traced, Bytes, Addrs
  <2>3. bps' \in Seq(Breakpoints)
    BY <1>1, <2>1, <2>2 DEF command_break, Breakpoints
  <2>4. idx' \in Nat
    BY <1>1 DEF command_break
  <2>. QED BY <1>1, <2>3, <2>4 DEF command_break, kernel
<1>2. ASSUME NEW a \in WatchAddrs, command_watch(a) PROVE TypeOK'
  <2>1. bps' \in Seq(Breakpoints)
    BY <1>2, ImageAssumption DEF command_watch, Breakpoints, Addrs, Bytes
  <2>2. dr0' \in [Pids -> WatchAddrs \cup {NoAddr}]
    BY <1>2 DEF command_watch
  <2>. QED BY <1>2, <2>1, <2>2 DEF command_watch
<1>3. CASE command_showreg
  BY <1>3 DEF command_showreg, kernel, FetchedRip, Traced
<1>4. CASE command_continue
  <2>1. run' \in [Pids -> RunStates] /\ event' \in [Pids -> Events]
    BY <1>4 DEF command_continue, Resume, ResumeIf
  <2>2. cause' \in [Pids -> Causes] /\ step' \in [Pids -> BOOLEAN]
    BY <1>4 DEF command_continue, Resume, ResumeIf, Causes
  <2>. QED BY <1>4, <2>1, <2>2 DEF command_continue, dbug
<1>5. ASSUME NEW p \in Pids, command_dbug(p) PROVE TypeOK'
  BY <1>5 DEF command_dbug, dbug, Causes
<1>6. ASSUME NEW p \in Pids, command_attach(p) PROVE TypeOK'
  BY <1>6 DEF command_attach, dbug
<1>7. CASE command_exit
  BY <1>7 DEF command_exit, DebuggerEnds, dbug
<1>. QED BY <1>1, <1>2, <1>3, <1>4, <1>5, <1>6, <1>7 DEF Command

LEMMA TypeReturn == ASSUME TypeOK, StepsOverEntry, Return PROVE TypeOK'
<1>. USE DEF TypeOK, RunStates, Images
<1>1. CASE ContinueSeesExit
  BY <1>1 DEF ContinueSeesExit, DebuggerEnds
<1>2. CASE ContinueSeesStop
  BY <1>2 DEF ContinueSeesStop, Collect
<1>3. CASE HitFound
  BY <1>3 DEF HitFound, kernel, FetchedRip, Traced
<1>4. CASE OtherStop
  BY <1>4 DEF OtherStop, kernel, FetchedRip, Traced
<1>5. CASE RestoreByte
  <2>1. idx \in DOMAIN bps
    BY <1>5 DEF RestoreByte, StepsOverEntry, BetweenRequests
  <2>2. bps[idx] \in Breakpoints
    BY <2>1
  <2>4. bps[idx].addr \in Nat /\ bps[idx].orig \in Bytes
    BY <2>2, ImageAssumption DEF Breakpoints, Addrs
  <2>3. text' \in [Pids -> [Addrs -> Bytes]]
    BY <1>5, <2>4 DEF RestoreByte, write_pro_mem, PutByte, Traced
  <2>. QED BY <1>5, <2>4, <2>3 DEF RestoreByte, Places
<1>8. CASE SetRegs
  <2>1. rip' \in [Pids -> Places] /\ cause' \in [Pids -> Causes]
    BY <1>8 DEF SetRegs, Causes
  <2>. QED BY <1>8, <2>1 DEF SetRegs, dbug
<1>9. CASE StartStep
  <2>1. run' \in [Pids -> RunStates] /\ event' \in [Pids -> Events]
    BY <1>9 DEF StartStep, Resume, ResumeIf, Causes
  <2>2. cause' \in [Pids -> Causes] /\ step' \in [Pids -> BOOLEAN]
    BY <1>9 DEF StartStep, Resume, ResumeIf, Causes
  <2>. QED BY <1>9, <2>1, <2>2 DEF StartStep, dbug
<1>10. CASE StepWaitReturns
  BY <1>10 DEF StepWaitReturns, Collect, dbug
<1>11. CASE RearmInt3 \/ InsertInt3
  <2>1. PlantInt3
    BY <1>11 DEF RearmInt3, InsertInt3
  <2>2. "int3" \in Bytes
    BY DEF Bytes
  <2>3. text' \in [Pids -> [Addrs -> Bytes]]
    BY <2>1, <2>2 DEF PlantInt3, write_pro_mem, PutByte
  <2>. QED BY <2>1, <2>3 DEF PlantInt3, dbug
<1>6. CASE LaunchWaitReturns
  BY <1>6 DEF LaunchWaitReturns, Collect, SymbolsOf
<1>7. CASE AttachWaitReturns
  BY <1>7 DEF AttachWaitReturns, Collect, SymbolsOf
<1>. QED BY <1>1, <1>2, <1>3, <1>4, <1>5, <1>6, <1>7, <1>8, <1>9, <1>10, <1>11 DEF Return

LEMMA TypeLaunch == ASSUME TypeOK, NEW p \in Pids, Launch(p) PROVE TypeOK'
<1>. USE DEF TypeOK, RunStates, Images, Places, debugger, dbug
<1>1. CASE ExecSucceeds(p)
  BY <1>1, ImageAssumption DEF ExecSucceeds, StopWith, Causes, Bytes
<1>2. CASE ExecFails(p)
  BY <1>2 DEF ExecFails
<1>3. CASE AttachStops(p)
  BY <1>3, ImageAssumption DEF AttachStops, StopWith, Causes
<1>. QED BY <1>1, <1>2, <1>3 DEF Launch

LEMMA TypeNested == ASSUME TypeOK, NEW p \in Pids, Nested(p) PROVE TypeOK'
<1>. USE DEF TypeOK, RunStates, Images, Places, debugger, dbug
<1>1. CASE NestedContinues(p)
  BY <1>1 DEF NestedContinues, EndWith
<1>2. CASE NestedQuits(p)
  BY <1>2 DEF NestedQuits
<1>3. CASE NestedKillsGroup(p)
  BY <1>3 DEF NestedKillsGroup, DebuggerEnds
<1>4. CASE NestedCalls(p)
  BY <1>4, ImageAssumption DEF NestedCalls
<1>. QED BY <1>1, <1>2, <1>3, <1>4 DEF Nested

LEMMA TypeTracee == ASSUME TypeOK, NEW p \in Pids, Tracee(p) PROVE TypeOK'
<1>. USE DEF TypeOK, RunStates, Images, debugger, dbug, Causes
<1>1. CASE TraceeExecutes(p)
  <2>1. rip' \in [Pids -> Places]
    <3>1. image[p] = "program" => rip[p] \in Instr
      BY <1>1 DEF TraceeExecutes, AtInsn, Mapped, InOwnCode
    <3>2. After(p) \subseteq Places
      BY <3>1, ImageAssumption DEF After, Places
    <3>. QED BY <1>1, <3>2 DEF TraceeExecutes
  <2>0. StopWith(p, "trap", "step") \/ UNCHANGED <<run, event, cause, step>>
    BY <1>1 DEF TraceeExecutes
  <2>2. run' \in [Pids -> RunStates] /\ event' \in [Pids -> Events]
    BY <2>0 DEF StopWith
  <2>3. cause' \in [Pids -> Causes] /\ step' \in [Pids -> BOOLEAN]
    BY <2>0 DEF StopWith
  <2>. QED BY <1>1, <2>1, <2>2, <2>3 DEF TraceeExecutes
<1>2. CASE TraceeExits(p)
  BY <1>2 DEF TraceeExits, EndWith
<1>3. CASE TraceeHitsInt3(p)
  <2>1. rip[p] + 1 \in Places
    BY <1>3, ImageAssumption DEF TraceeHitsInt3, Mapped, Places, OwnCode
  <2>. QED BY <1>3, <2>1 DEF TraceeHitsInt3, StopWith
<1>4. CASE TraceeHitsHw(p)
  BY <1>4 DEF TraceeHitsHw, StopWith
<1>5. CASE TraceeFaults(p)
  BY <1>5 DEF TraceeFaults, StopWith
<1>6. CASE TraceeStrays(p)
  <2>0. StopWith(p, "trap", "step") \/ UNCHANGED <<run, event, cause, step>>
    BY <1>6 DEF TraceeStrays
  <2>1. rip' \in [Pids -> Places]
    BY <1>6, ImageAssumption DEF TraceeStrays, Places
  <2>2. run' \in [Pids -> RunStates] /\ event' \in [Pids -> Events]
    BY <2>0 DEF StopWith
  <2>3. cause' \in [Pids -> Causes] /\ step' \in [Pids -> BOOLEAN]
    BY <2>0 DEF StopWith
  <2>. QED BY <1>6, <2>1, <2>2, <2>3 DEF TraceeStrays
<1>. QED BY <1>1, <1>2, <1>3, <1>4, <1>5, <1>6 DEF Tracee

LEMMA TypeNext == TypeOK /\ StepsOverEntry /\ [Next]_vars => TypeOK'
<1>. SUFFICES ASSUME TypeOK, StepsOverEntry, [Next]_vars PROVE TypeOK'
  OBVIOUS
<1>1. ASSUME NEW p \in Pids, TraceeSignalled(p) PROVE TypeOK'
  BY <1>1 DEF TypeOK, TraceeSignalled, StopWith, debugger, dbug, RunStates, Causes
<1>2. ASSUME NEW p \in Pids, ProcessKilled(p) PROVE TypeOK'
  BY <1>2 DEF TypeOK, ProcessKilled, EndWith, debugger, dbug, RunStates
<1>3. CASE UNCHANGED vars
  BY <1>3 DEF TypeOK, vars, kernel, dbug
<1>. QED BY <1>1, <1>2, <1>3, TypeCommand, TypeReturn, TypeLaunch, TypeNested,
            TypeTracee DEF Next, Terminated

-----------------------------------------------------------------------------
(* The breakpoint table, any number of processes.                          *)

\* What ngx_array_push does to the table and to the two searches in it.
LEMMA Pushed ==
  ASSUME NEW t \in Seq(Breakpoints), NEW e \in Breakpoints
  PROVE  /\ \A i \in DOMAIN t : Append(t, e)[i] = t[i]
         /\ \A a : a \in SoftAddrs(Append(t, e)) <=>
                     a \in SoftAddrs(t) \/ (e.type = "SF" /\ e.addr = a)
         /\ \A i : FirstSoftAt(Append(t, e), i, Append(t, e)[i].addr) =>
               \/ /\ i \in DOMAIN t /\ Append(t, e)[i] = t[i]
                  /\ FirstSoftAt(t, i, t[i].addr)
               \/ Append(t, e)[i] = e /\ e.addr \notin SoftAddrs(t)
<1>. DEFINE u == Append(t, e)
<1>1. /\ DOMAIN t = 1 .. Len(t) /\ Len(t) \in Nat
      /\ DOMAIN u = 1 .. Len(t) + 1
      /\ \A i \in DOMAIN t : u[i] = t[i]
      /\ u[Len(t) + 1] = e
  OBVIOUS
<1>. HIDE DEF u
<1>2. ASSUME NEW i, NEW a
      PROVE  SoftAt(u, i, a) <=> \/ SoftAt(t, i, a)
                                 \/ i = Len(t) + 1 /\ e.type = "SF" /\ e.addr = a
  <2>1. CASE i \in DOMAIN t
    BY <2>1, <1>1 DEF SoftAt
  <2>2. CASE i = Len(t) + 1
    BY <2>2, <1>1 DEF SoftAt
  <2>3. CASE i \notin DOMAIN u
    BY <2>3, <1>1 DEF SoftAt
  <2>. QED BY <2>1, <2>2, <2>3, <1>1
<1>3. ASSUME NEW a
      PROVE  a \in SoftAddrs(u) <=> a \in SoftAddrs(t) \/ (e.type = "SF" /\ e.addr = a)
  <2>1. a \in SoftAddrs(u) <=> a \in Addrs /\ \E i : SoftAt(u, i, a)
    BY DEF SoftAddrs, SoftAt
  <2>2. a \in SoftAddrs(t) <=> a \in Addrs /\ \E i : SoftAt(t, i, a)
    BY DEF SoftAddrs, SoftAt
  <2>3. e.addr \in Addrs
    BY DEF Breakpoints
  <2>4. (\E i : SoftAt(u, i, a)) <=> (\E i : SoftAt(t, i, a)) \/ (e.type = "SF" /\ e.addr = a)
    BY <1>2
  <2>. QED BY <2>1, <2>2, <2>3, <2>4
<1>4. ASSUME NEW i, NEW a, FirstSoftAt(u, i, a)
      PROVE  \/ FirstSoftAt(t, i, a)
             \/ u[i] = e /\ e.addr = a /\ a \notin SoftAddrs(t)
  <2>1. SoftAt(u, i, a) /\ \A j \in 1 .. i - 1 : ~SoftAt(u, j, a)
    BY <1>4 DEF FirstSoftAt
  <2>2. CASE i \in DOMAIN t
    <3>1. SoftAt(t, i, a)
      BY <2>1, <2>2, <1>1, <1>2
    <3>. QED BY <2>1, <3>1, <1>2 DEF FirstSoftAt
  <2>3. CASE i \notin DOMAIN t
    <3>1. i = Len(t) + 1 /\ e.type = "SF" /\ e.addr = a
      BY <2>1, <2>3, <1>2 DEF SoftAt
    <3>2. \A j : SoftAt(t, j, a) => j \in 1 .. i - 1
      BY <3>1, <1>1 DEF SoftAt
    <3>3. a \notin SoftAddrs(t)
      BY <2>1, <3>2, <1>2 DEF SoftAddrs
    <3>. QED BY <3>1, <3>3, <1>1
  <2>. QED BY <2>2, <2>3
<1>5. ASSUME NEW i, FirstSoftAt(u, i, u[i].addr)
      PROVE  \/ i \in DOMAIN t /\ u[i] = t[i] /\ FirstSoftAt(t, i, t[i].addr)
             \/ u[i] = e /\ e.addr \notin SoftAddrs(t)
  <2>1. CASE FirstSoftAt(t, i, u[i].addr)
    <3>1. i \in DOMAIN t
      BY <2>1 DEF FirstSoftAt, SoftAt
    <3>. QED BY <2>1, <3>1, <1>1
  <2>. QED BY <2>1, <1>4, <1>5
<1>. QED BY <1>1, <1>3, <1>5 DEF u

\* Steps that touch neither the table nor a byte of code.
Quiet == /\ UNCHANGED <<text, bps>>
         /\ pc' \in BetweenRequests
               => /\ pc \in BetweenRequests /\ idx' = idx
                  /\ pc = "inserting" => pc' = "inserting"

Loud == \/ \E sym \in Syms : command_break(sym)
        \/ \E a \in WatchAddrs : command_watch(a)
        \/ HitFound
        \/ RestoreByte
        \/ RearmInt3
        \/ InsertInt3
        \/ \E p \in Pids : ExecSucceeds(p)

LEMMA QuietOrLoud == [Next]_vars => Quiet \/ Loud
<1>. SUFFICES ASSUME [Next]_vars, ~Loud PROVE Quiet
  OBVIOUS
<1>. USE DEF Quiet, kernel, dbug, debugger, BetweenRequests
<1>1. CASE Command
  BY <1>1 DEF Loud, Command, command_showreg, command_continue, command_dbug,
              command_attach, command_exit, DebuggerEnds
<1>2. CASE Return
  BY <1>2 DEF Loud, Return, ContinueSeesExit, ContinueSeesStop, OtherStop, SetRegs,
              StartStep, StepWaitReturns, LaunchWaitReturns, AttachWaitReturns, DebuggerEnds
<1>3. ASSUME NEW p \in Pids, Launch(p) PROVE Quiet
  BY <1>3 DEF Loud, Launch, ExecFails, AttachStops
<1>4. ASSUME NEW p \in Pids, Nested(p) PROVE Quiet
  BY <1>4 DEF Nested, NestedCalls, NestedContinues, NestedQuits, NestedKillsGroup,
              DebuggerEnds
<1>5. ASSUME NEW p \in Pids, Tracee(p) PROVE Quiet
  BY <1>5 DEF Tracee, TraceeExecutes, TraceeExits, TraceeHitsInt3, TraceeHitsHw,
              TraceeFaults, TraceeStrays
<1>6. ASSUME NEW p \in Pids, TraceeSignalled(p) \/ ProcessKilled(p) PROVE Quiet
  BY <1>6 DEF TraceeSignalled, ProcessKilled
<1>7. CASE UNCHANGED vars
  BY <1>7 DEF vars
<1>. QED BY <1>1, <1>2, <1>3, <1>4, <1>5, <1>6, <1>7 DEF Next, Terminated

LEMMA TableQuiet == ASSUME TableInv, Quiet, TypeOK' PROVE TableInv'
<1>1. Int3Known' /\ OriginalsAreCode'
  BY DEF TableInv, Quiet, Int3Known, OriginalsAreCode, SoftAddrs, FirstSoftAt, SoftAt, Addrs
<1>2. StepsOverEntry'
  BY DEF TableInv, Quiet, StepsOverEntry, BetweenRequests, FirstSoftAt, SoftAt
<1>. QED BY <1>1, <1>2 DEF TableInv

LEMMA TableBreak ==
  ASSUME TableInv, TypeOK', NEW sym \in Syms, command_break(sym)
  PROVE  TableInv'
<1>. DEFINE a == IF funs = "image" THEN sym ELSE WildAddr
            e == [type |-> "SF", addr |-> a, orig |-> read_pro_mem(a)]
<1>1. /\ bps' = Append(bps, e) /\ text' = text
      /\ pc' = "inserting" /\ idx' = Len(bps) + 1
  BY DEF command_break, kernel
<1>2. bps \in Seq(Breakpoints)
  BY DEF TableInv, TypeOK
<1>3. a \in Addrs /\ read_pro_mem(a) \in Bytes
  BY ImageAssumption DEF Addrs, read_pro_mem, Traced, Bytes, TableInv, TypeOK
<1>4. e \in Breakpoints
  BY <1>3 DEF Breakpoints
<1>5. e.orig = "int3" => a \in SoftAddrs(bps)
  BY <1>3 DEF read_pro_mem, Traced, TableInv, Int3Known
<1>6. e.type = "SF" /\ e.addr = a /\ e.orig = read_pro_mem(a)
  OBVIOUS
<1>. HIDE DEF e, a
<1>7. Int3Known'
  BY <1>1, <1>2, <1>4, Pushed DEF TableInv, Int3Known
<1>8. OriginalsAreCode'
  <2>. DEFINE u == Append(bps, e)
  <2>1. \A i : FirstSoftAt(u, i, u[i].addr) =>
               \/ i \in DOMAIN bps /\ u[i] = bps[i] /\ FirstSoftAt(bps, i, bps[i].addr)
               \/ u[i] = e /\ e.addr \notin SoftAddrs(bps)
    BY <1>2, <1>4, Pushed
  <2>. HIDE DEF u
  <2>2. \A i : FirstSoftAt(u, i, u[i].addr) => u[i].orig # "int3"
    BY <1>5, <1>6, <2>1 DEF TableInv, OriginalsAreCode
  <2>. QED BY <2>2, <1>1 DEF OriginalsAreCode, u
<1>9. StepsOverEntry'
  <2>1. /\ Len(bps) + 1 \in DOMAIN Append(bps, e)
        /\ Append(bps, e)[Len(bps) + 1] = e
    BY <1>2
  <2>. QED BY <1>1, <1>6, <2>1 DEF StepsOverEntry
<1>. QED BY <1>7, <1>8, <1>9 DEF TableInv

LEMMA TableWatch ==
  ASSUME TableInv, TypeOK', NEW a \in WatchAddrs, command_watch(a)
  PROVE  TableInv'
<1>. DEFINE e == [type |-> "HW", addr |-> a, orig |-> "junk"]
<1>1. bps' = Append(bps, e) /\ text' = text /\ pc = "prompt" /\ pc' = pc
  BY DEF command_watch
<1>2. bps \in Seq(Breakpoints) /\ e \in Breakpoints
  BY ImageAssumption DEF TableInv, TypeOK, Breakpoints, Addrs, Bytes
<1>3. e.orig # "int3"
  OBVIOUS
<1>. HIDE DEF e
<1>4. Int3Known'
  BY <1>1, <1>2, Pushed DEF TableInv, Int3Known
<1>5. OriginalsAreCode'
  <2>. DEFINE u == Append(bps, e)
  <2>1. \A i : FirstSoftAt(u, i, u[i].addr) =>
               \/ i \in DOMAIN bps /\ u[i] = bps[i] /\ FirstSoftAt(bps, i, bps[i].addr)
               \/ u[i] = e /\ e.addr \notin SoftAddrs(bps)
    BY <1>2, Pushed
  <2>. HIDE DEF u
  <2>2. \A i : FirstSoftAt(u, i, u[i].addr) => u[i].orig # "int3"
    BY <1>3, <2>1 DEF TableInv, OriginalsAreCode
  <2>. QED BY <2>2, <1>1 DEF OriginalsAreCode, u
<1>6. StepsOverEntry'
  BY <1>1 DEF StepsOverEntry, BetweenRequests
<1>. QED BY <1>4, <1>5, <1>6 DEF TableInv

LEMMA TableHit == ASSUME TableInv, TypeOK', HitFound PROVE TableInv'
<1>1. PICK i \in DOMAIN bps : FirstSoftAt(bps, i, FetchedRip - 1) /\ idx' = i
  BY DEF HitFound
<1>2. UNCHANGED <<text, bps>>
  BY DEF HitFound, kernel
<1>3. bps[i].type = "SF" /\ FirstSoftAt(bps, i, bps[i].addr)
  BY <1>1 DEF FirstSoftAt, SoftAt
<1>. QED BY <1>1, <1>2, <1>3 DEF TableInv, Int3Known, OriginalsAreCode, StepsOverEntry,
                                 SoftAddrs, FirstSoftAt, SoftAt

\* Any byte may be written where a breakpoint of the table is.
LEMMA TableWrite ==
  ASSUME TableInv, TypeOK', RestoreByte \/ RearmInt3 \/ InsertInt3
  PROVE  TableInv'
<1>1. /\ pc \in BetweenRequests /\ UNCHANGED <<bps, idx>>
      /\ \/ pc' = "prompt"
         \/ pc = "hit" /\ pc' = "restored"
      /\ \E byte : write_pro_mem(bps[idx].addr, byte)
  BY DEF RestoreByte, RearmInt3, InsertInt3, PlantInt3, dbug, BetweenRequests
<1>2. bps[idx].addr \in SoftAddrs(bps)
  <2>1. idx \in DOMAIN bps /\ bps[idx].type = "SF" /\ bps[idx] \in Breakpoints
    BY <1>1 DEF TableInv, StepsOverEntry, TypeOK
  <2>. QED BY <2>1 DEF SoftAddrs, SoftAt, Breakpoints
<1>3. \A p \in Pids : \A a \in Addrs :
         text'[p][a] = "int3" => text[p][a] = "int3" \/ a = bps[idx].addr
  BY <1>1 DEF write_pro_mem, PutByte, Traced, TableInv, TypeOK
<1>4. Int3Known' /\ OriginalsAreCode'
  BY <1>1, <1>2, <1>3 DEF TableInv, Int3Known, OriginalsAreCode
<1>5. StepsOverEntry'
  BY <1>1 DEF TableInv, StepsOverEntry, BetweenRequests
<1>. QED BY <1>4, <1>5 DEF TableInv

LEMMA TableExec ==
  ASSUME TableInv, TypeOK', NEW p \in Pids, ExecSucceeds(p) PROVE TableInv'
<1>1. /\ UNCHANGED <<bps, pc, idx>>
      /\ text' = [text EXCEPT ![p] = [a \in Addrs |-> "insn"]]
  BY DEF ExecSucceeds, debugger, dbug
<1>2. \A q \in Pids : \A a \in Addrs : text'[q][a] = "int3" => text[q][a] = "int3"
  BY <1>1 DEF TableInv, TypeOK
<1>. QED BY <1>1, <1>2 DEF TableInv, Int3Known, OriginalsAreCode, StepsOverEntry

LEMMA TableInit == Init => TableInv
<1>. SUFFICES ASSUME Init PROVE TableInv
  OBVIOUS
<1>1. Int3Known /\ OriginalsAreCode /\ StepsOverEntry
  BY DEF Init, Int3Known, OriginalsAreCode, StepsOverEntry, BetweenRequests
<1>. QED BY <1>1, TypeInit DEF TableInv

LEMMA TableNext == TableInv /\ [Next]_vars => TableInv'
<1>. SUFFICES ASSUME TableInv, [Next]_vars PROVE TableInv'
  OBVIOUS
<1>1. TypeOK'
  BY TypeNext DEF TableInv
<1>. QED BY <1>1, QuietOrLoud, TableQuiet, TableBreak, TableWatch, TableHit, TableWrite,
            TableExec DEF Loud

\* The type invariant holds throughout every session.
THEOREM TypeCorrect == Spec => []TypeOK
<1>1. TableInv => TypeOK
  BY DEF TableInv
<1>. QED BY <1>1, TableInit, TableNext, PTL DEF Spec

\* Whatever the processes do, a trap of a breakpoint finds its entry in the
\* table: command_break writes no INT3 without one.
THEOREM EveryInt3Known == Spec => []Int3Known
<1>1. TableInv => Int3Known
  BY DEF TableInv
<1>. QED BY <1>1, TableInit, TableNext, PTL DEF Spec

\* The byte find_current_SF_bp makes resume_INT3_bp_next put back is never an
\* INT3, b twice on a symbol or not.
THEOREM NeverRestoresInt3 == Spec => []OriginalsAreCode
<1>1. TableInv => OriginalsAreCode
  BY DEF TableInv
<1>. QED BY <1>1, TableInit, TableNext, PTL DEF Spec

-----------------------------------------------------------------------------
(* Waiting, any number of processes.                                       *)

LEMMA AnswerNext == TypeOK /\ WaitHasAnAnswer /\ [Next]_vars => WaitHasAnAnswer'
<1>. SUFFICES ASSUME TypeOK, WaitHasAnAnswer, [Next]_vars PROVE WaitHasAnAnswer'
  OBVIOUS
<1>. USE DEF WaitHasAnAnswer, Traced, TypeOK, kernel, dbug, debugger
<1>1. CASE Command
  <2>1. CASE command_continue
    BY <2>1 DEF command_continue, Resume, ResumeIf, RunStates
  <2>. QED BY <1>1, <2>1 DEF Command, command_break, command_watch, command_showreg,
                             command_dbug, command_attach, command_exit, DebuggerEnds
<1>2. CASE Return
  <2>1. CASE StartStep
    BY <2>1 DEF StartStep, Resume, ResumeIf, RunStates
  <2>. QED BY <1>2, <2>1 DEF Return, ContinueSeesExit, ContinueSeesStop, OtherStop, HitFound,
              RestoreByte, SetRegs, StepWaitReturns, RearmInt3, InsertInt3, PlantInt3,
              LaunchWaitReturns, AttachWaitReturns, DebuggerEnds
<1>3. ASSUME NEW p \in Pids, Launch(p) PROVE WaitHasAnAnswer'
  BY <1>3 DEF Launch, ExecSucceeds, ExecFails, AttachStops, StopWith
<1>4. ASSUME NEW p \in Pids, Nested(p) PROVE WaitHasAnAnswer'
  BY <1>4 DEF Nested, NestedCalls, NestedContinues, NestedQuits, NestedKillsGroup,
              DebuggerEnds, EndWith
<1>5. ASSUME NEW p \in Pids, Tracee(p) PROVE WaitHasAnAnswer'
  <2>1. CASE TraceeExecutes(p)
    BY <2>1 DEF TraceeExecutes, StopWith
  <2>2. CASE TraceeStrays(p)
    BY <2>2 DEF TraceeStrays, StopWith
  <2>. QED BY <1>5, <2>1, <2>2 DEF Tracee, TraceeExits, TraceeHitsInt3, TraceeHitsHw,
                                   TraceeFaults, StopWith, EndWith
<1>6. ASSUME NEW p \in Pids, TraceeSignalled(p) \/ ProcessKilled(p) PROVE WaitHasAnAnswer'
  BY <1>6 DEF TraceeSignalled, ProcessKilled, StopWith, EndWith
<1>7. CASE UNCHANGED vars
  BY <1>7 DEF vars
<1>. QED BY <1>1, <1>2, <1>3, <1>4, <1>5, <1>6, <1>7 DEF Next, Terminated

\* c and the single step of a breakpoint never wait for a stop of their own
\* process that was reported already or thrown away.
THEOREM WaitIsAnswered == Spec => []WaitHasAnAnswer
<1>1. Init => WaitHasAnAnswer
  BY DEF Init, WaitHasAnAnswer
<1>. QED BY <1>1, TypeCorrect, AnswerNext, PTL DEF Spec

-----------------------------------------------------------------------------
(* One process.                                                            *)
SoloInv == EventInv /\ CurrentInv /\ ImageInv /\ PlaceInv

\* Nothing changes about breakpoints and bytes.
LEMMA ImageKept ==
  ASSUME ImageInv, UNCHANGED <<text, bps>>,
         \A q \in Pids : run'[q] \in {"running", "stopped"} =>
             Alive(q) /\ \A a : Mapped(q, a)' <=> Mapped(q, a),
         \A a : Planted(a)' <=> Planted(a)
  PROVE  ImageInv'
<1>. SUFFICES ASSUME NEW q \in Pids, run'[q] \in {"running", "stopped"}
              PROVE  /\ \A a \in Addrs : text'[q][a] = IF Mapped(q, a)' /\ Planted(a)'
                                                       THEN "int3" ELSE "insn"
                     /\ \A i \in DOMAIN bps' :
                          FirstSoftAt(bps', i, bps'[i].addr) /\ Mapped(q, bps[i].addr)'
                             => bps'[i].orig = "insn"
  BY DEF ImageInv, Alive
<1>1. Alive(q) /\ \A a : Mapped(q, a)' <=> Mapped(q, a)
  OBVIOUS
<1>. QED BY <1>1 DEF ImageInv

\* Which breakpoints are planted depends on these alone.
LEMMA PlantedKept ==
  ASSUME UNCHANGED <<bps, idx>>,
         pc = "inserting" <=> pc' = "inserting",
         pc \in {"restored", "rewound", "stepwait", "stepped"}
            <=> pc' \in {"restored", "rewound", "stepwait", "stepped"}
  PROVE  \A a : Planted(a)' <=> Planted(a)
  BY DEF Planted, Lifted, SoftAt

LEMMA MappedKept == ASSUME UNCHANGED image PROVE \A q, a : Mapped(q, a)' <=> Mapped(q, a)
  BY DEF Mapped

LEMMA PlacesApart == /\ WildAddr \in Nat /\ OwnCode \notin Nat /\ OwnCode \notin Addrs
                     /\ WildAddr \notin Instr /\ WildAddr + 1 \notin Instr
                     /\ Instr \subseteq Nat /\ Addrs \subseteq Nat /\ NoAddr # OwnCode
  BY ImageAssumption DEF OwnCode, Addrs, NoAddr

\* With one process: a running process is where it should be, and current or
\* waited for.
LEMMA Running ==
  ASSUME OneProcess, SessionInv, NEW p \in Pids, run[p] = "running"
  PROVE  /\ cause[p] # "int3" /\ rip[p] \in Course(p) /\ rip[p] \in Places
         /\ \/ pid = p /\ pc \in {"contwait", "stepwait"}
            \/ /\ pid = NoPid /\ Waiting /\ image[p] # "program"
               /\ funs = "none" /\ \A i \in DOMAIN bps : bps[i].type # "SF"
               /\ \A a \in Addrs : text[p][a] = "insn"
         /\ Mapped(p, rip[p]) => text[p][rip[p]] # "junk"
         /\ Mapped(p, rip[p]) /\ text[p][rip[p]] = "int3"
               => pc = "contwait" /\ rip[p] \in SoftAddrs(bps)
         /\ HwFault(p) => image[p] = "program" /\ rip[p] \in WatchAddrs
<1>0. TypeOK /\ CurrentInv /\ ImageInv /\ PlaceInv /\ \A q \in Pids : q = p
  BY DEF SessionInv, TableInv, OneProcess
<1>1. cause[p] # "int3" /\ rip[p] \in Course(p) /\ rip[p] \in Places
  BY <1>0 DEF PlaceInv, Alive, TypeOK
<1>2. \/ pid = p /\ pc \in {"contwait", "stepwait"}
      \/ /\ pid = NoPid /\ Waiting /\ image[p] # "program"
         /\ funs = "none" /\ \A i \in DOMAIN bps : bps[i].type # "SF"
         /\ \A a \in Addrs : text[p][a] = "insn"
  BY <1>0 DEF CurrentInv, PlaceInv, Alive, Waiting
<1>3. Mapped(p, rip[p]) => rip[p] \in Addrs
  BY ImageAssumption DEF Mapped, Addrs
<1>4. Mapped(p, rip[p]) => text[p][rip[p]] # "junk"
  BY <1>0, <1>3 DEF ImageInv, Alive
<1>5. ASSUME Mapped(p, rip[p]), text[p][rip[p]] = "int3"
      PROVE  pc = "contwait" /\ rip[p] \in SoftAddrs(bps)
  <2>1. Planted(rip[p])
    BY <1>0, <1>3, <1>5 DEF ImageInv, Alive
  <2>2. rip[p] \in SoftAddrs(bps) /\ ~Lifted(rip[p]) /\ \E i \in DOMAIN bps : bps[i].type = "SF"
    BY <1>3, <1>5, <2>1 DEF Planted, SoftAddrs, SoftAt
  <2>3. pc # "stepwait"
    BY <1>0, <2>2 DEF PlaceInv, Lifted
  <2>. QED BY <1>2, <2>2, <2>3
<1>6. ASSUME HwFault(p) PROVE image[p] = "program" /\ rip[p] \in WatchAddrs
  <2>1. rip[p] \in Instr \cup {NoAddr} /\ rip[p] # NoAddr
    <3>1. rip[p] \in WatchAddrs \cup {NoAddr}
      BY <1>0, <1>6 DEF HwFault, TypeOK
    <3>. QED BY <1>1, <3>1, ImageAssumption DEF Places, OwnCode, NoAddr
  <2>2. rip[p] \in WatchAddrs
    BY <1>0, <1>6, <2>1 DEF HwFault, TypeOK
  <2>. QED BY <1>1, <2>1, <2>2, PlacesApart DEF Course
<1>. QED BY <1>1, <1>2, <1>4, <1>5, <1>6

LEMMA NotDerailed ==
  ASSUME OneProcess, SessionInv, NEW p \in Pids PROVE ~Derailed(p)
<1>. SUFFICES ASSUME Derailed(p) PROVE FALSE
  OBVIOUS
<1>1. run[p] = "running" /\ ~InOwnCode(p) /\ (Mapped(p, rip[p]) => text[p][rip[p]] = "junk")
  BY DEF Derailed
<1>2. rip[p] \in Course(p) /\ (Mapped(p, rip[p]) => text[p][rip[p]] # "junk")
  BY <1>1, Running
<1>. QED BY <1>1, <1>2 DEF Course, Mapped, InOwnCode

LEMMA SoloTracee ==
  ASSUME OneProcess, NoWatchBehindSymbol, SessionInv, TypeOK',
         NEW p \in Pids, Tracee(p) \/ TraceeSignalled(p)
  PROVE  SoloInv'
<1>0. /\ TypeOK /\ EventInv /\ CurrentInv /\ ImageInv /\ PlaceInv
      /\ \A q \in Pids : q = p
  BY DEF SessionInv, TableInv, OneProcess
<1>1. /\ UNCHANGED <<image, text, bps, pid, funs, pc, idx, status, regs, child, dr0>>
      /\ run[p] = "running"
  BY DEF Tracee, TraceeExecutes, TraceeExits, TraceeHitsInt3, TraceeHitsHw,
         TraceeFaults, TraceeStrays, TraceeSignalled, Derailed, debugger, dbug
<1>2. /\ \/ pid = p /\ pc \in {"contwait", "stepwait"}
         \/ pid = NoPid /\ Waiting /\ image[p] # "program"
      /\ cause[p] # "int3" /\ rip[p] \in Course(p)
      /\ Mapped(p, rip[p]) /\ text[p][rip[p]] = "int3"
               => pc = "contwait" /\ rip[p] \in SoftAddrs(bps)
      /\ HwFault(p) => image[p] = "program" /\ rip[p] \in WatchAddrs
  BY <1>1, Running
<1>3. /\ step[p] <=> pc = "stepwait"
      /\ image[p] = "fork" => rip[p] = OwnCode
      /\ pc = "stepwait" => rip[p] = bps[idx].addr /\ Mapped(p, rip[p])
  BY <1>0, <1>1 DEF PlaceInv
<1>4. /\ run \in [Pids -> RunStates] /\ event \in [Pids -> Events]
      /\ cause \in [Pids -> Causes] /\ step \in [Pids -> BOOLEAN]
      /\ rip \in [Pids -> Places]
  BY <1>0 DEF TypeOK
<1>. DEFINE Ran   == run'[p] = "running" /\ UNCHANGED <<event, cause, step>> /\ pc # "stepwait"
            Hit   == /\ run'[p] = "stopped" /\ event'[p] = "trap" /\ cause'[p] = "int3"
                     /\ pc = "contwait"
                     /\ Mapped(p, rip[p]) /\ rip[p] \in SoftAddrs(bps) /\ rip'[p] - 1 = rip[p]
            Ended == run'[p] = "dead"
            Trap  == /\ run'[p] = "stopped" /\ event'[p] = "trap"
                     /\ cause'[p] = "step" /\ pc = "stepwait"
            Fault == /\ run'[p] = "stopped" /\ event'[p] = "trap" /\ cause'[p] = "hw"
                     /\ image[p] = "program" /\ rip'[p] \in WatchAddrs
            Sign  == run'[p] = "stopped" /\ event'[p] = "signal" /\ cause'[p] = "signal"
            Stays == rip'[p] \in Course(p) /\ (image[p] = "fork" => rip'[p] = OwnCode)
<1>5. \/ Ended
      \/ Hit
      \/ Stays /\ (Ran \/ Trap \/ Fault \/ Sign)
  <2>1. CASE TraceeExecutes(p)
    <3>1. PICK a \in After(p) : rip' = [rip EXCEPT ![p] = a]
      BY <2>1 DEF TraceeExecutes
    <3>2. a \in Course(p) /\ (image[p] = "fork" => a = OwnCode)
      BY <1>2, ImageAssumption DEF After, Course
    <3>3. Stays
      BY <1>4, <3>1, <3>2
    <3>4. Ran \/ Trap
      BY <1>1, <1>3, <1>4, <2>1 DEF TraceeExecutes, StopWith
    <3>. QED BY <3>3, <3>4
  <2>2. CASE TraceeExits(p)
    BY <1>4, <2>2 DEF TraceeExits, EndWith
  <2>3. CASE TraceeHitsInt3(p)
    <3>1. rip'[p] - 1 = rip[p]
      BY <1>4, <2>3 DEF TraceeHitsInt3, Places, OwnCode
    <3>. QED BY <1>2, <1>4, <2>3, <3>1 DEF TraceeHitsInt3, StopWith
  <2>4. CASE TraceeHitsHw(p)
    BY <1>2, <1>3, <1>4, <2>4 DEF TraceeHitsHw, StopWith
  <2>5. CASE TraceeSignalled(p)
    BY <1>2, <1>3, <1>4, <2>5 DEF TraceeSignalled, StopWith
  <2>. QED BY <2>1, <2>2, <2>3, <2>4, <2>5, NotDerailed DEF Tracee, TraceeFaults, TraceeStrays
<1>6. Trap => ~Waiting
  BY DEF Waiting
<1>7. EventInv'
  BY <1>0, <1>1, <1>3, <1>5 DEF EventInv
<1>8. CurrentInv'
  BY <1>0, <1>1, <1>2, <1>5, <1>6, ProcessAssumption DEF CurrentInv, Waiting, Alive
<1>9. ImageInv'
  <2>1. \A a : Planted(a)' <=> Planted(a)
    BY <1>1, PlantedKept
  <2>2. \A a : Mapped(p, a)' <=> Mapped(p, a)
    BY <1>1, MappedKept
  <2>. QED BY <1>0, <1>1, <2>1, <2>2, ImageKept DEF Alive
<1>10. PlaceInv'
  <2>1. Course(p)' = Course(p) /\ \A a : Mapped(p, a)' <=> Mapped(p, a)
    BY <1>1 DEF Course, Mapped
  <2>. HIDE DEF Stays
  <2>2. Stays => rip'[p] \in Course(p) /\ (image[p] = "fork" => rip'[p] = OwnCode)
    BY DEF Stays
  <2>3. Hit => image[p] # "fork"
    BY <1>3, PlacesApart DEF Mapped
  <2>4. SoftAddrs(bps)' = SoftAddrs(bps)
    BY <1>1 DEF SoftAddrs, SoftAt, Addrs
  <2>. QED BY <1>0, <1>1, <1>2, <1>3, <1>5, <2>1, <2>2, <2>3, <2>4 DEF PlaceInv, Alive, Waiting
<1>. QED BY <1>7, <1>8, <1>9, <1>10 DEF SoloInv

\* Steps after which no process is alive leave little to prove.
LEMMA NobodyAlive ==
  ASSUME \A q \in Pids : run'[q] \notin {"running", "stopped"}
  PROVE  ImageInv' /\ PlaceInv'
  BY DEF ImageInv, PlaceInv, Alive

LEMMA SoloKilled ==
  ASSUME OneProcess, SessionInv, NEW p \in Pids, ProcessKilled(p) PROVE SoloInv'
<1>0. TypeOK /\ EventInv /\ CurrentInv /\ \A q \in Pids : q = p
  BY DEF SessionInv, TableInv, OneProcess
<1>1. /\ UNCHANGED <<image, text, bps, pid, funs, pc, idx, status, child, dr0>>
      /\ run'[p] = "dead"
  BY <1>0 DEF ProcessKilled, EndWith, debugger, dbug, TypeOK
<1>2. EventInv'
  BY <1>0, <1>1 DEF EventInv
<1>3. CurrentInv'
  BY <1>0, <1>1 DEF CurrentInv, Waiting, Alive
<1>. QED BY <1>0, <1>1, <1>2, <1>3, NobodyAlive DEF SoloInv

\* The debugger is gone, and with it every process it held.
LEMMA SoloEnds ==
  ASSUME OneProcess, SessionInv, NEW K, DebuggerEnds(K),
         UNCHANGED <<image, text, bps, pid, funs>>
  PROVE  SoloInv'
<1>0. TypeOK /\ EventInv /\ CurrentInv
  BY DEF SessionInv, TableInv
<1>1. /\ \A q \in Pids : event'[q] = "none" /\ run'[q] \in {"none", "free", "reaped"}
      /\ \A q \in Pids : run'[q] = "none" => run[q] = "none"
      /\ pc' = "exited"
  BY DEF DebuggerEnds, Waitable
<1>2. EventInv'
  BY <1>1 DEF EventInv
<1>3. CurrentInv'
  BY <1>0, <1>1 DEF CurrentInv, Waiting, Alive
<1>. QED BY <1>1, <1>2, <1>3, NobodyAlive DEF SoloInv

LEMMA SoloNested ==
  ASSUME OneProcess, SessionInv, NEW p \in Pids, Nested(p) PROVE SoloInv'
<1>0. TypeOK /\ EventInv /\ CurrentInv /\ \A q \in Pids : q = p
  BY DEF SessionInv, TableInv, OneProcess
<1>1. CASE NestedContinues(p) \/ NestedQuits(p)
  <2>1. /\ UNCHANGED <<image, text, bps, pid, funs, pc, child>>
        /\ run'[p] = "dead"
    BY <1>0, <1>1 DEF NestedContinues, NestedQuits, EndWith, debugger, dbug, TypeOK
  <2>2. EventInv'
    BY <1>0, <2>1 DEF EventInv
  <2>3. CurrentInv'
    BY <1>0, <2>1 DEF CurrentInv, Waiting, Alive
  <2>. QED BY <1>0, <2>1, <2>2, <2>3, NobodyAlive DEF SoloInv
<1>2. CASE NestedKillsGroup(p)
  BY <1>2, SoloEnds DEF NestedKillsGroup, debugger, dbug
<1>3. CASE NestedCalls(p)
  <2>1. /\ UNCHANGED <<run, image, event, cause, text, step, pc, pid, funs, bps, idx, status>>
        /\ run[p] = "running" /\ image[p] = "main" /\ rip[p] = OwnCode /\ rip'[p] = WildAddr
    BY <1>0, <1>3 DEF NestedCalls, InMainLoop, debugger, dbug, TypeOK
  <2>2. ImageInv /\ PlaceInv
    BY DEF SessionInv
  <2>3. EventInv' /\ CurrentInv'
    BY <1>0, <2>1 DEF EventInv, CurrentInv, Waiting, Alive
  <2>4. ImageInv'
    BY <2>1, <2>2, ImageKept, PlantedKept, MappedKept DEF Alive
  <2>5. pc # "stepwait"
    BY <1>0, <2>1, <2>2, PlacesApart DEF PlaceInv, Mapped
  <2>6. PlaceInv'
    BY <1>0, <2>1, <2>2, <2>5 DEF PlaceInv, Alive, Waiting, Course
  <2>. QED BY <2>3, <2>4, <2>6 DEF SoloInv
<1>. QED BY <1>1, <1>2, <1>3 DEF Nested

LEMMA SoloLaunch ==
  ASSUME OneProcess, SessionInv, NEW p \in Pids, Launch(p) PROVE SoloInv'
<1>0. /\ TypeOK /\ EventInv /\ CurrentInv /\ ImageInv /\ PlaceInv
      /\ \A q \in Pids : q = p
  BY DEF SessionInv, TableInv, OneProcess
<1>1. UNCHANGED <<bps, pid, funs, pc, idx, status, regs>>
  BY DEF Launch, ExecSucceeds, ExecFails, AttachStops, debugger, dbug
<1>2. \A a : Planted(a)' <=> Planted(a)
  BY <1>1, PlantedKept
<1>3. CASE ExecSucceeds(p)
  <2>1. /\ run[p] = "running" /\ image[p] = "fork" /\ rip[p] = OwnCode
        /\ run'[p] = "stopped" /\ event'[p] = "trap" /\ cause'[p] = "exec"
        /\ image'[p] = "program" /\ rip'[p] = Entry
        /\ \A a \in Addrs : text'[p][a] = "insn"
    BY <1>0, <1>3 DEF ExecSucceeds, StopWith, TypeOK
  <2>2. /\ pc = "contwait" \/ Waiting
        /\ pc = "contwait" => pid = p /\ funs = "self"
        /\ Waiting => pid = NoPid /\ funs = "none"
    <3>1. pc # "stepwait"
      BY <1>0, <2>1, PlacesApart DEF PlaceInv, Mapped
    <3>2. Alive(p)
      BY <2>1 DEF Alive
    <3>. QED BY <1>0, <2>1, <3>1, <3>2, Running DEF CurrentInv, Waiting
  <2>3. \A i \in DOMAIN bps : bps[i].type = "SF" => bps[i].addr \notin Instr
    BY <1>0, <2>2, PlacesApart DEF CurrentInv, Waiting
  <2>4. EventInv'
    BY <1>0, <2>1 DEF EventInv
  <2>5. CurrentInv'
    BY <1>0, <1>1, <2>1, <2>2, ProcessAssumption DEF CurrentInv, Waiting, Alive
  <2>6. ImageInv'
    <3>1. \A a : Mapped(p, a)' <=> a \in Instr
      BY <2>1 DEF Mapped
    <3>2. \A a \in Instr : ~Planted(a)
      BY <2>3 DEF Planted, SoftAt
    <3>3. \A i \in DOMAIN bps : FirstSoftAt(bps, i, bps[i].addr) => bps[i].type = "SF"
      BY DEF FirstSoftAt, SoftAt
    <3>. QED BY <1>0, <1>1, <1>2, <2>1, <2>3, <3>1, <3>2, <3>3 DEF ImageInv
  <2>7. PlaceInv'
    BY <1>0, <1>1, <2>1, <2>2, ImageAssumption DEF PlaceInv, Alive, Waiting, Course
  <2>. QED BY <2>4, <2>5, <2>6, <2>7 DEF SoloInv
<1>4. CASE ExecFails(p)
  <2>1. /\ UNCHANGED <<run, event, cause, text, step, rip>>
        /\ run[p] = "running" /\ image[p] = "fork" /\ rip[p] = OwnCode /\ image'[p] = "main"
    BY <1>0, <1>4 DEF ExecFails, TypeOK
  <2>2. \A a : Mapped(p, a)' <=> Mapped(p, a)
    BY <2>1 DEF Mapped
  <2>3. EventInv' /\ CurrentInv'
    BY <1>0, <1>1, <2>1 DEF EventInv, CurrentInv, Waiting, Alive
  <2>4. ImageInv'
    BY <1>0, <1>1, <1>2, <2>1, <2>2, ImageKept DEF Alive
  <2>5. PlaceInv'
    <3>1. Course(p)' = Course(p)
      BY <2>1 DEF Course
    <3>. QED BY <1>0, <1>1, <2>1, <2>2, <3>1 DEF PlaceInv, Alive, Waiting
  <2>. QED BY <2>3, <2>4, <2>5 DEF SoloInv
<1>5. CASE AttachStops(p)
  <2>1. /\ UNCHANGED <<image, text>> /\ run[p] = "attaching"
        /\ run'[p] = "stopped" /\ event'[p] = "signal" /\ cause'[p] = "signal"
        /\ rip'[p] \in Instr
    BY <1>0, <1>5 DEF AttachStops, StopWith, TypeOK
  <2>2. pid = NoPid /\ Waiting /\ image[p] = "program" /\ funs = "none"
    BY <1>0, <2>1 DEF CurrentInv
  <2>3. EventInv' /\ CurrentInv'
    BY <1>0, <1>1, <2>1, <2>2 DEF EventInv, CurrentInv, Waiting, Alive
  <2>4. ImageInv'
    <3>1. /\ \A i \in DOMAIN bps : bps[i].type # "SF"
          /\ \A q \in Pids : \A a \in Addrs : text[q][a] = "insn"
      BY <1>0, <2>2 DEF CurrentInv
    <3>. QED BY <1>1, <2>1, <3>1 DEF ImageInv, Planted, FirstSoftAt, SoftAt
  <2>5. PlaceInv'
    BY <1>0, <1>1, <2>1, <2>2 DEF PlaceInv, Alive, Waiting, Course
  <2>. QED BY <2>3, <2>4, <2>5 DEF SoloInv
<1>. QED BY <1>3, <1>4, <1>5 DEF Launch

LEMMA SoloContinueReturns ==
  ASSUME OneProcess, SessionInv, NEW p \in Pids, ContinueSeesExit \/ ContinueSeesStop
  PROVE  SoloInv'
<1>0. /\ TypeOK /\ EventInv /\ CurrentInv /\ ImageInv /\ PlaceInv
      /\ \A q \in Pids : q = p
  BY DEF SessionInv, TableInv, OneProcess
<1>1. CASE ContinueSeesExit
  BY <1>1, SoloEnds DEF ContinueSeesExit
<1>2. CASE ContinueSeesStop
  <2>1. /\ UNCHANGED <<image, text, bps, pid, funs, child, idx, cause, rip, regs>>
        /\ pc = "contwait" /\ pc' = "gotstop"
    BY <1>2 DEF ContinueSeesStop
  <2>2. \/ /\ event'[p] = "none" /\ event[p] # "none" /\ status' = event[p]
           /\ run'[p] = IF run[p] = "dead" THEN "reaped" ELSE run[p]
        \/ ~Waitable(p) /\ UNCHANGED <<run, event>>
    BY <1>0, <1>2 DEF ContinueSeesStop, Collect, NoChild, TypeOK
  <2>3. EventInv'
    BY <1>0, <2>2 DEF EventInv
  <2>8. run'[p] = run[p] \/ (run[p] = "dead" /\ run'[p] = "reaped")
    BY <2>2
  <2>9. ~Waiting /\ ~Waiting'
    BY <2>1 DEF Waiting
  <2>4. CurrentInv'
    BY <1>0, <2>1, <2>8, <2>9 DEF CurrentInv, Alive
  <2>5. run'[p] \in {"running", "stopped"} => Alive(p)
    BY <2>2 DEF Alive
  <2>6. ImageInv'
    BY <1>0, <2>1, <2>5, ImageKept, PlantedKept, MappedKept
  <2>7. PlaceInv'
    <3>1. Course(p)' = Course(p) /\ \A a : Mapped(p, a)' <=> Mapped(p, a)
      BY <2>1 DEF Course, Mapped
    <3>2. SoftAddrs(bps)' = SoftAddrs(bps)
      BY <2>1 DEF SoftAddrs, SoftAt, Addrs
    <3>. QED BY <1>0, <2>1, <2>2, <3>1, <3>2 DEF PlaceInv, EventInv, Alive, Waitable
  <2>. QED BY <2>3, <2>4, <2>6, <2>7 DEF SoloInv
<1>. QED BY <1>1, <1>2

LEMMA SoloOtherStop ==
  ASSUME OneProcess, SessionInv, NEW p \in Pids, OtherStop PROVE SoloInv'
<1>0. /\ TypeOK /\ EventInv /\ CurrentInv /\ ImageInv /\ PlaceInv
      /\ \A q \in Pids : q = p
  BY DEF SessionInv, TableInv, OneProcess
<1>1. /\ UNCHANGED <<image, text, bps, pid, funs, child, idx, status, run, event, cause,
                     rip, step>>
      /\ pc = "gotstop" /\ pc' = "prompt"
  BY DEF OtherStop, kernel
<1>2. Alive(p) => run[p] = "stopped" /\ pid = p /\ FetchedRip = rip[p]
  BY <1>0, <1>1 DEF CurrentInv, PlaceInv, Alive, FetchedRip, Traced, Waiting
<1>3. Alive(p) => cause[p] # "int3"
  BY <1>0, <1>1, <1>2 DEF OtherStop, PlaceInv, SoftAddrs
<1>4. EventInv'
  BY <1>0, <1>1 DEF EventInv
<1>5. CurrentInv'
  BY <1>0, <1>1 DEF CurrentInv, Waiting, Alive
<1>6. ImageInv'
  BY <1>0, <1>1, ImageKept, PlantedKept, MappedKept DEF Alive
<1>7. PlaceInv'
  <2>1. Course(p)' = Course(p)
    BY <1>1 DEF Course
  <2>. QED BY <1>0, <1>1, <1>2, <1>3, <2>1 DEF PlaceInv, Alive
<1>. QED BY <1>4, <1>5, <1>6, <1>7 DEF SoloInv

\* What stopped a process that is taken to be behind a breakpoint is INT3.
LEMMA HitIsReal ==
  ASSUME OneProcess, NoWatchBehindSymbol, SessionInv, NEW p \in Pids,
         pc = "gotstop", status = "trap", Alive(p),
         NEW i \in DOMAIN bps, FirstSoftAt(bps, i, FetchedRip - 1)
  PROVE  /\ pid = p /\ run[p] = "stopped" /\ cause[p] = "int3"
         /\ bps[i].type = "SF" /\ bps[i].addr = rip[p] - 1 /\ Mapped(p, bps[i].addr)
<1>0. TypeOK /\ CurrentInv /\ PlaceInv
  BY DEF SessionInv, TableInv
<1>1. pid = p /\ run[p] = "stopped" /\ FetchedRip = rip[p] /\ rip[p] \in Places
  BY <1>0 DEF CurrentInv, PlaceInv, Alive, FetchedRip, Traced, TypeOK, Waiting
<1>2. bps[i].type = "SF" /\ bps[i].addr = rip[p] - 1
  BY <1>1 DEF FirstSoftAt, SoftAt
<1>8. bps[i].addr + 1 = rip[p]
  BY <1>1, <1>2 DEF Places, OwnCode
<1>3. \/ funs = "image" /\ bps[i].addr \in Syms
      \/ funs = "self" /\ bps[i].addr = WildAddr
  BY <1>0, <1>2 DEF CurrentInv, TypeOK
<1>4. rip[p] \notin WatchAddrs
  BY <1>8, <1>3, ImageAssumption DEF NoWatchBehindSymbol
<1>5. cause[p] # "exec"
  <2>. SUFFICES ASSUME cause[p] = "exec" PROVE FALSE
    OBVIOUS
  <2>1. image[p] = "program" /\ funs = "self" /\ rip[p] \in Course(p)
    BY <1>0, <1>1 DEF PlaceInv, Alive
  <2>. QED BY <2>1, <1>8, <1>3, PlacesApart DEF Course
<1>6. cause[p] = "int3"
  BY <1>0, <1>1, <1>4, <1>5 DEF PlaceInv
<1>7. Mapped(p, bps[i].addr)
  BY <1>0, <1>2, <1>6 DEF PlaceInv
<1>. QED BY <1>1, <1>2, <1>6, <1>7

LEMMA SoloHit ==
  ASSUME OneProcess, NoWatchBehindSymbol, SessionInv, NEW p \in Pids, HitFound
  PROVE  SoloInv'
<1>0. /\ TypeOK /\ EventInv /\ CurrentInv /\ ImageInv /\ PlaceInv
      /\ \A q \in Pids : q = p
  BY DEF SessionInv, TableInv, OneProcess
<1>1. PICK i \in DOMAIN bps : FirstSoftAt(bps, i, FetchedRip - 1) /\ idx' = i
  BY DEF HitFound
<1>2. /\ UNCHANGED <<run, image, event, cause, rip, text, step, pid, funs, bps, status>>
      /\ pc = "gotstop" /\ status = "trap" /\ pc' = "hit"
  BY DEF HitFound, kernel
<1>3. Alive(p) => /\ run[p] = "stopped" /\ cause[p] = "int3"
                  /\ bps[i].addr = rip[p] - 1 /\ Mapped(p, rip[p] - 1)
  BY <1>1, <1>2, HitIsReal
<1>4. EventInv' /\ CurrentInv'
  BY <1>0, <1>2 DEF EventInv, CurrentInv, Waiting, Alive
<1>5. ImageInv'
  <2>1. \A a : Planted(a)' <=> Planted(a)
    BY <1>2 DEF Planted, Lifted, SoftAt
  <2>. QED BY <1>0, <1>2, <2>1, ImageKept, MappedKept DEF Alive
<1>6. PlaceInv'
  <2>1. Course(p)' = Course(p) /\ \A a : Mapped(p, a)' <=> Mapped(p, a)
    BY <1>2 DEF Course, Mapped
  <2>2. SoftAddrs(bps)' = SoftAddrs(bps)
    BY <1>2 DEF SoftAddrs, SoftAt, Addrs
  <2>. QED BY <1>0, <1>1, <1>2, <1>3, <2>1, <2>2 DEF PlaceInv, Alive
<1>. QED BY <1>4, <1>5, <1>6 DEF SoloInv

\* Between two requests a live process is the current one, and stopped.
LEMMA StoppedBetween ==
  ASSUME OneProcess, SessionInv, NEW p \in Pids, Alive(p),
         pc \in BetweenRequests \ {"stepwait"}
  PROVE  /\ pid = p /\ run[p] = "stopped" /\ Traced(pid)
         /\ idx \in DOMAIN bps /\ bps[idx].type = "SF" /\ bps[idx].addr \in Addrs
         /\ bps[idx].addr \in SoftAddrs(bps)
         /\ pc # "inserting" => FirstSoftAt(bps, idx, bps[idx].addr)
<1>0. TypeOK /\ CurrentInv /\ PlaceInv /\ StepsOverEntry
  BY DEF SessionInv, TableInv
<1>1. pid = p /\ run[p] = "stopped"
  BY <1>0 DEF CurrentInv, PlaceInv, Alive, Waiting, BetweenRequests
<1>2. /\ idx \in DOMAIN bps /\ bps[idx].type = "SF"
      /\ pc # "inserting" => FirstSoftAt(bps, idx, bps[idx].addr)
  BY <1>0 DEF StepsOverEntry
<1>3. bps[idx] \in Breakpoints
  BY <1>0, <1>2 DEF TypeOK
<1>. QED BY <1>1, <1>2, <1>3 DEF Traced, Breakpoints, SoftAddrs, SoftAt

LEMMA SoloRestore ==
  ASSUME OneProcess, SessionInv, NEW p \in Pids, RestoreByte PROVE SoloInv'
<1>0. /\ TypeOK /\ EventInv /\ CurrentInv /\ ImageInv /\ PlaceInv
      /\ \A q \in Pids : q = p
  BY DEF SessionInv, TableInv, OneProcess
<1>1. /\ UNCHANGED <<run, image, event, cause, rip, step, pid, funs, bps, idx, status>>
      /\ pc = "hit" /\ pc' = "restored" /\ regs' = bps[idx].addr
      /\ write_pro_mem(bps[idx].addr, bps[idx].orig)
  BY DEF RestoreByte
<1>2. EventInv'
  BY <1>0, <1>1 DEF EventInv
<1>3. CASE Alive(p)
  <2>1. /\ pid = p /\ run[p] = "stopped" /\ Traced(pid)
        /\ idx \in DOMAIN bps /\ bps[idx].addr \in Addrs
        /\ FirstSoftAt(bps, idx, bps[idx].addr)
    BY <1>1, <1>3, StoppedBetween DEF BetweenRequests
  <2>2. cause[p] = "int3" /\ rip[p] - 1 = bps[idx].addr /\ Mapped(p, bps[idx].addr)
    BY <1>0, <1>1, <1>3, <2>1 DEF PlaceInv
  <2>3. bps[idx].orig = "insn"
    BY <1>0, <1>3, <2>1, <2>2 DEF ImageInv
  <2>4. \A a \in Addrs : text'[p][a] = IF a = bps[idx].addr THEN "insn" ELSE text[p][a]
    BY <1>0, <1>1, <2>1, <2>2, <2>3 DEF write_pro_mem, PutByte, TypeOK
  <2>5. CurrentInv'
    BY <1>0, <1>1, <1>3, <2>1, ProcessAssumption DEF CurrentInv, Waiting, Alive
  <2>6. ImageInv'
    <3>1. \A a : Planted(a)' <=> Planted(a) /\ a # bps[idx].addr
      BY <1>1 DEF Planted, Lifted, SoftAt
    <3>2. \A a : Mapped(p, a)' <=> Mapped(p, a)
      BY <1>1, MappedKept
    <3>. QED BY <1>0, <1>1, <1>3, <2>4, <3>1, <3>2 DEF ImageInv, Alive
  <2>7. PlaceInv'
    <3>1. Course(p)' = Course(p) /\ \A a : Mapped(p, a)' <=> Mapped(p, a)
      BY <1>1 DEF Course, Mapped
    <3>2. SoftAddrs(bps)' = SoftAddrs(bps)
      BY <1>1 DEF SoftAddrs, SoftAt, Addrs
    <3>. QED BY <1>0, <1>1, <2>1, <2>2, <3>1, <3>2 DEF PlaceInv, Alive
  <2>. QED BY <1>2, <2>5, <2>6, <2>7 DEF SoloInv
<1>4. CASE ~Alive(p)
  <2>1. UNCHANGED text
    BY <1>0, <1>1, <1>4 DEF write_pro_mem, PutByte, Traced, Alive
  <2>2. CurrentInv'
    BY <1>0, <1>1, <1>4, <2>1 DEF CurrentInv, Waiting, Alive
  <2>. QED BY <1>0, <1>1, <1>2, <1>4, <2>2, NobodyAlive DEF SoloInv, Alive
<1>. QED BY <1>3, <1>4

LEMMA SoloSetRegs ==
  ASSUME OneProcess, SessionInv, NEW p \in Pids, SetRegs PROVE SoloInv'
<1>0. /\ TypeOK /\ EventInv /\ CurrentInv /\ ImageInv /\ PlaceInv
      /\ \A q \in Pids : q = p
  BY DEF SessionInv, TableInv, OneProcess
<1>1. /\ UNCHANGED <<run, image, event, text, step, pid, funs, bps, idx, status, regs>>
      /\ pc = "restored" /\ pc' = "rewound"
  BY DEF SetRegs, dbug
<1>2. EventInv' /\ CurrentInv'
  <2>1. Alive(p) => pid = p
    BY <1>1, StoppedBetween DEF BetweenRequests
  <2>. QED BY <1>0, <1>1, <2>1, ProcessAssumption DEF EventInv, CurrentInv, Waiting, Alive
<1>3. ImageInv'
  BY <1>0, <1>1, ImageKept, PlantedKept, MappedKept DEF Alive
<1>4. PlaceInv'
  <2>1. CASE Alive(p)
    <3>1. pid = p /\ run[p] = "stopped" /\ Traced(pid)
      BY <1>1, <2>1, StoppedBetween DEF BetweenRequests
    <3>2. rip'[p] = regs /\ cause'[p] = "none"
      BY <1>0, <3>1 DEF SetRegs, TypeOK
    <3>3. regs = bps[idx].addr /\ Mapped(p, regs)
      BY <1>0, <1>1, <2>1, <3>1 DEF PlaceInv
    <3>4. regs \in Course(p) /\ regs # OwnCode
      BY <3>3, PlacesApart DEF Mapped, Course
    <3>5. Course(p)' = Course(p) /\ \A a : Mapped(p, a)' <=> Mapped(p, a)
      BY <1>1 DEF Course, Mapped
    <3>6. image[p] # "fork" \/ rip[p] = OwnCode
      BY <1>0, <3>1 DEF PlaceInv
    <3>7. image[p] # "fork"
      BY <1>0, <1>1, <2>1, <3>1, <3>6, PlacesApart DEF PlaceInv, Mapped, OwnCode
    <3>. QED BY <1>0, <1>1, <3>1, <3>2, <3>3, <3>4, <3>5, <3>7 DEF PlaceInv, Alive
  <2>2. CASE ~Alive(p)
    BY <1>0, <1>1, <2>2, NobodyAlive DEF Alive
  <2>. QED BY <2>1, <2>2
<1>. QED BY <1>2, <1>3, <1>4 DEF SoloInv

LEMMA SoloStartStep ==
  ASSUME OneProcess, SessionInv, NEW p \in Pids, StartStep PROVE SoloInv'
<1>0. /\ TypeOK /\ EventInv /\ CurrentInv /\ ImageInv /\ PlaceInv
      /\ \A q \in Pids : q = p
  BY DEF SessionInv, TableInv, OneProcess
<1>1. /\ UNCHANGED <<image, text, rip, pid, funs, bps, idx, status, regs>>
      /\ pc = "rewound" /\ pc' = "stepwait" /\ ResumeIf(Traced(pid), TRUE)
  BY DEF StartStep, Resume, dbug
<1>2. CASE Alive(p)
  <2>1. pid = p /\ run[p] = "stopped" /\ Traced(pid)
    BY <1>1, <1>2, StoppedBetween DEF BetweenRequests
  <2>2. rip[p] = bps[idx].addr /\ Mapped(p, rip[p]) /\ rip[p] \in Course(p)
    BY <1>0, <1>1, <1>2, <2>1 DEF PlaceInv, Course, Mapped
  <2>3. /\ run'[p] = "running" /\ event'[p] = "none" /\ cause'[p] = "none"
        /\ step'[p] = TRUE
    BY <1>0, <1>1, <2>1 DEF ResumeIf, TypeOK
  <2>4. EventInv' /\ CurrentInv'
    BY <1>0, <1>1, <1>2, <2>1, <2>3, ProcessAssumption DEF EventInv, CurrentInv, Waiting, Alive
  <2>5. ImageInv'
    BY <1>0, <1>1, <1>2, ImageKept, PlantedKept, MappedKept
  <2>6. PlaceInv'
    <3>1. Course(p)' = Course(p) /\ \A a : Mapped(p, a)' <=> Mapped(p, a)
      BY <1>1 DEF Course, Mapped
    <3>. QED BY <1>0, <1>1, <2>1, <2>2, <2>3, <3>1 DEF PlaceInv, Alive, Waiting
  <2>. QED BY <2>4, <2>5, <2>6 DEF SoloInv
<1>3. CASE ~Alive(p)
  <2>1. UNCHANGED <<run, event>>
    BY <1>0, <1>1, <1>3 DEF ResumeIf, Traced, Alive
  <2>2. EventInv' /\ CurrentInv'
    BY <1>0, <1>1, <1>3, <2>1 DEF EventInv, CurrentInv, Waiting, Alive
  <2>. QED BY <1>0, <1>3, <2>1, <2>2, NobodyAlive DEF SoloInv, Alive
<1>. QED BY <1>2, <1>3

LEMMA SoloStepWait ==
  ASSUME OneProcess, SessionInv, NEW p \in Pids, StepWaitReturns PROVE SoloInv'
<1>0. /\ TypeOK /\ EventInv /\ CurrentInv /\ ImageInv /\ PlaceInv
      /\ \A q \in Pids : q = p
  BY DEF SessionInv, TableInv, OneProcess
<1>1. /\ UNCHANGED <<image, text, bps, idx, pid, funs, status, regs, cause, rip>>
      /\ pc = "stepwait" /\ pc' = "stepped"
  BY DEF StepWaitReturns, dbug
<1>2. \/ /\ event'[p] = "none" /\ event[p] # "none"
         /\ run'[p] = IF run[p] = "dead" THEN "reaped" ELSE run[p]
      \/ ~Waitable(p) /\ UNCHANGED <<run, event>>
  BY <1>0 DEF StepWaitReturns, Collect, NoChild, TypeOK
<1>3. EventInv'
  BY <1>0, <1>2 DEF EventInv
<1>4. run'[p] \in {"running", "stopped"} => run[p] = "stopped" /\ run'[p] = "stopped"
  BY <1>0, <1>2 DEF EventInv, Waitable
<1>5. CurrentInv'
  <2>1. StepsOverEntry
    BY DEF SessionInv, TableInv
  <2>2. pid # NoPid
    BY <1>0, <1>1, <2>1 DEF StepsOverEntry, BetweenRequests, CurrentInv
  <2>. QED BY <1>0, <1>1, <1>2, <1>4, <2>2 DEF CurrentInv, Waiting, Alive
<1>6. ImageInv'
  BY <1>0, <1>1, <1>4, ImageKept, PlantedKept, MappedKept DEF Alive
<1>7. PlaceInv'
  <2>1. Course(p)' = Course(p)
    BY <1>1 DEF Course
  <2>. QED BY <1>0, <1>1, <1>4, <2>1 DEF PlaceInv, Alive
<1>. QED BY <1>3, <1>5, <1>6, <1>7 DEF SoloInv

LEMMA SoloPlant ==
  ASSUME OneProcess, SessionInv, NEW p \in Pids, RearmInt3 \/ InsertInt3 PROVE SoloInv'
<1>0. /\ TypeOK /\ EventInv /\ CurrentInv /\ ImageInv /\ PlaceInv
      /\ \A q \in Pids : q = p
  BY DEF SessionInv, TableInv, OneProcess
<1>1. /\ UNCHANGED <<run, image, event, cause, rip, step, bps, idx, pid, funs, status, regs>>
      /\ pc \in {"stepped", "inserting"} /\ pc' = "prompt"
      /\ write_pro_mem(bps[idx].addr, "int3")
  BY DEF RearmInt3, InsertInt3, PlantInt3, dbug
<1>2. EventInv'
  BY <1>0, <1>1 DEF EventInv
<1>3. CASE Alive(p)
  <2>1. /\ pid = p /\ run[p] = "stopped" /\ Traced(pid)
        /\ idx \in DOMAIN bps /\ bps[idx].type = "SF" /\ bps[idx].addr \in Addrs
    BY <1>1, <1>3, StoppedBetween DEF BetweenRequests
  <2>2. \A a \in Addrs : text'[p][a] = IF Mapped(p, a) /\ a = bps[idx].addr
                                        THEN "int3" ELSE text[p][a]
    BY <1>0, <1>1, <2>1 DEF write_pro_mem, PutByte, TypeOK
  <2>3. CurrentInv'
    BY <1>0, <1>1, <1>3, <2>1, ProcessAssumption DEF CurrentInv, Waiting, Alive
  <2>4. ImageInv'
    <3>1. \A a : Planted(a)' <=> Planted(a) \/ a = bps[idx].addr
      BY <1>1, <2>1 DEF Planted, Lifted, SoftAt
    <3>2. \A a : Mapped(p, a)' <=> Mapped(p, a)
      BY <1>1, MappedKept
    <3>. QED BY <1>0, <1>1, <1>3, <2>2, <3>1, <3>2 DEF ImageInv, Alive
  <2>5. PlaceInv'
    <3>1. Course(p)' = Course(p)
      BY <1>1 DEF Course
    <3>. QED BY <1>0, <1>1, <1>3, <2>1, <3>1 DEF PlaceInv, Alive
  <2>. QED BY <1>2, <2>3, <2>4, <2>5 DEF SoloInv
<1>4. CASE ~Alive(p)
  <2>1. UNCHANGED text
    BY <1>0, <1>1, <1>4 DEF write_pro_mem, PutByte, Traced, Alive
  <2>2. CurrentInv'
    BY <1>0, <1>1, <1>4, <2>1 DEF CurrentInv, Waiting, Alive
  <2>. QED BY <1>0, <1>1, <1>2, <1>4, <2>2, NobodyAlive DEF SoloInv, Alive
<1>. QED BY <1>3, <1>4

LEMMA SoloStartReturns ==
  ASSUME OneProcess, SessionInv, NEW p \in Pids, LaunchWaitReturns \/ AttachWaitReturns
  PROVE  SoloInv'
<1>0. /\ TypeOK /\ EventInv /\ CurrentInv /\ ImageInv /\ PlaceInv
      /\ \A q \in Pids : q = p
  BY DEF SessionInv, TableInv, OneProcess
<1>1. /\ UNCHANGED <<image, text, bps, child, idx, cause, rip, regs>>
      /\ Waiting /\ pc' = "prompt" /\ pc \in {"launchwait", "attachwait"}
  BY DEF LaunchWaitReturns, AttachWaitReturns, Waiting
<1>2. /\ child = p /\ pid = NoPid /\ funs = "none"
      /\ \A i \in DOMAIN bps : bps[i].type # "SF"
  BY <1>0, <1>1 DEF TypeOK, CurrentInv
<1>3. /\ Collect(p) /\ event[p] # "none"
      /\ IF event[p] = "exited" THEN UNCHANGED <<pid, funs>>
                                ELSE pid' = p /\ funs' = SymbolsOf(p)
  BY <1>0, <1>2 DEF LaunchWaitReturns, AttachWaitReturns, Collect
<1>4. \/ /\ run[p] = "dead" /\ run'[p] = "reaped" /\ funs' = "none"
         /\ pid' = p \/ pid' = NoPid
      \/ /\ run[p] = "stopped" /\ run'[p] = "stopped" /\ pid' = p
         /\ funs' = IF image[p] = "program" THEN "image" ELSE "self"
  BY <1>0, <1>2, <1>3 DEF Collect, EventInv, TypeOK, SymbolsOf, Alive
<1>5. event'[p] = "none"
  BY <1>0, <1>3 DEF Collect, TypeOK
<1>6. EventInv'
  BY <1>0, <1>5 DEF EventInv
<1>7. CurrentInv'
  <2>1. \A q \in Pids : \A a \in Addrs : text[q][a] = "insn"
    BY <1>0, <1>2 DEF CurrentInv
  <2>. QED BY <1>0, <1>1, <1>2, <1>4, <2>1, ProcessAssumption DEF CurrentInv, Waiting, Alive
<1>8. ImageInv'
  BY <1>0, <1>1, <1>4, ImageKept, PlantedKept, MappedKept DEF Alive
<1>9. PlaceInv'
  <2>1. run[p] = "stopped" => cause[p] \in {"exec", "signal"} /\ rip[p] \in Course(p)
    BY <1>0, <1>1, <1>2, ProcessAssumption DEF CurrentInv, PlaceInv, Alive
  <2>2. Course(p)' = Course(p)
    BY <1>1 DEF Course
  <2>. QED BY <1>0, <1>1, <1>4, <2>1, <2>2 DEF PlaceInv, Alive
<1>. QED BY <1>6, <1>7, <1>8, <1>9 DEF SoloInv

LEMMA SoloReturn ==
  ASSUME OneProcess, NoWatchBehindSymbol, SessionInv, NEW p \in Pids, Return
  PROVE  SoloInv'
  BY SoloContinueReturns, SoloOtherStop, SoloHit, SoloRestore, SoloSetRegs, SoloStartStep,
     SoloStepWait, SoloPlant, SoloStartReturns DEF Return

LEMMA SoloBreak ==
  ASSUME OneProcess, SessionInv, NEW p \in Pids, NEW sym \in Syms, command_break(sym)
  PROVE  SoloInv'
<1>0. /\ TypeOK /\ EventInv /\ CurrentInv /\ ImageInv /\ PlaceInv
      /\ \A q \in Pids : q = p
  BY DEF SessionInv, TableInv, OneProcess
<1>. DEFINE b == IF funs = "image" THEN sym ELSE WildAddr
            e == [type |-> "SF", addr |-> b, orig |-> read_pro_mem(b)]
            u == Append(bps, e)
<1>1. /\ UNCHANGED <<run, image, event, cause, rip, text, step, pid, funs, status, regs>>
      /\ pc = "prompt" /\ pc' = "inserting" /\ funs # "none"
      /\ bps' = u /\ idx' = Len(bps) + 1
  BY DEF command_break, kernel
<1>2. b \in Addrs /\ (funs = "image" => b \in Syms) /\ (funs = "self" => b = WildAddr)
  BY ImageAssumption DEF Addrs
<1>3. pid # NoPid
  BY <1>0, <1>1 DEF CurrentInv
<1>4. bps \in Seq(Breakpoints) /\ e \in Breakpoints
  BY <1>0, <1>2 DEF TypeOK, Breakpoints, Addrs, read_pro_mem, Traced, Bytes
<1>5. e.type = "SF" /\ e.addr = b /\ e.orig = read_pro_mem(b)
  OBVIOUS
<1>. HIDE DEF e, b
<1>6. /\ DOMAIN u = 1 .. Len(bps) + 1 /\ DOMAIN bps = 1 .. Len(bps)
      /\ u[Len(bps) + 1] = e /\ Len(bps) \in Nat
      /\ \A i \in DOMAIN bps : u[i] = bps[i]
  BY <1>4
<1>7. \A i : FirstSoftAt(u, i, u[i].addr) =>
               \/ i \in DOMAIN bps /\ u[i] = bps[i] /\ FirstSoftAt(bps, i, bps[i].addr)
               \/ u[i] = e /\ e.addr \notin SoftAddrs(bps)
  BY <1>4, Pushed
<1>. HIDE DEF u
<1>8. Alive(p) => pid = p /\ run[p] = "stopped"
  BY <1>0, <1>1 DEF CurrentInv, PlaceInv, Alive, Waiting
<1>9. EventInv'
  BY <1>0, <1>1 DEF EventInv
<1>10. CurrentInv'
  <2>1. funs \in {"image", "self"}
    BY <1>0, <1>1 DEF TypeOK
  <2>2. \A i \in DOMAIN u : u[i].type = "SF" =>
           u[i].addr \in CASE funs = "none"  -> {}
                             [] funs = "image" -> Syms
                             [] funs = "self"  -> {WildAddr}
    BY <1>0, <1>2, <1>5, <1>6, <2>1 DEF CurrentInv
  <2>. QED BY <1>0, <1>1, <1>3, <2>2 DEF CurrentInv, Waiting, Alive
<1>11. ASSUME Alive(p) PROVE ImageInv' /\ PlaceInv'
  <2>1. \A a : Planted(a)' <=> Planted(a)
    <3>1. \A a : Planted(a)' <=> \E i \in DOMAIN u : SoftAt(u, i, a) /\ i # Len(bps) + 1
      BY <1>1 DEF Planted, Lifted
    <3>2. \A a : Planted(a) <=> \E i \in DOMAIN bps : SoftAt(bps, i, a)
      BY <1>1 DEF Planted, Lifted
    <3>. QED BY <1>6, <3>1, <3>2 DEF SoftAt
  <2>2. \A a : Mapped(p, a)' <=> Mapped(p, a)
    BY <1>1, MappedKept
  <2>3. ASSUME b \notin SoftAddrs(bps), Mapped(p, b) PROVE e.orig = "insn"
    <3>1. ~Planted(b)
      BY <1>2, <2>3 DEF Planted, SoftAddrs
    <3>. QED BY <1>0, <1>2, <1>5, <1>8, <1>11, <2>3, <3>1
             DEF read_pro_mem, Traced, ImageInv
  <2>4. \A i : FirstSoftAt(u, i, u[i].addr) /\ Mapped(p, u[i].addr) => u[i].orig = "insn"
    <3>1. \A i \in DOMAIN bps : FirstSoftAt(bps, i, bps[i].addr) /\ Mapped(p, bps[i].addr)
                                  => bps[i].orig = "insn"
      BY <1>0, <1>11 DEF ImageInv
    <3>. QED BY <1>5, <1>7, <2>3, <3>1
  <2>5. ImageInv'
    BY <1>0, <1>1, <1>11, <2>1, <2>2, <2>4 DEF ImageInv, Alive
  <2>6. PlaceInv'
    <3>1. Course(p)' = Course(p)
      BY <1>1 DEF Course
    <3>. QED BY <1>0, <1>1, <1>8, <1>11, <3>1 DEF PlaceInv, Alive
  <2>. QED BY <2>5, <2>6
<1>12. ASSUME ~Alive(p) PROVE ImageInv' /\ PlaceInv'
  BY <1>0, <1>1, <1>12, NobodyAlive DEF Alive
<1>. QED BY <1>9, <1>10, <1>11, <1>12 DEF SoloInv

LEMMA SoloWatch ==
  ASSUME OneProcess, SessionInv, NEW p \in Pids, NEW a \in WatchAddrs, command_watch(a)
  PROVE  SoloInv'
<1>0. /\ TypeOK /\ EventInv /\ CurrentInv /\ ImageInv /\ PlaceInv
      /\ \A q \in Pids : q = p
  BY DEF SessionInv, TableInv, OneProcess
<1>. DEFINE e == [type |-> "HW", addr |-> a, orig |-> "junk"]
            u == Append(bps, e)
<1>1. /\ UNCHANGED <<run, image, event, cause, rip, text, pid, funs, child, idx, status,
                     pc, step, regs>>
      /\ pc = "prompt" /\ bps' = u
  BY DEF command_watch
<1>3. bps \in Seq(Breakpoints) /\ e \in Breakpoints
  BY <1>0, ImageAssumption DEF TypeOK, Breakpoints, Addrs, Bytes
<1>4. e.type = "HW"
  OBVIOUS
<1>. HIDE DEF e
<1>5. /\ DOMAIN u = 1 .. Len(bps) + 1 /\ DOMAIN bps = 1 .. Len(bps)
      /\ u[Len(bps) + 1] = e /\ Len(bps) \in Nat
      /\ \A i \in DOMAIN bps : u[i] = bps[i]
  BY <1>3
<1>6. \A i : FirstSoftAt(u, i, u[i].addr) =>
               \/ i \in DOMAIN bps /\ u[i] = bps[i] /\ FirstSoftAt(bps, i, bps[i].addr)
               \/ u[i] = e /\ e.addr \notin SoftAddrs(bps)
  BY <1>3, Pushed
<1>. HIDE DEF u
<1>7. EventInv'
  BY <1>0, <1>1 DEF EventInv
<1>8. CurrentInv'
  <2>1. \A i \in DOMAIN u : \/ u[i].type = "HW"
                            \/ i \in DOMAIN bps /\ u[i] = bps[i]
    BY <1>5, <1>4
  <2>2. \A i \in DOMAIN u : u[i].type = "SF" =>
           u[i].addr \in CASE funs = "none"  -> {}
                             [] funs = "image" -> Syms
                             [] funs = "self"  -> {WildAddr}
    <3>1. funs \in {"none", "image", "self"}
      BY <1>0 DEF TypeOK
    <3>. QED BY <1>0, <2>1, <3>1 DEF CurrentInv
  <2>. QED BY <1>0, <1>1, <2>2 DEF CurrentInv, Waiting, Alive
<1>9. ImageInv'
  <2>1. \A b : Planted(b)' <=> Planted(b)
    <3>1. \A b : Planted(b)' <=> \E i \in DOMAIN u : SoftAt(u, i, b)
      BY <1>1 DEF Planted, Lifted
    <3>2. \A b : Planted(b) <=> \E i \in DOMAIN bps : SoftAt(bps, i, b)
      BY <1>1 DEF Planted, Lifted
    <3>. QED BY <1>4, <1>5, <3>1, <3>2 DEF SoftAt
  <2>2. \A b : Mapped(p, b)' <=> Mapped(p, b)
    BY <1>1, MappedKept
  <2>3. \A i : FirstSoftAt(u, i, u[i].addr) =>
                  i \in DOMAIN bps /\ u[i] = bps[i] /\ FirstSoftAt(bps, i, bps[i].addr)
    BY <1>4, <1>6 DEF FirstSoftAt, SoftAt
  <2>. QED BY <1>0, <1>1, <2>1, <2>2, <2>3 DEF ImageInv, Alive
<1>10. PlaceInv'
  <2>1. Course(p)' = Course(p)
    BY <1>1 DEF Course
  <2>2. Alive(p) => run[p] = "stopped" /\ cause[p] # "int3"
    BY <1>0, <1>1 DEF CurrentInv, PlaceInv, Alive, Waiting
  <2>. QED BY <1>0, <1>1, <2>1, <2>2 DEF PlaceInv, Alive
<1>. QED BY <1>7, <1>8, <1>9, <1>10 DEF SoloInv

LEMMA SoloCommand ==
  ASSUME OneProcess, SessionInv, NEW p \in Pids, Command PROVE SoloInv'
<1>0. /\ TypeOK /\ EventInv /\ CurrentInv /\ ImageInv /\ PlaceInv
      /\ \A q \in Pids : q = p
  BY DEF SessionInv, TableInv, OneProcess
<1>1. CASE command_showreg
  <2>1. /\ UNCHANGED <<kernel, pc, pid, funs, bps, idx, status, child>>
        /\ pc = "prompt"
    BY <1>1 DEF command_showreg
  <2>2. \A a : Planted(a)' <=> Planted(a)
    BY <2>1, PlantedKept
  <2>3. EventInv' /\ CurrentInv'
    BY <1>0, <2>1 DEF EventInv, CurrentInv, Waiting, Alive, kernel
  <2>4. ImageInv'
    BY <1>0, <2>1, <2>2, ImageKept, MappedKept DEF Alive, kernel
  <2>5. PlaceInv'
    <3>1. Course(p)' = Course(p)
      BY <2>1 DEF Course, kernel
    <3>2. Alive(p) => run[p] = "stopped" /\ cause[p] # "int3"
      BY <1>0, <2>1 DEF CurrentInv, PlaceInv, Alive, Waiting
    <3>3. UNCHANGED <<run, image, event, cause, rip, step>>
      BY <2>1 DEF kernel
    <3>. QED BY <1>0, <2>1, <3>1, <3>2, <3>3 DEF PlaceInv, Alive
  <2>. QED BY <2>3, <2>4, <2>5 DEF SoloInv
<1>2. CASE command_continue
  <2>1. /\ UNCHANGED <<image, text, bps, pid, funs, child, idx, status, rip>>
        /\ pc = "prompt" /\ pc' = "contwait"
    BY <1>2 DEF command_continue, dbug
  <2>2. Alive(p) => /\ pid = p /\ run[p] = "stopped" /\ cause[p] # "int3"
                    /\ rip[p] \in Course(p)
    BY <1>0, <2>1 DEF CurrentInv, PlaceInv, Alive, Waiting
  <2>3. CASE Alive(p)
    <3>1. /\ run'[p] = "running" /\ event'[p] = "none" /\ cause'[p] = "none"
          /\ step'[p] = FALSE
      BY <1>0, <1>2, <2>2, <2>3 DEF command_continue, Resume, ResumeIf, Traced, TypeOK
    <3>2. EventInv'
      BY <1>0, <3>1 DEF EventInv
    <3>3. CurrentInv'
      BY <1>0, <2>1, <2>2, <2>3, <3>1, ProcessAssumption DEF CurrentInv, Waiting, Alive
    <3>4. ImageInv'
      BY <1>0, <2>1, <2>3, ImageKept, PlantedKept, MappedKept
    <3>5. PlaceInv'
      <4>1. Course(p)' = Course(p) /\ \A a : Mapped(p, a)' <=> Mapped(p, a)
        BY <2>1 DEF Course, Mapped
      <4>. QED BY <1>0, <2>1, <2>2, <2>3, <3>1, <4>1 DEF PlaceInv, Alive, Waiting
    <3>. QED BY <3>2, <3>3, <3>4, <3>5 DEF SoloInv
  <2>4. CASE ~Alive(p)
    <3>1. UNCHANGED <<run, event>>
      BY <1>0, <1>2, <2>4 DEF command_continue, Resume, ResumeIf, Traced, Alive
    <3>2. EventInv' /\ CurrentInv'
      BY <1>0, <2>1, <2>4, <3>1 DEF EventInv, CurrentInv, Waiting, Alive
    <3>. QED BY <1>0, <2>4, <3>1, <3>2, NobodyAlive DEF SoloInv, Alive
  <2>. QED BY <2>3, <2>4
<1>3. ASSUME NEW q \in Pids, command_dbug(q) PROVE SoloInv'
  <2>1. /\ UNCHANGED <<image, text, bps, pid, funs, event, idx>>
        /\ pc = "prompt" /\ pc' = "launchwait" /\ q = p
        /\ run[p] = "none" /\ run'[p] = "running"
        /\ rip'[p] = OwnCode /\ cause'[p] = "none" /\ step'[p] = FALSE
    BY <1>0, <1>3 DEF command_dbug, dbug, TypeOK
  <2>2. pid = NoPid /\ image[p] = "fork" /\ funs = "none"
    BY <1>0, <2>1 DEF CurrentInv
  <2>6. EventInv'
    BY <1>0, <2>1 DEF EventInv
  <2>3. CurrentInv'
    BY <1>0, <2>1, <2>2, ProcessAssumption DEF CurrentInv, Waiting, Alive
  <2>4. ImageInv'
    <3>1. /\ \A i \in DOMAIN bps : bps[i].type # "SF"
          /\ \A r \in Pids : \A a \in Addrs : text[r][a] = "insn"
      BY <1>0, <2>2 DEF CurrentInv
    <3>. QED BY <2>1, <3>1 DEF ImageInv, Planted, FirstSoftAt, SoftAt
  <2>5. PlaceInv'
    BY <1>0, <2>1, <2>2 DEF PlaceInv, Alive, Waiting, Course
  <2>. QED BY <2>3, <2>4, <2>5, <2>6 DEF SoloInv
<1>4. ASSUME NEW q \in Pids, command_attach(q) PROVE SoloInv'
  <2>1. /\ UNCHANGED <<image, text, bps, pid, funs, event>>
        /\ pc = "prompt" /\ pc' = "attachwait" /\ q = p
        /\ run[p] = "free" /\ run'[p] = "attaching"
    BY <1>0, <1>4 DEF command_attach, dbug, TypeOK
  <2>2. pid = NoPid /\ image[p] = "program"
    BY <1>0, <2>1 DEF CurrentInv
  <2>3. EventInv' /\ CurrentInv'
    BY <1>0, <2>1, <2>2 DEF EventInv, CurrentInv, Waiting, Alive
  <2>. QED BY <1>0, <2>1, <2>3, NobodyAlive DEF SoloInv
<1>5. CASE command_exit
  BY <1>5, SoloEnds DEF command_exit, dbug
<1>. QED BY <1>1, <1>2, <1>3, <1>4, <1>5, SoloBreak, SoloWatch DEF Command

LEMMA SessionInit == Init => SessionInv
<1>. SUFFICES ASSUME Init PROVE SessionInv
  OBVIOUS
<1>1. EventInv /\ CurrentInv
  BY DEF Init, EventInv, CurrentInv, Waiting, Alive
<1>2. ImageInv /\ PlaceInv
  BY DEF Init, ImageInv, PlaceInv, Alive
<1>. QED BY <1>1, <1>2, TableInit DEF SessionInv

LEMMA SessionNext ==
  ASSUME OneProcess, NoWatchBehindSymbol PROVE SessionInv /\ [Next]_vars => SessionInv'
<1>. SUFFICES ASSUME SessionInv, [Next]_vars PROVE SessionInv'
  OBVIOUS
<1>1. TableInv' /\ TypeOK'
  BY TableNext, TypeNext DEF SessionInv, TableInv
<1>2. SoloInv'
  <2>1. PICK p \in Pids : \A q \in Pids : q = p
    BY DEF OneProcess
  <2>2. CASE UNCHANGED vars
    <3>1. UNCHANGED <<run, image, event, cause, rip, text, step, pc, pid, status, regs,
                      funs, bps, idx>>
      BY <2>2 DEF vars, kernel, dbug
    <3>2. /\ \A a : Planted(a)' <=> Planted(a)
          /\ \A q, a : Mapped(q, a)' <=> Mapped(q, a)
          /\ Course(p)' = Course(p) /\ SoftAddrs(bps)' = SoftAddrs(bps)
      BY <3>1, PlantedKept, MappedKept DEF Course, SoftAddrs, SoftAt, Addrs
    <3>3. EventInv' /\ CurrentInv'
      BY <2>1, <3>1 DEF SessionInv, EventInv, CurrentInv, Waiting, Alive
    <3>4. ImageInv'
      BY <3>1, <3>2, ImageKept DEF SessionInv, Alive
    <3>5. PlaceInv'
      BY <2>1, <3>1, <3>2 DEF SessionInv, PlaceInv, Alive, Waiting
    <3>. QED BY <3>3, <3>4, <3>5 DEF SoloInv
  <2>3. CASE Command
    BY <2>3, SoloCommand
  <2>4. CASE Return
    BY <2>4, SoloReturn
  <2>5. ASSUME NEW q \in Pids, Launch(q) \/ Nested(q) PROVE SoloInv'
    BY <2>5, SoloLaunch, SoloNested
  <2>6. ASSUME NEW q \in Pids, Tracee(q) \/ TraceeSignalled(q) PROVE SoloInv'
    BY <2>6, <1>1, SoloTracee
  <2>7. ASSUME NEW q \in Pids, ProcessKilled(q) PROVE SoloInv'
    BY <2>7, SoloKilled
  <2>. QED BY <2>2, <2>3, <2>4, <2>5, <2>6, <2>7 DEF Next, Terminated
<1>. QED BY <1>1, <1>2 DEF SessionInv, SoloInv

\* With one process the table, the image, the place where the process stands and
\* what its next stop is taken for agree in every state between two commands,
\* waits and kills: the facts every theorem below rests on.
THEOREM SessionInvariant ==
  ASSUME OneProcess, NoWatchBehindSymbol PROVE Spec => []SessionInv
<1>1. SessionInv /\ [Next]_vars => SessionInv'
  BY SessionNext
<1>. QED BY <1>1, SessionInit, PTL DEF Spec

\* At the prompt the process has INT3 exactly where a breakpoint is listed:
\* resume_INT3_bp_next puts back every byte it lifted, whatever ended its step.
THEOREM ArmedAtThePrompt ==
  ASSUME OneProcess, NoWatchBehindSymbol PROVE Spec => []BreakpointsArmed
<1>1. SessionInv => BreakpointsArmed
  <2>. SUFFICES ASSUME SessionInv, pc = "prompt", Traced(pid), NEW a \in Addrs,
                       Mapped(pid, a)
                PROVE  text[pid][a] = IF a \in SoftAddrs(bps) THEN "int3" ELSE "insn"
    BY DEF BreakpointsArmed
  <2>1. Planted(a) <=> a \in SoftAddrs(bps)
    BY DEF Planted, Lifted, SoftAddrs, SoftAt
  <2>. QED BY <2>1 DEF SessionInv, ImageInv, Traced, Alive
<1>. QED BY <1>1, SessionInvariant, PTL

\* No live process is ever left with a byte that is not its own or INT3.
THEOREM CodeStaysIntact ==
  ASSUME OneProcess, NoWatchBehindSymbol PROVE Spec => []CodeIntact
<1>1. SessionInv => CodeIntact
  BY DEF SessionInv, ImageInv, CodeIntact, Alive
<1>. QED BY <1>1, SessionInvariant, PTL

\* The prompt never shows a process one byte behind a breakpoint.
THEOREM RewoundAtThePrompt ==
  ASSUME OneProcess, NoWatchBehindSymbol PROVE Spec => []StopsAtInstructionStart
<1>1. SessionInv => StopsAtInstructionStart
  <2>. SUFFICES ASSUME SessionInv, pc = "prompt", Traced(pid)
                PROVE  rip[pid] \in Course(pid) /\ cause[pid] # "int3"
    BY DEF StopsAtInstructionStart
  <2>. QED BY DEF SessionInv, PlaceInv, Traced, Alive
<1>. QED BY <1>1, SessionInvariant, PTL

\* resume_INT3_bp_next is only called for a process that INT3 has stopped.
THEOREM HitsAreReal ==
  ASSUME OneProcess, NoWatchBehindSymbol PROVE Spec => SoftwareTrapIsReal
<1>1. SessionInv /\ [Next]_vars
        => [pc = "gotstop" /\ pc' = "hit" /\ Traced(pid) => cause[pid] = "int3"]_vars
  <2>. SUFFICES ASSUME SessionInv, Next, pc = "gotstop", pc' = "hit", Traced(pid)
                PROVE  cause[pid] = "int3"
    OBVIOUS
  <2>1. HitFound
    BY DEF Next, Command, Return, Launch, Nested, Tracee, Terminated, command_break,
       command_watch, command_showreg, command_continue, command_dbug, command_attach,
       command_exit, ContinueSeesExit, ContinueSeesStop, OtherStop, SetRegs, RestoreByte,
       RearmInt3, InsertInt3, PlantInt3,
       StartStep, StepWaitReturns, LaunchWaitReturns, AttachWaitReturns, ExecSucceeds,
       ExecFails, AttachStops, NestedCalls, NestedContinues, NestedQuits, NestedKillsGroup,
       TraceeExecutes, TraceeExits, TraceeHitsInt3, TraceeHitsHw, TraceeFaults, TraceeStrays,
       TraceeSignalled, ProcessKilled, DebuggerEnds, vars
  <2>2. pid \in Pids /\ Alive(pid)
    BY DEF Traced, Alive
  <2>. QED BY <2>1, <2>2, HitIsReal DEF HitFound
<1>. QED BY <1>1, SessionInvariant, PTL DEF Spec, SoftwareTrapIsReal

\* With one process, the wait for the single step in resume_INT3_bp_next never
\* returns for another child, and INT3 is back when the prompt is shown again.
THEOREM StepsAreRearmed ==
  ASSUME OneProcess, NoWatchBehindSymbol PROVE Spec => ResumeRestores
<1>1. SessionInv /\ [Next]_vars
        => [pc = "stepped" /\ pc' = "prompt" /\ Alive(pid) /\ Mapped(pid, bps[idx].addr)
              => text'[pid][bps[idx].addr] = "int3"]_vars
  <2>. SUFFICES ASSUME SessionInv, Next, pc = "stepped", pc' = "prompt", Alive(pid),
                       Mapped(pid, bps[idx].addr)
                PROVE  text'[pid][bps[idx].addr] = "int3"
    OBVIOUS
  <2>1. RearmInt3
    BY DEF Next, Command, Return, Launch, Nested, Tracee, Terminated, command_break,
       command_watch, command_showreg, command_continue, command_dbug, command_attach,
       command_exit, ContinueSeesExit, ContinueSeesStop, OtherStop, HitFound, SetRegs,
       RestoreByte, InsertInt3,
       StartStep, StepWaitReturns, LaunchWaitReturns, AttachWaitReturns, ExecSucceeds,
       ExecFails, AttachStops, NestedCalls, NestedContinues, NestedQuits, NestedKillsGroup,
       TraceeExecutes, TraceeExits, TraceeHitsInt3, TraceeHitsHw, TraceeFaults, TraceeStrays,
       TraceeSignalled, ProcessKilled, DebuggerEnds, vars
  <2>2. TypeOK /\ CurrentInv /\ StepsOverEntry
    BY DEF SessionInv, TableInv
  <2>3. pid \in Pids
    BY <2>2 DEF TypeOK, StepsOverEntry, BetweenRequests, CurrentInv
  <2>4. Traced(pid) /\ bps[idx].addr \in Addrs
    BY <2>3, StoppedBetween DEF BetweenRequests
  <2>. QED BY <2>1, <2>2, <2>3, <2>4 DEF RearmInt3, PlantInt3, write_pro_mem, PutByte, TypeOK
<1>. QED BY <1>1, SessionInvariant, PTL DEF Spec, ResumeRestores

-----------------------------------------------------------------------------
(* The debugger is transparent: every step is a step of Program or none.   *)

LifeOf(r, im) == CASE r \in {"dead", "reaped"}                             -> "ended"
                   [] r \in {"running", "stopped"} /\ im = "program"       -> "alive"
                   [] OTHER                                                -> "absent"
AtOf(im, c, r) == IF im # "program" THEN Entry ELSE IF c = "int3" THEN r - 1 ELSE r

LEMMA Mapping ==
  /\ life = [q \in Pids |-> LifeOf(run[q], image[q])]
  /\ life' = [q \in Pids |-> LifeOf(run'[q], image'[q])]
  /\ at = [q \in Pids |-> AtOf(image[q], cause[q], rip[q])]
  /\ at' = [q \in Pids |-> AtOf(image'[q], cause'[q], rip'[q])]
  BY DEF life, at, LifeOf, AtOf, Alive

\* With one process p the new values are those of p.
LEMMA SoloMapping ==
  ASSUME NEW p \in Pids, \A q \in Pids : q = p
  PROVE  /\ life[p] = LifeOf(run[p], image[p]) /\ at[p] = AtOf(image[p], cause[p], rip[p])
         /\ life' = [life EXCEPT ![p] = LifeOf(run'[p], image'[p])]
         /\ at' = [at EXCEPT ![p] = AtOf(image'[p], cause'[p], rip'[p])]
  BY Mapping

LEMMA NothingSeen ==
  ASSUME NEW p \in Pids, \A q \in Pids : q = p,
         LifeOf(run'[p], image'[p]) = LifeOf(run[p], image[p]),
         AtOf(image'[p], cause'[p], rip'[p]) = AtOf(image[p], cause[p], rip[p])
  PROVE  UNCHANGED P!vars
  BY SoloMapping, Mapping DEF P!vars

LEMMA TransparentTracee ==
  ASSUME OneProcess, SessionInv, NEW p \in Pids, \A q \in Pids : q = p,
         Tracee(p) \/ TraceeSignalled(p)
  PROVE  [P!Next]_(P!vars)
<1>0. TypeOK
  BY DEF SessionInv, TableInv
<1>1. run[p] = "running" /\ image' = image
  BY DEF Tracee, TraceeExecutes, TraceeExits, TraceeHitsInt3, TraceeHitsHw,
         TraceeFaults, TraceeStrays, TraceeSignalled, Derailed
<1>2. cause[p] # "int3" /\ rip[p] \in Course(p)
  BY <1>1, Running
<1>3. image[p] = "program" => life[p] = "alive" /\ at[p] = rip[p] /\ rip[p] \in Instr
  BY <1>1, <1>2, SoloMapping DEF LifeOf, AtOf, Course
<1>4. CASE TraceeExecutes(p)
  <2>1. PICK a \in After(p) : rip' = [rip EXCEPT ![p] = a]
    BY <1>4 DEF TraceeExecutes
  <2>2. run'[p] \in {"running", "stopped"} /\ cause'[p] # "int3" /\ rip'[p] = a
    BY <1>0, <1>1, <1>2, <1>4, <2>1 DEF TraceeExecutes, StopWith, TypeOK
  <2>3. CASE image[p] = "program"
    <3>1. life' = life /\ at' = [at EXCEPT ![p] = a] /\ a \in Succ[rip[p]]
      BY <2>2, <2>3, <1>1, <1>3, SoloMapping, Mapping DEF LifeOf, AtOf, After
    <3>2. P!Step(p)
      BY <1>3, <2>3, <3>1 DEF P!Step
    <3>. QED BY <3>2 DEF P!Next
  <2>4. CASE image[p] # "program"
    BY <1>1, <2>2, <2>4, NothingSeen DEF LifeOf, AtOf
  <2>. QED BY <2>3, <2>4
<1>5. CASE TraceeExits(p)
  <2>1. run'[p] = "dead" /\ UNCHANGED <<cause, rip, image>> /\ rip[p] \in Exits
    BY <1>0, <1>5 DEF TraceeExits, EndWith, TypeOK
  <2>2. image[p] = "program"
    BY <1>2, <2>1, PlacesApart, ImageAssumption DEF Course, Addrs
  <2>3. P!Exit(p)
    BY <2>1, <2>2, <1>3, SoloMapping, Mapping DEF P!Exit, LifeOf, AtOf
  <2>. QED BY <2>3 DEF P!Next
<1>6. CASE TraceeHitsInt3(p)
  <2>1. run'[p] = "stopped" /\ cause'[p] = "int3" /\ rip'[p] = rip[p] + 1 /\ rip[p] \in Int
    BY <1>0, <1>6 DEF TraceeHitsInt3, StopWith, TypeOK, Places, OwnCode
  <2>. QED BY <2>1, <1>1, <1>2, NothingSeen DEF LifeOf, AtOf
<1>7. CASE TraceeHitsHw(p) \/ TraceeSignalled(p)
  <2>1. run'[p] = "stopped" /\ cause'[p] # "int3" /\ rip' = rip
    BY <1>0, <1>7 DEF TraceeHitsHw, TraceeSignalled, StopWith, TypeOK
  <2>. QED BY <2>1, <1>1, <1>2, NothingSeen DEF LifeOf, AtOf
<1>. QED BY <1>4, <1>5, <1>6, <1>7, NotDerailed DEF Tracee, TraceeFaults, TraceeStrays

LEMMA TransparentEnd ==
  ASSUME NEW K, DebuggerEnds(K), UNCHANGED <<image, cause, rip>>, TypeOK
  PROVE  [P!Next]_(P!vars)
<1>. DEFINE killed == {q \in Pids : run'[q] = "reaped"}
<1>1. \A q \in Pids : LifeOf(run'[q], image'[q]) =
                         IF q \in killed \/ LifeOf(run[q], image[q]) = "ended"
                         THEN "ended" ELSE "absent"
  BY DEF DebuggerEnds, Waitable, LifeOf, TypeOK, RunStates
<1>2. P!Gone(killed)
  BY <1>1, Mapping DEF P!Gone
<1>. QED BY <1>2 DEF P!Next

LEMMA TransparentEnvironment ==
  ASSUME SessionInv, NEW p \in Pids, \A q \in Pids : q = p,
         Launch(p) \/ Nested(p) \/ ProcessKilled(p)
  PROVE  [P!Next]_(P!vars)
<1>0. TypeOK
  BY DEF SessionInv, TableInv
<1>1. CASE ExecSucceeds(p) \/ AttachStops(p)
  <2>1. PICK a \in Instr : rip' = [rip EXCEPT ![p] = a]
    BY <1>1, ImageAssumption DEF ExecSucceeds, AttachStops
  <2>2. /\ run[p] = "attaching" \/ (run[p] = "running" /\ image[p] = "fork")
        /\ run'[p] = "stopped" /\ cause'[p] # "int3" /\ rip'[p] = a
    BY <1>0, <1>1, <2>1 DEF ExecSucceeds, AttachStops, StopWith, TypeOK
  <2>3. image'[p] = "program"
    BY <1>0, <1>1, <2>2 DEF SessionInv, CurrentInv, ExecSucceeds, AttachStops, TypeOK
  <2>4. P!Appear(p)
    BY <2>2, <2>3, SoloMapping DEF P!Appear, LifeOf, AtOf
  <2>. QED BY <2>4 DEF P!Next
<1>2. CASE ExecFails(p) \/ NestedCalls(p)
  <2>1. /\ UNCHANGED run /\ run[p] = "running"
        /\ image[p] # "program" /\ image'[p] # "program"
    BY <1>0, <1>2 DEF ExecFails, NestedCalls, InMainLoop, TypeOK
  <2>. QED BY <2>1, NothingSeen DEF LifeOf, AtOf
<1>3. CASE NestedContinues(p) \/ NestedQuits(p) \/ ProcessKilled(p)
  <2>1. /\ run[p] \notin {"dead", "reaped"} /\ run'[p] = "dead"
        /\ UNCHANGED <<image, cause, rip>>
    BY <1>0, <1>3 DEF NestedContinues, NestedQuits, InMainLoop, ProcessKilled, EndWith,
                      Waitable, TypeOK
  <2>2. /\ life' = [life EXCEPT ![p] = "ended"] /\ at' = at
        /\ life[p] \in {"alive", "absent"}
    BY <2>1, SoloMapping, Mapping DEF LifeOf
  <2>3. P!Kill(p) \/ P!FailToStart(p)
    BY <2>2 DEF P!Kill, P!FailToStart
  <2>. QED BY <2>3 DEF P!Next
<1>4. CASE NestedKillsGroup(p)
  BY <1>0, <1>4, TransparentEnd DEF NestedKillsGroup
<1>. QED BY <1>1, <1>2, <1>3, <1>4 DEF Launch, Nested

LEMMA TransparentCommand ==
  ASSUME SessionInv, NEW p \in Pids, \A q \in Pids : q = p, Command
  PROVE  [P!Next]_(P!vars)
<1>0. TypeOK /\ CurrentInv /\ PlaceInv
  BY DEF SessionInv, TableInv
<1>1. CASE \/ \E sym \in Syms : command_break(sym)
           \/ \E a \in WatchAddrs : command_watch(a)
           \/ command_showreg
  <2>1. UNCHANGED <<run, image, cause, rip>>
    BY <1>1 DEF command_break, command_watch, command_showreg, kernel
  <2>. QED BY <2>1, NothingSeen
<1>2. CASE command_continue
  <2>1. pc = "prompt" /\ UNCHANGED <<image, rip>>
    BY <1>2 DEF command_continue
  <2>2. CASE Traced(pid)
    <3>1. pid = p /\ run[p] = "stopped" /\ run'[p] = "running" /\ cause'[p] = "none"
      BY <1>0, <1>2, <2>2 DEF command_continue, Resume, ResumeIf, Traced, TypeOK
    <3>2. cause[p] # "int3"
      BY <1>0, <2>1, <3>1 DEF PlaceInv, Alive
    <3>. QED BY <2>1, <3>1, <3>2, NothingSeen DEF LifeOf, AtOf
  <2>3. CASE ~Traced(pid)
    BY <1>2, <2>1, <2>3, NothingSeen DEF command_continue, Resume, ResumeIf
  <2>. QED BY <2>2, <2>3
<1>3. ASSUME NEW q \in Pids, command_dbug(q) \/ command_attach(q)
      PROVE  [P!Next]_(P!vars)
  <2>1. CASE command_dbug(q)
    <3>1. q = p /\ run[p] = "none" /\ run'[p] = "running" /\ UNCHANGED image
      BY <1>0, <2>1 DEF command_dbug, TypeOK
    <3>2. image[p] = "fork"
      BY <1>0, <3>1 DEF CurrentInv
    <3>. QED BY <3>1, <3>2, NothingSeen DEF LifeOf, AtOf
  <2>2. CASE command_attach(q)
    <3>1. /\ run[p] = "free" /\ run'[p] = "attaching" /\ UNCHANGED <<image, cause, rip>>
      BY <1>0, <2>2 DEF command_attach, TypeOK
    <3>. QED BY <3>1, NothingSeen DEF LifeOf
  <2>. QED BY <1>3, <2>1, <2>2
<1>4. CASE command_exit
  BY <1>0, <1>4, TransparentEnd DEF command_exit
<1>. QED BY <1>1, <1>2, <1>3, <1>4 DEF Command

LEMMA TransparentReturn ==
  ASSUME OneProcess, NoWatchBehindSymbol, SessionInv,
         NEW p \in Pids, \A q \in Pids : q = p, Return
  PROVE  [P!Next]_(P!vars)
<1>0. TypeOK /\ CurrentInv /\ PlaceInv
  BY DEF SessionInv, TableInv
<1>1. CASE ContinueSeesExit
  BY <1>0, <1>1, TransparentEnd DEF ContinueSeesExit
<1>2. CASE OtherStop \/ HitFound \/ RestoreByte \/ RearmInt3 \/ InsertInt3
  <2>1. UNCHANGED <<run, image, cause, rip>>
    BY <1>2 DEF OtherStop, HitFound, RestoreByte, RearmInt3, InsertInt3, PlantInt3, kernel
  <2>. QED BY <2>1, NothingSeen
<1>3. CASE ContinueSeesStop \/ StepWaitReturns \/ LaunchWaitReturns \/ AttachWaitReturns
  <2>1. UNCHANGED <<image, cause, rip>>
    BY <1>3 DEF ContinueSeesStop, StepWaitReturns, LaunchWaitReturns, AttachWaitReturns
  <2>2. AttachWaitReturns => child = p
    BY <1>0 DEF AttachWaitReturns, TypeOK
  <2>3. run'[p] = run[p] \/ (run[p] = "dead" /\ run'[p] = "reaped")
    BY <1>0, <1>3, <2>2 DEF ContinueSeesStop, StepWaitReturns, LaunchWaitReturns,
                            AttachWaitReturns, Collect, TypeOK
  <2>. QED BY <2>1, <2>3, NothingSeen DEF LifeOf
<1>4. CASE SetRegs
  <2>1. UNCHANGED <<run, image>> /\ pc = "restored"
    BY <1>4 DEF SetRegs
  <2>2. CASE ~Traced(pid)
    BY <1>4, <2>1, <2>2, NothingSeen DEF SetRegs
  <2>3. CASE Traced(pid)
    <3>1. pid = p /\ Alive(p) /\ run[p] = "stopped"
      BY <2>3 DEF Traced, Alive
    <3>2. regs = rip[p] - 1 /\ cause[p] = "int3"
      BY <1>0, <2>1, <3>1 DEF PlaceInv
    <3>3. rip'[p] = regs /\ cause'[p] = "none"
      BY <1>0, <1>4, <2>3, <3>1 DEF SetRegs, TypeOK
    <3>. QED BY <2>1, <3>2, <3>3, NothingSeen DEF AtOf
  <2>. QED BY <2>2, <2>3
<1>5. CASE StartStep
  <2>1. UNCHANGED <<image, rip>> /\ pc = "rewound" /\ ResumeIf(Traced(pid), TRUE)
    BY <1>5 DEF StartStep, Resume
  <2>2. CASE ~Traced(pid)
    BY <2>1, <2>2, NothingSeen DEF ResumeIf
  <2>3. CASE Traced(pid)
    <3>1. pid = p /\ run[p] = "stopped" /\ run'[p] = "running" /\ cause'[p] = "none"
      BY <1>0, <2>1, <2>3 DEF ResumeIf, Traced, TypeOK
    <3>2. cause[p] # "int3"
      BY <1>0, <2>1, <3>1 DEF PlaceInv, Alive
    <3>. QED BY <2>1, <3>1, <3>2, NothingSeen DEF LifeOf, AtOf
  <2>. QED BY <2>2, <2>3
<1>. QED BY <1>1, <1>2, <1>3, <1>4, <1>5 DEF Return

\* The debugger changes nothing of what the process does but its timing: each
\* step of a session is one instruction, exit or death of the program itself,
\* or is invisible to it.
THEOREM DebuggerIsTransparent ==
  ASSUME OneProcess, NoWatchBehindSymbol PROVE Spec => Transparent
<1>1. Init => P!Init
  <2>. SUFFICES ASSUME Init PROVE P!Init
    OBVIOUS
  <2>1. life = [q \in Pids |-> "absent"]
    BY Mapping DEF Init, LifeOf
  <2>2. at \in [Pids -> Instr]
    BY Mapping, ImageAssumption DEF Init, AtOf
  <2>. QED BY <2>1, <2>2 DEF P!Init
<1>2. SessionInv /\ [Next]_vars => [P!Next]_(P!vars)
  <2>. SUFFICES ASSUME SessionInv, [Next]_vars PROVE [P!Next]_(P!vars)
    OBVIOUS
  <2>1. PICK p \in Pids : \A q \in Pids : q = p
    BY DEF OneProcess
  <2>2. CASE UNCHANGED vars
    BY <2>1, <2>2, NothingSeen DEF vars, kernel
  <2>. QED BY <2>1, <2>2, TransparentCommand, TransparentReturn, TransparentTracee,
              TransparentEnvironment DEF Next, Terminated
<1>. QED BY <1>1, <1>2, SessionInvariant, PTL DEF Spec, Transparent, P!Spec
=============================================================================
