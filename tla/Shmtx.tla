------------------------------- MODULE Shmtx -------------------------------
(***************************************************************************)
(* ngx/ngx_shmtx.c: a lock in shared memory.  A process spins for a while, *)
(* then counts itself in wait and sleeps on a semaphore; the process that  *)
(* unlocks takes one off wait and posts the semaphore.                     *)
(*                                                                         *)
(* Each access to a shared word is a step of its own.  The test            *)
(* `*lock == 0 && ngx_atomic_cmp_set(lock, 0, 1)` is one step: whichever   *)
(* of its two accesses decides is the one that counts.                     *)
(***************************************************************************)
EXTENDS Integers, FiniteSets

CONSTANTS Procs,      \* processes that share the lock
          Nobody,     \* no process
          PidOf,      \* PidOf[p]: the pid force_unlock is given for p
          SpinTries,  \* attempts while spinning (11 with mtx->spin = 2048)
          Semaphore,  \* mtx->semaphore: sem_init succeeded
          MaxCrashes, \* bound: processes killed where they stand
          MaxErrors   \* bound: calls of sem_wait and sem_post that fail

ASSUME ProcsAssumption == IsFiniteSet(Procs) /\ Nobody \notin Procs
\* Pid 1 is init, which does not call this library.
ASSUME PidAssumption == PidOf \in [Procs -> Nat \ {0, 1}]
ASSUME SpinAssumption == SpinTries \in Nat /\ Semaphore \in BOOLEAN

VARIABLES lock,     \* *mtx->lock: 0 or 1
          wait,     \* *mtx->wait as a signed number
          sem,      \* value of mtx->sem
          pc,       \* where each process is
          tries,    \* failed attempts of this round
          seen,     \* the value of wait ngx_shmtx_wakeup has read
          crashed,  \* processes that will not move again
          failed    \* how often "wait" (sem_wait) and "post" (sem_post) have failed

vars == <<lock, wait, sem, pc, tries, seen, crashed, failed>>

Labels == {"idle",       \* outside
           "spin",       \* next attempt of ngx_shmtx_lock
           "register",   \* before wait + 1
           "retry",      \* before the attempt after it
           "unregister", \* that attempt succeeded, before wait - 1
           "sleep",      \* in sem_wait
           "cs",         \* holds the lock
           "wakeread", "wakecas", "post"}  \* ngx_shmtx_wakeup

Init == /\ lock = 0 /\ wait = 0 /\ sem = 0
        /\ pc = [p \in Procs |-> "idle"]
        /\ tries = [p \in Procs |-> 0]
        /\ seen = [p \in Procs |-> 0]
        /\ crashed = {}
        /\ failed = [wait |-> 0, post |-> 0]

At(p, label) == pc[p] = label /\ p \notin crashed
Goto(p, label) == pc' = [pc EXCEPT ![p] = label]

\* Fault: the store is made without the comparison.
StoreAnyway(old, new) == lock \in {0, 1} /\ lock' = new

\* ngx_atomic_cmp_set(mtx->lock, old, new) stores new and returns 1.
CmpSet(old, new) == lock = old /\ lock' = new

ngx_shmtx_trylock(p) ==
    /\ At(p, "idle")
    /\ CmpSet(0, 1)
    /\ Goto(p, "cs")
    /\ UNCHANGED <<wait, sem, tries, seen, crashed, failed>>

ngx_shmtx_lock(p) ==
    /\ At(p, "idle")
    /\ Goto(p, "spin")
    /\ UNCHANGED <<lock, wait, sem, tries, seen, crashed, failed>>

\* tries ends with the call.
SpinSucceeds(p) ==
    /\ At(p, "spin")
    /\ CmpSet(0, 1)
    /\ Goto(p, "cs")
    /\ tries' = [tries EXCEPT ![p] = 0]
    /\ UNCHANGED <<wait, sem, seen, crashed, failed>>

\* After the last attempt: the semaphore, or sched_yield and from the start.
SpinFails(p) ==
    /\ At(p, "spin")
    /\ lock # 0
    /\ IF tries[p] < SpinTries
       THEN tries' = [tries EXCEPT ![p] = @ + 1] /\ pc' = pc
       ELSE /\ tries' = [tries EXCEPT ![p] = 0]
            /\ Goto(p, IF Semaphore THEN "register" ELSE "spin")
    /\ UNCHANGED <<lock, wait, sem, seen, crashed, failed>>

\* Fault: straight to sem_wait, without the attempt after wait + 1.
RegisterAndSleep(p) ==
    /\ At(p, "register")
    /\ wait' = wait + 1
    /\ Goto(p, "sleep")
    /\ UNCHANGED <<lock, sem, tries, seen, crashed, failed>>

Register(p) ==
    /\ At(p, "register")
    /\ wait' = wait + 1
    /\ Goto(p, "retry")
    /\ UNCHANGED <<lock, sem, tries, seen, crashed, failed>>

RetrySucceeds(p) ==
    /\ At(p, "retry")
    /\ CmpSet(0, 1)
    /\ Goto(p, "unregister")
    /\ UNCHANGED <<wait, sem, tries, seen, crashed, failed>>

RetryFails(p) ==
    /\ At(p, "retry")
    /\ lock # 0
    /\ Goto(p, "sleep")
    /\ UNCHANGED <<lock, wait, sem, tries, seen, crashed, failed>>

\* wait may drop below 0: the process may have been counted off already.
Unregister(p) ==
    /\ At(p, "unregister")
    /\ wait' = wait - 1
    /\ Goto(p, "cs")
    /\ UNCHANGED <<lock, sem, tries, seen, crashed, failed>>

\* sem_wait returns; a signal (EINTR) only makes it wait again.
Awake(p) ==
    /\ At(p, "sleep")
    /\ sem > 0
    /\ sem' = sem - 1
    /\ Goto(p, "spin")
    /\ UNCHANGED <<lock, wait, tries, seen, crashed, failed>>

\* sem_wait or sem_post fails, for a reason other than EINTR.
Fails(fun) == /\ failed.wait + failed.post < MaxErrors
              /\ failed' = [failed EXCEPT ![fun] = @ + 1]

\* sem_wait fails, which is logged: on with the loop, still counted in wait.
AwakeAnyway(p) ==
    /\ At(p, "sleep")
    /\ Fails("wait")
    /\ Goto(p, "spin")
    /\ UNCHANGED <<lock, wait, sem, tries, seen, crashed>>

\* Fault: the lock is freed and nobody is woken.
UnlockOnly(p) ==
    /\ At(p, "cs")
    /\ CmpSet(1, 0)
    /\ Goto(p, "idle")
    /\ UNCHANGED <<wait, sem, tries, seen, crashed, failed>>

ngx_shmtx_unlock(p) ==
    /\ At(p, "cs")
    /\ CmpSet(1, 0)
    /\ Goto(p, IF Semaphore THEN "wakeread" ELSE "idle")
    /\ UNCHANGED <<wait, sem, tries, seen, crashed, failed>>

WakeupReads(p) ==
    /\ At(p, "wakeread")
    /\ IF wait <= 0
       THEN Goto(p, "idle") /\ seen' = seen
       ELSE Goto(p, "wakecas") /\ seen' = [seen EXCEPT ![p] = wait]
    /\ UNCHANGED <<lock, wait, sem, tries, crashed, failed>>

\* Fault: wait is taken down by a plain store.
WakeupStores(p) ==
    /\ At(p, "wakecas")
    /\ wait' = seen[p] - 1
    /\ Goto(p, "post")
    /\ seen' = [seen EXCEPT ![p] = 0]
    /\ UNCHANGED <<lock, sem, tries, crashed, failed>>

\* Loops until nobody has changed wait in between; seen is read again then.
WakeupCmpSet(p) ==
    /\ At(p, "wakecas")
    /\ IF wait = seen[p]
       THEN wait' = wait - 1 /\ Goto(p, "post")
       ELSE wait' = wait /\ Goto(p, "wakeread")
    /\ seen' = [seen EXCEPT ![p] = 0]
    /\ UNCHANGED <<lock, sem, tries, crashed, failed>>

Post(p) ==
    /\ At(p, "post")
    /\ sem' = sem + 1
    /\ Goto(p, "idle")
    /\ UNCHANGED <<lock, wait, tries, seen, crashed, failed>>

\* sem_post fails, which is logged, after wait has been taken down.
PostFails(p) ==
    /\ At(p, "post")
    /\ Fails("post")
    /\ Goto(p, "idle")
    /\ UNCHANGED <<lock, wait, sem, tries, seen, crashed>>

\* Fault: the lock is taken from whoever holds it.
ForceAnyUnlock(p, q) ==
    /\ At(p, "idle") /\ q \in crashed
    /\ lock' = 0
    /\ Goto(p, IF Semaphore THEN "wakeread" ELSE "idle")
    /\ UNCHANGED <<wait, sem, tries, seen, crashed, failed>>

\* p frees the lock a killed process q may have held: lock is compared with
\* the pid of q, although what a holder stores in it is always 1.
ngx_shmtx_force_unlock(p, q) ==
    /\ At(p, "idle") /\ q \in crashed
    /\ IF lock = PidOf[q]
       THEN lock' = 0 /\ Goto(p, IF Semaphore THEN "wakeread" ELSE "idle")
       ELSE UNCHANGED <<lock, pc>>
    /\ UNCHANGED <<wait, sem, tries, seen, crashed, failed>>

Crash(p) ==
    /\ p \notin crashed
    /\ Cardinality(crashed) < MaxCrashes
    /\ crashed' = crashed \cup {p}
    /\ UNCHANGED <<lock, wait, sem, pc, tries, seen, failed>>

\* What a process does once it has called ngx_shmtx_lock, and in the end unlock.
Step(p) == \/ SpinSucceeds(p) \/ SpinFails(p)
           \/ Register(p) \/ RetrySucceeds(p) \/ RetryFails(p) \/ Unregister(p)
           \/ Awake(p)
           \/ ngx_shmtx_unlock(p)
           \/ WakeupReads(p) \/ WakeupCmpSet(p) \/ Post(p)

Next == \E p \in Procs : \/ ngx_shmtx_trylock(p) \/ ngx_shmtx_lock(p)
                         \/ Step(p)
                         \/ AwakeAnyway(p) \/ PostFails(p)
                         \/ \E q \in Procs : ngx_shmtx_force_unlock(p, q)
                         \/ Crash(p)

Spec == Init /\ [][Next]_vars

\* Every process is scheduled; a holder unlocks in the end.
FairSpec == Spec /\ \A p \in Procs : WF_vars(Step(p))

-----------------------------------------------------------------------------
\* Every shared word and local keeps its range; lock holds 0 or 1, never a pid.
TypeOK == /\ lock \in {0, 1} /\ wait \in Int /\ sem \in Nat
          /\ pc \in [Procs -> Labels]
          /\ tries \in [Procs -> Nat]
          /\ seen \in [Procs -> Int]
          /\ crashed \subseteq Procs
          /\ failed \in [wait : Nat, post : Nat]

Holding(p) == pc[p] \in {"unregister", "cs"}

\* The lock word says whether somebody holds the lock, and at most one does.
MutualExclusion == /\ \A p, q \in Procs : Holding(p) /\ Holding(q) => p = q
                   /\ lock = 1 <=> \E p \in Procs : Holding(p)

\* Processes counted in and not yet counted off by themselves or by a post.
Registered == {p \in Procs : pc[p] \in {"retry", "unregister", "sleep"}}
Posting == {p \in Procs : pc[p] = "post"}

\* No post is lost or made up but by a call that fails: wait may be negative and
\* posts may be left over, but together they always match the processes counted
\* in, killed ones included, and those that have stopped sleeping without a post.
PostsBalance ==
    wait + sem + Cardinality(Posting) + failed.post = Cardinality(Registered) + failed.wait

\* The lock is only given back by its holder, whatever pid of a dead process
\* ngx_shmtx_force_unlock is called with.
OnlyHolderUnlocks ==
    [][lock = 1 /\ lock' = 0 => \E p \in Procs : At(p, "cs") /\ pc'[p] # "cs"]_vars

\* When the lock is free and a process sleeps, somebody is under way who will
\* post the semaphore or go for the lock, as long as nobody is killed and no
\* sem_post fails; a sem_wait may.
SomebodyWakes ==
    crashed = {} /\ failed.post = 0 /\ lock = 0 /\ (\E p \in Procs : pc[p] = "sleep")
        => sem > 0 \/ \E p \in Procs : pc[p] \notin {"idle", "sleep"}

\* If somebody wants the lock, somebody gets it: no wakeup is lost between the
\* last attempt and sem_wait, nor by a sem_wait that fails.  (Not each of them:
\* the lock is not fair.)
DeadlockFreedom ==
    [](crashed = {} /\ failed.post = 0) =>
        ((\E p \in Procs : pc[p] \notin {"idle", "wakeread", "wakecas", "post"})
            ~> (\E p \in Procs : Holding(p)))

holder == IF \E p \in Procs : Holding(p)
          THEN CHOOSE p \in Procs : Holding(p) ELSE Nobody
M == INSTANCE Mutex WITH holder <- holder

\* The spinning, counting and posting together are a lock.
ImplementsMutex == M!Spec
=============================================================================
