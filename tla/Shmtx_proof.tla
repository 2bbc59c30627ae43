---------------------------- MODULE Shmtx_proof ----------------------------
(***************************************************************************)
(* Safety of the lock, for any number of processes, any number of attempts *)
(* while spinning, with and without the semaphore, and with any number of  *)
(* processes killed where they stand and of failing semaphore calls.       *)
(***************************************************************************)
EXTENDS Shmtx, FiniteSetTheorems, TLAPS

\* Every step keeps the types; lock never holds anything but 0 and 1.
LEMMA TypeStep == TypeOK /\ [Next]_vars => TypeOK'
<1> SUFFICES ASSUME TypeOK, [Next]_vars PROVE TypeOK'
  OBVIOUS
<1> USE DEF TypeOK, Labels, Goto, CmpSet
<1>1. ASSUME NEW p \in Procs, ngx_shmtx_trylock(p) PROVE TypeOK'
  BY <1>1 DEF ngx_shmtx_trylock
<1>2. ASSUME NEW p \in Procs, ngx_shmtx_lock(p) PROVE TypeOK'
  BY <1>2 DEF ngx_shmtx_lock
<1>3. ASSUME NEW p \in Procs, SpinSucceeds(p) PROVE TypeOK'
  BY <1>3 DEF SpinSucceeds
<1>4. ASSUME NEW p \in Procs, SpinFails(p) PROVE TypeOK'
  <2>1. CASE tries[p] < SpinTries
    BY <1>4, <2>1 DEF SpinFails
  <2>2. CASE ~(tries[p] < SpinTries)
    BY <1>4, <2>2 DEF SpinFails
  <2> QED BY <2>1, <2>2
<1>5. ASSUME NEW p \in Procs, Register(p) PROVE TypeOK'
  BY <1>5 DEF Register
<1>6. ASSUME NEW p \in Procs, RetrySucceeds(p) PROVE TypeOK'
  BY <1>6 DEF RetrySucceeds
<1>7. ASSUME NEW p \in Procs, RetryFails(p) PROVE TypeOK'
  BY <1>7 DEF RetryFails
<1>8. ASSUME NEW p \in Procs, Unregister(p) PROVE TypeOK'
  BY <1>8 DEF Unregister
<1>9. ASSUME NEW p \in Procs, Awake(p) PROVE TypeOK'
  BY <1>9 DEF Awake
<1>10. ASSUME NEW p \in Procs, ngx_shmtx_unlock(p) PROVE TypeOK'
  BY <1>10 DEF ngx_shmtx_unlock
<1>11. ASSUME NEW p \in Procs, WakeupReads(p) PROVE TypeOK'
  BY <1>11 DEF WakeupReads
<1>12. ASSUME NEW p \in Procs, WakeupCmpSet(p) PROVE TypeOK'
  BY <1>12 DEF WakeupCmpSet
<1>13. ASSUME NEW p \in Procs, Post(p) PROVE TypeOK'
  BY <1>13 DEF Post
<1>14. ASSUME NEW p \in Procs, NEW q \in Procs, ngx_shmtx_force_unlock(p, q)
       PROVE  TypeOK'
  BY <1>14 DEF ngx_shmtx_force_unlock
<1>15. ASSUME NEW p \in Procs, Crash(p) PROVE TypeOK'
  BY <1>15 DEF Crash
<1>16. ASSUME NEW p \in Procs, AwakeAnyway(p) PROVE TypeOK'
  BY <1>16 DEF AwakeAnyway, Fails
<1>17. ASSUME NEW p \in Procs, PostFails(p) PROVE TypeOK'
  BY <1>17 DEF PostFails, Fails
<1>18. CASE UNCHANGED vars
  BY <1>18 DEF vars
<1> QED
  BY <1>1, <1>2, <1>3, <1>4, <1>5, <1>6, <1>7, <1>8, <1>9, <1>10, <1>11,
     <1>12, <1>13, <1>14, <1>15, <1>16, <1>17, <1>18 DEF Next, Step

\* Variables keep their range in every run: ngx_atomic_cmp_set on lock only
\* ever stores 0 and 1, whoever is killed.
THEOREM TypeCorrect == Spec => []TypeOK
<1>1. Init => TypeOK
  BY DEF Init, TypeOK, Labels
<1> QED
  BY <1>1, TypeStep, PTL DEF Spec

-----------------------------------------------------------------------------
(***************************************************************************)
(* Mutual exclusion.  What a step does to the set of holders: a process    *)
(* gets in (when lock was 0), the holder gets out, or nothing.             *)
(***************************************************************************)
GetsIn(p) == /\ lock = 0 /\ lock' = 1 /\ Holding(p)'
             /\ \A q \in Procs : q # p => Holding(q)' = Holding(q)
GetsOut(p) == /\ pc[p] = "cs" /\ p \notin crashed
              /\ lock = 1 /\ lock' = 0 /\ ~Holding(p)'
              /\ \A q \in Procs : q # p => Holding(q)' = Holding(q)
NoChange == lock' = lock /\ \A q \in Procs : Holding(q)' = Holding(q)

\* The only ways a step touches the lock.  That ngx_shmtx_force_unlock is
\* among the steps that do not touch it rests on lock being 0 or 1 and no
\* process having pid 0 or 1.
LEMMA LockStep ==
    ASSUME TypeOK, [Next]_vars
    PROVE  NoChange \/ \E p \in Procs : GetsIn(p) \/ GetsOut(p)
<1> USE DEF TypeOK, Labels, Goto, At, Holding
<1>1. ASSUME NEW p \in Procs,
             ngx_shmtx_trylock(p) \/ SpinSucceeds(p) \/ RetrySucceeds(p)
      PROVE  GetsIn(p)
  BY <1>1 DEF GetsIn, CmpSet, ngx_shmtx_trylock, SpinSucceeds, RetrySucceeds
<1>2. ASSUME NEW p \in Procs, ngx_shmtx_unlock(p) PROVE GetsOut(p)
  BY <1>2 DEF GetsOut, CmpSet, ngx_shmtx_unlock
<1>3. ASSUME NEW p \in Procs, ngx_shmtx_lock(p) \/ Register(p)
      PROVE  NoChange
  BY <1>3 DEF NoChange, ngx_shmtx_lock, Register
<1>4. ASSUME NEW p \in Procs, SpinFails(p) PROVE NoChange
  BY <1>4 DEF NoChange, SpinFails
<1>5. ASSUME NEW p \in Procs, RetryFails(p) \/ Unregister(p) PROVE NoChange
  BY <1>5 DEF NoChange, RetryFails, Unregister
<1>6. ASSUME NEW p \in Procs, Awake(p) \/ Post(p) PROVE NoChange
  BY <1>6 DEF NoChange, Awake, Post
<1>7. ASSUME NEW p \in Procs, WakeupReads(p) PROVE NoChange
  BY <1>7 DEF NoChange, WakeupReads
<1>8. ASSUME NEW p \in Procs, WakeupCmpSet(p) PROVE NoChange
  BY <1>8 DEF NoChange, WakeupCmpSet
<1>9. ASSUME NEW p \in Procs, NEW q \in Procs, ngx_shmtx_force_unlock(p, q)
      PROVE  NoChange
  <2>1. lock # PidOf[q]
    BY PidAssumption
  <2> QED
    BY <1>9, <2>1 DEF NoChange, ngx_shmtx_force_unlock
<1>10. ASSUME NEW p \in Procs, Crash(p) PROVE NoChange
  BY <1>10 DEF NoChange, Crash
<1>11. ASSUME NEW p \in Procs, AwakeAnyway(p) \/ PostFails(p) PROVE NoChange
  BY <1>11 DEF NoChange, AwakeAnyway, PostFails
<1>12. CASE UNCHANGED vars
  BY <1>12 DEF NoChange, vars
<1> QED
  BY <1>1, <1>2, <1>3, <1>4, <1>5, <1>6, <1>7, <1>8, <1>9, <1>10, <1>11, <1>12
  DEF Next, Step

\* MutualExclusion is inductive on top of the types.
LEMMA ExclusionStep ==
    ASSUME TypeOK, MutualExclusion, [Next]_vars PROVE MutualExclusion'
<1>1. CASE NoChange
  BY <1>1 DEF NoChange, MutualExclusion
<1>2. ASSUME NEW p \in Procs, GetsIn(p) PROVE MutualExclusion'
  <2>1. \A q \in Procs : ~Holding(q)
    BY <1>2 DEF GetsIn, MutualExclusion
  <2> QED
    BY <1>2, <2>1 DEF GetsIn, MutualExclusion
<1>3. ASSUME NEW p \in Procs, GetsOut(p) PROVE MutualExclusion'
  <2>1. Holding(p)
    BY <1>3 DEF GetsOut, Holding
  <2>2. \A q \in Procs : ~Holding(q)'
    BY <1>3, <2>1 DEF GetsOut, MutualExclusion
  <2> QED
    BY <1>3, <2>2 DEF GetsOut, MutualExclusion
<1> QED
  BY <1>1, <1>2, <1>3, LockStep

\* At most one process is between lock and unlock, and *mtx->lock says whether
\* one is, however many processes compete, sleep or are killed.
THEOREM AtMostOneHolder == Spec => []MutualExclusion
<1>1. Init => MutualExclusion
  BY DEF Init, MutualExclusion, Holding
<1>2. TypeOK /\ MutualExclusion /\ [Next]_vars => MutualExclusion'
  BY ExclusionStep
<1> QED
  BY <1>1, <1>2, TypeCorrect, PTL DEF Spec

\* Only a live holder frees the lock: ngx_shmtx_force_unlock, which compares
\* the word with a pid, never does.
THEOREM NobodyElseUnlocks == Spec => OnlyHolderUnlocks
<1>1. ASSUME TypeOK, [Next]_vars
      PROVE  [lock = 1 /\ lock' = 0
                  => \E p \in Procs : At(p, "cs") /\ pc'[p] # "cs"]_vars
  <2> SUFFICES ASSUME lock = 1, lock' = 0
               PROVE  \E p \in Procs : At(p, "cs") /\ pc'[p] # "cs"
    OBVIOUS
  <2>1. PICK p \in Procs : GetsOut(p)
    BY <1>1, LockStep DEF NoChange, GetsIn
  <2> QED
    BY <2>1 DEF GetsOut, At, Holding
<1> QED
  BY <1>1, TypeCorrect, PTL DEF Spec, OnlyHolderUnlocks

-----------------------------------------------------------------------------
\* The holder of Mutex, when there is exactly one process to choose.
LEMMA HolderIs ==
    ASSUME MutualExclusion, NEW p \in Procs, Holding(p) PROVE holder = p
  BY DEF MutualExclusion, holder

\* The same in the next state.
LEMMA HolderIsNext ==
    ASSUME MutualExclusion', NEW p \in Procs, Holding(p)' PROVE holder' = p
  BY DEF MutualExclusion, holder

\* ngx_shmtx with its spinning, counting and posting implements Mutex: taking
\* the lock is Acquire, freeing it Release, and every other step a stutter.
THEOREM IsAMutex == Spec => ImplementsMutex
<1>1. Init => M!Init
  BY DEF Init, M!Init, holder, Holding
<1>2. ASSUME TypeOK, MutualExclusion, MutualExclusion', [Next]_vars
      PROVE  [M!Next]_holder
  <2>1. CASE NoChange
    <3>1. \A p \in Procs : Holding(p)' <=> Holding(p)
      BY <2>1 DEF NoChange
    <3>2. CASE \E p \in Procs : Holding(p)
      <4>1. PICK p \in Procs : Holding(p)
        BY <3>2
      <4> QED
        BY <4>1, <3>1, <1>2, HolderIs, HolderIsNext
    <3>3. CASE ~\E p \in Procs : Holding(p)
      BY <3>1, <3>3 DEF holder
    <3> QED
      BY <3>2, <3>3
  <2>2. ASSUME NEW p \in Procs, GetsIn(p) PROVE M!Acquire(p)
    <3>1. holder = Nobody
      BY <2>2, <1>2 DEF GetsIn, MutualExclusion, holder
    <3>2. holder' = p
      BY <2>2, <1>2, HolderIsNext DEF GetsIn
    <3> QED
      BY <3>1, <3>2 DEF M!Acquire
  <2>3. ASSUME NEW p \in Procs, GetsOut(p) PROVE M!Release(p)
    <3>1. Holding(p)
      BY <2>3 DEF GetsOut, Holding
    <3>2. \A q \in Procs : ~Holding(q)'
      BY <2>3, <1>2 DEF GetsOut, MutualExclusion
    <3>3. holder' = Nobody
      BY <3>2 DEF holder
    <3> QED
      BY <3>1, <3>3, <1>2, HolderIs DEF M!Release
  <2> QED
    BY <1>2, <2>1, <2>2, <2>3, LockStep DEF M!Next
<1> QED
  BY <1>1, <1>2, TypeCorrect, AtMostOneHolder, PTL
  DEF Spec, ImplementsMutex, M!Spec

-----------------------------------------------------------------------------
(***************************************************************************)
(* Counting.  PostsBalance compares the two counters with the numbers of   *)
(* processes at certain labels; a step moves one process.                  *)
(***************************************************************************)
Count(where, labels) == Cardinality({q \in Procs : where[q] \in labels})
One(label, labels) == IF label \in labels THEN 1 ELSE 0

RegisteredLabels == {"retry", "unregister", "sleep"}
PostLabels == {"post"}

\* Moving one process changes a count by what that process contributes.
LEMMA CountMoves ==
    ASSUME NEW where \in [Procs -> Labels], NEW p \in Procs, NEW label,
           NEW labels
    PROVE  /\ Count(where, labels) \in Int
           /\ Count([where EXCEPT ![p] = label], labels)
              = Count(where, labels) - One(where[p], labels)
                                     + One(label, labels)
<1> DEFINE Before == {q \in Procs : where[q] \in labels}
           After == {q \in Procs : [where EXCEPT ![p] = label][q] \in labels}
           Others == Before \ {p}
<1>1. IsFiniteSet(Before)
  BY FS_Subset, ProcsAssumption
<1>2. /\ IsFiniteSet(Others)
      /\ Cardinality(Others) = Cardinality(Before) - One(where[p], labels)
  <2>1. p \in Before <=> where[p] \in labels
    OBVIOUS
  <2>2. /\ IsFiniteSet(Others)
        /\ Cardinality(Others) = IF p \in Before THEN Cardinality(Before) - 1
                                 ELSE Cardinality(Before)
    BY <1>1, FS_RemoveElement
  <2>3. Cardinality(Before) \in Int
    BY <1>1, FS_CardinalityType
  <2> QED
    BY <2>1, <2>2, <2>3 DEF One
<1>3. Cardinality(Before) \in Int /\ Cardinality(Others) \in Int
  BY <1>1, <1>2, FS_CardinalityType
<1>4. CASE label \in labels
  <2>1. After = Others \cup {p} /\ p \notin Others
    BY <1>4
  <2>2. Cardinality(After) = Cardinality(Others) + 1
    BY <1>2, <2>1, FS_AddElement
  <2> QED
    BY <1>2, <1>3, <1>4, <2>2 DEF Count, One
<1>5. CASE label \notin labels
  <2>1. After = Others
    BY <1>5
  <2> QED
    BY <1>2, <1>3, <1>5, <2>1 DEF Count, One
<1> QED
  BY <1>4, <1>5

\* PostsBalance in terms of Count, now and in the next state.
LEMMA BalanceCounts ==
    /\ PostsBalance <=> wait + sem + Count(pc, PostLabels) + failed.post
                         = Count(pc, RegisteredLabels) + failed.wait
    /\ PostsBalance' <=> wait' + sem' + Count(pc', PostLabels) + failed'.post
                          = Count(pc', RegisteredLabels) + failed'.wait
<1>1. {q \in Procs : pc[q] \in PostLabels} = Posting
  BY DEF Posting, PostLabels
<1>2. {q \in Procs : pc'[q] \in PostLabels} = Posting'
  BY DEF Posting, PostLabels
<1>3. /\ Cardinality(Registered) = Count(pc, RegisteredLabels)
      /\ Cardinality(Registered') = Count(pc', RegisteredLabels)
  BY DEF Registered, Count, RegisteredLabels
<1>4. /\ Cardinality(Posting) = Count(pc, PostLabels)
      /\ Cardinality(Posting') = Count(pc', PostLabels)
  BY <1>1, <1>2 DEF Count
<1> QED
  BY <1>3, <1>4 DEF PostsBalance

LEMMA CounterTypes ==
    /\ TypeOK => wait \in Int /\ sem \in Int /\ failed.post \in Int /\ failed.wait \in Int
    /\ TypeOK' => wait' \in Int /\ sem' \in Int /\ failed'.post \in Int /\ failed'.wait \in Int
BY DEF TypeOK

\* The sum that BalanceMoves needs.
LEMMA Sums ==
    ASSUME NEW w \in Int, NEW s \in Int, NEW x \in Int, NEW y \in Int,
           NEW v \in Int, NEW t \in Int, NEW z \in Int, NEW u \in Int,
           NEW n \in Int, NEW r \in Int, NEW m, NEW q,
           NEW a \in Int, NEW b \in Int, NEW c \in Int, NEW d \in Int,
           (v + t + z - u) - (w + s + x - y) = d - b - c + a,
           m = n - a + b, q = r - c + d, w + s + n + x = r + y
    PROVE  v + t + m + z = q + u
  OBVIOUS

\* A step that moves p from one label to another keeps the balance when the
\* counters change by the difference.
LEMMA BalanceMoves ==
    ASSUME TypeOK, PostsBalance, TypeOK',
           NEW p \in Procs, NEW label, Goto(p, label),
           (wait' + sem' + failed'.post - failed'.wait) - (wait + sem + failed.post - failed.wait)
             = One(label, RegisteredLabels) - One(label, PostLabels)
               - One(pc[p], RegisteredLabels) + One(pc[p], PostLabels)
    PROVE  PostsBalance'
<1>0. pc \in [Procs -> Labels] /\ pc' = [pc EXCEPT ![p] = label]
  BY DEF Goto, TypeOK
<1>1. PostsBalance' <=> wait' + sem' + Count(pc', PostLabels) + failed'.post
                        = Count(pc', RegisteredLabels) + failed'.wait
  BY BalanceCounts
<1>2. /\ Count(pc, PostLabels) \in Int
      /\ Count(pc', PostLabels) = Count(pc, PostLabels) - One(pc[p], PostLabels)
                                                   + One(label, PostLabels)
  BY <1>0, CountMoves
<1>3. /\ Count(pc, RegisteredLabels) \in Int
      /\ Count(pc', RegisteredLabels)
         = Count(pc, RegisteredLabels) - One(pc[p], RegisteredLabels)
                                       + One(label, RegisteredLabels)
  BY <1>0, CountMoves
<1>4. wait + sem + Count(pc, PostLabels) + failed.post = Count(pc, RegisteredLabels) + failed.wait
  BY BalanceCounts
<1>5. /\ wait \in Int /\ sem \in Int /\ failed.post \in Int /\ failed.wait \in Int
      /\ wait' \in Int /\ sem' \in Int /\ failed'.post \in Int /\ failed'.wait \in Int
  BY CounterTypes
<1>6. /\ One(pc[p], PostLabels) \in Int /\ One(label, PostLabels) \in Int
      /\ One(pc[p], RegisteredLabels) \in Int
      /\ One(label, RegisteredLabels) \in Int
  BY DEF One
<1>7. wait' + sem' + Count(pc', PostLabels) + failed'.post
        = Count(pc', RegisteredLabels) + failed'.wait
  BY <1>2, <1>3, <1>4, <1>5, <1>6, Sums
<1> QED
  BY <1>1, <1>7

\* PostsBalance is inductive on top of the types.
LEMMA BalanceStep ==
    ASSUME TypeOK, PostsBalance, [Next]_vars PROVE PostsBalance'
<1> USE DEF At
<1>0. TypeOK' /\ wait \in Int /\ sem \in Int /\ failed.post \in Int /\ failed.wait \in Int
  BY TypeStep, CounterTypes
<1> DEFINE Moves(p, label) ==
      /\ Goto(p, label)
      /\ (wait' + sem' + failed'.post - failed'.wait) - (wait + sem + failed.post - failed.wait)
           = One(label, RegisteredLabels) - One(label, PostLabels)
             - One(pc[p], RegisteredLabels) + One(pc[p], PostLabels)
<1>2. ASSUME NEW p \in Procs, NEW label, Moves(p, label) PROVE PostsBalance'
  BY <1>0, <1>2, BalanceMoves
<1>3. ASSUME UNCHANGED <<wait, sem, pc, failed>> PROVE PostsBalance'
  BY <1>3 DEF PostsBalance, Registered, Posting
<1> USE DEF One, RegisteredLabels, PostLabels
<1>4. ASSUME NEW p \in Procs,
             ngx_shmtx_trylock(p) \/ SpinSucceeds(p) \/ ngx_shmtx_unlock(p)
      PROVE  \E label : Moves(p, label)
  BY <1>0, <1>4 DEF ngx_shmtx_trylock, SpinSucceeds, ngx_shmtx_unlock
<1>5. ASSUME NEW p \in Procs, ngx_shmtx_lock(p) \/ Register(p)
      PROVE  \E label : Moves(p, label)
  BY <1>0, <1>5 DEF ngx_shmtx_lock, Register
<1>6. ASSUME NEW p \in Procs, SpinFails(p)
      PROVE  UNCHANGED <<wait, sem, pc, failed>> \/ \E label : Moves(p, label)
  BY <1>0, <1>6 DEF SpinFails
<1>7. ASSUME NEW p \in Procs,
             RetrySucceeds(p) \/ RetryFails(p) \/ Unregister(p)
      PROVE  \E label : Moves(p, label)
  BY <1>0, <1>7 DEF RetrySucceeds, RetryFails, Unregister
<1>8. ASSUME NEW p \in Procs, Awake(p) \/ Post(p)
      PROVE  \E label : Moves(p, label)
  BY <1>0, <1>8 DEF Awake, Post
<1>9. ASSUME NEW p \in Procs, WakeupReads(p) \/ WakeupCmpSet(p)
      PROVE  \E label : Moves(p, label)
  BY <1>0, <1>9 DEF WakeupReads, WakeupCmpSet
<1>10. ASSUME NEW p \in Procs, NEW q \in Procs, ngx_shmtx_force_unlock(p, q)
       PROVE  UNCHANGED <<wait, sem, pc, failed>> \/ \E label : Moves(p, label)
  BY <1>0, <1>10 DEF ngx_shmtx_force_unlock
<1>11. ASSUME NEW p \in Procs, Crash(p) PROVE UNCHANGED <<wait, sem, pc, failed>>
  BY <1>11 DEF Crash
<1>12. ASSUME NEW p \in Procs, AwakeAnyway(p) PROVE \E label : Moves(p, label)
  <2>1. failed'.wait = failed.wait + 1 /\ failed'.post = failed.post
    BY <1>12 DEF AwakeAnyway, Fails, TypeOK
  <2>2. Goto(p, "spin") /\ pc[p] = "sleep" /\ UNCHANGED <<wait, sem>>
    BY <1>12 DEF AwakeAnyway
  <2>3. Moves(p, "spin")
    BY <1>0, <2>1, <2>2
  <2> QED
    BY <2>3
<1>13. ASSUME NEW p \in Procs, PostFails(p) PROVE \E label : Moves(p, label)
  <2>1. failed'.post = failed.post + 1 /\ failed'.wait = failed.wait
    BY <1>13 DEF PostFails, Fails, TypeOK
  <2>2. Goto(p, "idle") /\ pc[p] = "post" /\ UNCHANGED <<wait, sem>>
    BY <1>13 DEF PostFails
  <2>3. Moves(p, "idle")
    BY <1>0, <2>1, <2>2
  <2> QED
    BY <2>3
<1>14. CASE UNCHANGED vars
  BY <1>3, <1>14 DEF vars
<1> HIDE DEF Moves
<1> QED
  BY <1>2, <1>3, <1>4, <1>5, <1>6, <1>7, <1>8, <1>9, <1>10, <1>11, <1>12, <1>13, <1>14
  DEF Next, Step

\* Every process counted in by ngx_shmtx_lock is matched by a count in wait, a
\* value of the semaphore or a post under way, so that wait going below 0 and
\* left-over posts never add up to a wakeup lost or invented: that takes a
\* sem_post or a sem_wait that fails, and each failure accounts for one.
THEOREM NoPostIsLost == Spec => []PostsBalance
<1>1. Init => PostsBalance
  <2> SUFFICES ASSUME Init PROVE PostsBalance
    OBVIOUS
  <2>1. Registered = {} /\ Posting = {}
    BY DEF Init, Registered, Posting
  <2> QED
    BY <2>1, FS_EmptySet DEF Init, PostsBalance
<1>2. TypeOK /\ PostsBalance /\ [Next]_vars => PostsBalance'
  BY BalanceStep
<1> QED
  BY <1>1, <1>2, TypeCorrect, PTL DEF Spec

-----------------------------------------------------------------------------
(***************************************************************************)
(* Sleepers.  Only the step that finds nobody to wake could leave them     *)
(* alone with a free lock, and PostsBalance makes it find one.             *)
(***************************************************************************)

\* Without the semaphore nobody sleeps and nobody wakes.
SpinsOnly == ~Semaphore => \A p \in Procs : pc[p] \in {"idle", "spin", "cs"}

LEMMA SpinsOnlyStep == ASSUME TypeOK, SpinsOnly, [Next]_vars PROVE SpinsOnly'
<1> SUFFICES ASSUME ~Semaphore, NEW q \in Procs PROVE pc'[q] \in {"idle", "spin", "cs"}
  BY DEF SpinsOnly
<1>1. pc \in [Procs -> {"idle", "spin", "cs"}]
  BY DEF SpinsOnly, TypeOK
<1>2. ASSUME NEW p \in Procs, Step(p) PROVE pc'[q] \in {"idle", "spin", "cs"}
  BY <1>1, <1>2 DEF Step, Goto, At, SpinSucceeds, SpinFails, Register, RetrySucceeds,
     RetryFails, Unregister, Awake, ngx_shmtx_unlock, WakeupReads, WakeupCmpSet, Post
<1>3. ASSUME NEW p \in Procs, ngx_shmtx_trylock(p) \/ ngx_shmtx_lock(p) \/ Crash(p)
      PROVE  pc'[q] \in {"idle", "spin", "cs"}
  BY <1>1, <1>3 DEF Goto, ngx_shmtx_trylock, ngx_shmtx_lock, Crash
<1>4. ASSUME NEW p \in Procs, NEW r \in Procs, ngx_shmtx_force_unlock(p, r)
      PROVE  pc'[q] \in {"idle", "spin", "cs"}
  BY <1>1, <1>4 DEF Goto, ngx_shmtx_force_unlock
<1>5. ASSUME NEW p \in Procs, AwakeAnyway(p) \/ PostFails(p)
      PROVE  pc'[q] \in {"idle", "spin", "cs"}
  BY <1>1, <1>5 DEF Goto, At, AwakeAnyway, PostFails
<1>6. CASE UNCHANGED vars
  BY <1>1, <1>6 DEF vars
<1> QED
  BY <1>2, <1>3, <1>4, <1>5, <1>6 DEF Next

LEMMA WakesStep ==
    ASSUME TypeOK, TypeOK', PostsBalance, SpinsOnly, SomebodyWakes, [Next]_vars
    PROVE  SomebodyWakes'
<1> SUFFICES ASSUME crashed' = {}, failed'.post = 0, lock' = 0, NEW s \in Procs, pc'[s] = "sleep", ~(sem' > 0),
                    \A p \in Procs : pc'[p] \in {"idle", "sleep"}
             PROVE  FALSE
  BY DEF SomebodyWakes
<1> USE DEF At, Goto, CmpSet
<1>0. Semaphore = FALSE \/ Semaphore = TRUE
  BY SpinAssumption
<1>1. ASSUME NEW p \in Procs, WakeupReads(p) PROVE FALSE
  <2>1. /\ UNCHANGED <<wait, sem, failed>> /\ wait <= 0 /\ pc' = [pc EXCEPT ![p] = "idle"]
    BY <1>1 DEF WakeupReads, TypeOK
  <2>2. PostsBalance'
    BY BalanceStep
  <2>3. sem' > 0
    <3>1. Posting' = {}
      BY DEF Posting
    <3>2. IsFiniteSet(Registered') /\ s \in Registered'
      BY ProcsAssumption, FS_Subset DEF Registered
    <3>3. Cardinality(Registered') \in Nat /\ Cardinality(Registered') # 0
      BY <3>2, FS_CardinalityType, FS_EmptySet
    <3>4. Cardinality(Posting') = 0
      BY <3>1, FS_EmptySet
    <3>5. wait' + sem' + Cardinality(Posting') + failed'.post
            = Cardinality(Registered') + failed'.wait
      BY <2>2 DEF PostsBalance
    <3> QED
      BY <2>1, <3>3, <3>4, <3>5 DEF TypeOK
  <2> QED
    BY <2>3
<1>2. ASSUME NEW p \in Procs,
             \/ ngx_shmtx_trylock(p) \/ SpinSucceeds(p) \/ RetrySucceeds(p)
             \/ RetryFails(p) \/ Post(p)
      PROVE  FALSE
  BY <1>2 DEF ngx_shmtx_trylock, SpinSucceeds, RetrySucceeds, RetryFails, Post, TypeOK
<1>3. ASSUME NEW p \in Procs,
             ngx_shmtx_lock(p) \/ SpinFails(p) \/ Register(p) \/ Unregister(p) \/ Awake(p)
      PROVE  FALSE
  <2>1. pc'[p] \notin {"idle", "sleep"}
    BY <1>0, <1>3 DEF ngx_shmtx_lock, SpinFails, Register, Unregister, Awake, TypeOK
  <2> QED
    BY <2>1
<1>4. ASSUME NEW p \in Procs, WakeupCmpSet(p) PROVE FALSE
  <2>1. pc'[p] \notin {"idle", "sleep"}
    BY <1>4 DEF WakeupCmpSet, TypeOK
  <2> QED
    BY <2>1
<1>5. ASSUME NEW p \in Procs, ngx_shmtx_unlock(p) PROVE FALSE
  <2>1. CASE Semaphore = TRUE
    <3>1. pc'[p] = "wakeread"
      BY <1>5, <2>1 DEF ngx_shmtx_unlock, TypeOK
    <3> QED
      BY <3>1
  <2>2. CASE Semaphore = FALSE
    <3>1. pc[s] = "sleep"
      BY <1>5, <2>2 DEF ngx_shmtx_unlock, TypeOK
    <3> QED
      BY <2>2, <3>1 DEF SpinsOnly
  <2> QED
    BY <1>0, <2>1, <2>2
<1>6. ASSUME NEW p \in Procs, NEW q \in Procs, ngx_shmtx_force_unlock(p, q) PROVE FALSE
  BY <1>6 DEF ngx_shmtx_force_unlock
<1>7. ASSUME NEW p \in Procs, Crash(p) PROVE FALSE
  BY <1>7 DEF Crash
<1>8. ASSUME NEW p \in Procs, AwakeAnyway(p) PROVE FALSE
  <2>1. pc'[p] = "spin"
    BY <1>8 DEF AwakeAnyway, TypeOK
  <2> QED
    BY <2>1
<1>9. ASSUME NEW p \in Procs, PostFails(p) PROVE FALSE
  <2>1. failed'.post = failed.post + 1 /\ failed.post \in Nat
    BY <1>9 DEF PostFails, Fails, TypeOK
  <2> QED
    BY <2>1
<1>10. CASE UNCHANGED vars
  BY <1>10 DEF vars, SomebodyWakes
<1> QED
  BY <1>1, <1>2, <1>3, <1>4, <1>5, <1>6, <1>7, <1>8, <1>9, <1>10 DEF Next, Step

\* While the lock is free, nobody has been killed and no sem_post has failed, a
\* process that sleeps in sem_wait is never alone: a post is there, or some process is on the way to
\* posting or to the lock, however many come, go, spin and are counted off.
THEOREM SleepersAreWoken == Spec => []SomebodyWakes
<1>1. Init => SpinsOnly /\ SomebodyWakes
  BY DEF Init, SpinsOnly, SomebodyWakes
<1>2. TypeOK /\ TypeOK' /\ PostsBalance /\ SpinsOnly /\ SomebodyWakes /\ [Next]_vars
        => SpinsOnly' /\ SomebodyWakes'
  BY SpinsOnlyStep, WakesStep
<1> QED
  BY <1>1, <1>2, TypeCorrect, NoPostIsLost, PTL DEF Spec
=============================================================================
