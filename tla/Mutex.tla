------------------------------- MODULE Mutex -------------------------------
(***************************************************************************)
(* What ngx_shmtx promises: a lock held by at most one process at a time,  *)
(* taken when it is free and given back by its holder.                     *)
(***************************************************************************)
CONSTANTS Procs, Nobody
VARIABLE holder

Init == holder = Nobody

Acquire(p) == holder = Nobody /\ holder' = p
Release(p) == holder = p /\ holder' = Nobody

Next == \E p \in Procs : Acquire(p) \/ Release(p)
Spec == Init /\ [][Next]_holder
=============================================================================
