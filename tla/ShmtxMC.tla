------------------------------ MODULE ShmtxMC ------------------------------
(* Four processes with small pids for TLC. *)
EXTENDS Shmtx, TLC

CONSTANTS p1, p2, p3, p4
MCPidOf == (p1 :> 2) @@ (p2 :> 3) @@ (p3 :> 4) @@ (p4 :> 5)
=============================================================================
