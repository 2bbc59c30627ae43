------------------------------- MODULE PoolMC -------------------------------
(* Callers are interchangeable. *)
EXTENDS Pool, TLC

CONSTANTS h1, h2, a1

Symmetry == Permutations(Handles)
=============================================================================
