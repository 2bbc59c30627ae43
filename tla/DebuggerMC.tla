----------------------------- MODULE DebuggerMC -----------------------------
(***************************************************************************)
(* A small image for TLC: a function of one-byte instructions at 5 that    *)
(* jumps back to a function at 1, whose instructions are two bytes long.   *)
(***************************************************************************)
EXTENDS DebuggerProps, TLC

MCInstr == {1, 3, 5, 6}
MCSucc  == (1 :> {3}) @@ (3 :> {5}) @@ (5 :> {6}) @@ (6 :> {1})
=============================================================================
