----------------------------- MODULE TracersMC -----------------------------
(* A loop of a function of two bytes, a call of write(2), one of another     *)
(* system call, a second write(2), and the end.                             *)
EXTENDS Tracers, TLC

MCInstr == {2, 4, 6, 7, 9, 11}
MCSucc == (2 :> {4}) @@ (4 :> {6}) @@ (6 :> {4, 7}) @@ (7 :> {9}) @@ (9 :> {2, 11})
          @@ (11 :> {11})
=============================================================================
