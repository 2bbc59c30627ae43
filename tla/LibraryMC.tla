----------------------------- MODULE LibraryMC -----------------------------
(* The queue and the tree, which share nothing: one of them is used while   *)
(* the other one has not been touched.                                      *)
EXTENDS Queue, Rbtree, TLC

MCNodes  == 1 .. 7
MCItems  == {"a", "b", "c", "d"}
MCWeight == [a |-> 1, b |-> 2, c |-> 2, d |-> 0]

\* Two nodes have the same key, time or string; keys of four bits overflow
\* between the third and the fourth timer; hashes collide.
MCValue == <<3, 5, 5, 1, 8, 7, 2>>
MCTime  == <<13, 14, 15, 16, 17, 17, 19>>
MCHash  == <<1, 1, 1, 1, 2, 1, 0>>
MCStr   == <<<<1>>, <<2>>, <<1, 1>>, <<1, 1>>, <<1>>, <<1, 2>>, <<1>>>>

Init == QueueInit /\ TreeInit
Next == \/ QueueNext /\ tree.root = Sentinel /\ tree.parent = [n \in Cells |-> NULL]
           /\ UNCHANGED tree
        \/ TreeNext /\ heads = {} /\ QueueInit
           /\ UNCHANGED queueVars
Spec == Init /\ [][Next]_<<queueVars, tree>>
=============================================================================
