----------------------------- MODULE SortedList -----------------------------
(***************************************************************************)
(* What ngx_rbtree promises: a list of items that stays sorted, where an   *)
(* item goes behind those it does not differ from, and from which any item *)
(* can be taken out.  by is the order the list was created with.           *)
(***************************************************************************)
EXTENDS Naturals, Sequences, SequencesExt

CONSTANTS Items, Orders,
          Less(_, _, _)     \* Less(o, i, j): i comes before j in the order o
VARIABLES list, by

Init == list = <<>> /\ by \in Orders

\* The item t has at k is new in s, behind the last one it does not come before.
Inserted(s, t, k) ==
    /\ s = RemoveAt(t, k)
    /\ t[k] \in Items \ ToSet(s)
    /\ \A j \in 1 .. k - 1 : ~Less(by, t[k], t[j])
    /\ \A j \in k + 1 .. Len(t) : Less(by, t[k], t[j])

Insert(s, t) == Len(t) = Len(s) + 1 /\ \E k \in DOMAIN t : Inserted(s, t, k)
Delete(s, t) == Len(s) = Len(t) + 1 /\ \E k \in DOMAIN s : t = RemoveAt(s, k)

Next == /\ \E before \in {list}, after \in {list'} :
             Insert(before, after) \/ Delete(before, after)
        /\ UNCHANGED by
Spec == Init /\ [][Next]_<<list, by>>
=============================================================================
