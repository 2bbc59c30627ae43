------------------------------- MODULE Lists -------------------------------
(***************************************************************************)
(* What ngx_queue promises: several lists, which items join and leave,     *)
(* which are cut in two, joined and sorted.  A head of which no list is    *)
(* kept has the value Absent.                                              *)
(***************************************************************************)
EXTENDS Naturals, Sequences, FiniteSets, SequencesExt

CONSTANTS Items, Heads, Absent,
          Weight        \* Weight[i]: what items are compared by
VARIABLE lists

Lists == {h \in Heads : lists[h] # Absent}
Free(i) == \A h \in Lists : i \notin ToSet(lists[h])

\* s ordered by weight, items of equal weight in the order they had.
StableSort(s) ==
    LET place(i) == Cardinality({j \in DOMAIN s : \/ Weight[s[j]] < Weight[s[i]]
                                                  \/ Weight[s[j]] = Weight[s[i]] /\ j <= i})
    IN  [k \in DOMAIN s |-> s[CHOOSE i \in DOMAIN s : place(i) = k]]

Init == lists = [h \in Heads |-> Absent]

Start(h) == lists[h] = Absent /\ lists' = [lists EXCEPT ![h] = <<>>]
PutFirst(h, i) == Free(i) /\ lists' = [lists EXCEPT ![h] = <<i>> \o @]
PutLast(h, i)  == Free(i) /\ lists' = [lists EXCEPT ![h] = Append(@, i)]
Leave(h, k) == lists' = [lists EXCEPT ![h] = RemoveAt(@, k)]
Sort(h) == lists' = [lists EXCEPT ![h] = StableSort(@)]

\* From its k-th item on the list of h becomes the list of n.
Cut(h, n, k) == /\ lists[n] = Absent
                /\ lists' = [lists EXCEPT ![h] = SubSeq(@, 1, k - 1),
                                          ![n] = SubSeq(lists[h], k, Len(lists[h]))]
Join(h, n) == /\ h # n
              /\ lists' = [lists EXCEPT ![h] = @ \o lists[n], ![n] = Absent]

Next == \/ \E h \in Heads : Start(h)
        \/ \E h \in Lists : \/ \E i \in Items : PutFirst(h, i) \/ PutLast(h, i)
                            \/ \E k \in DOMAIN lists[h] : Leave(h, k)
                            \/ Sort(h)
                            \/ \E n \in Heads, k \in DOMAIN lists[h] : Cut(h, n, k)
                            \/ \E n \in Lists : Join(h, n)
Spec == Init /\ [][Next]_lists
=============================================================================
