------------------------------- MODULE Queue -------------------------------
(***************************************************************************)
(* ngx_queue: circular doubly linked lists through their heads.  All there *)
(* is of a list is links in memory, and a head that has been given away    *)
(* keeps its old ones.                                                     *)
(***************************************************************************)
EXTENDS Integers, FiniteSets, Sequences, SequencesExt, FiniteSetsExt

CONSTANTS Items, Heads, Nowhere,
          Weight        \* Weight[i]: what the caller's cmp compares

ASSUME QueueAssumption ==
    /\ IsFiniteSet(Items) /\ Items \cap Heads = {} /\ Nowhere \notin Items \cup Heads
    /\ Weight \in [Items -> Int]

VARIABLES links,        \* prev and next of every head and item
          heads         \* heads their owners have initialised and not given away

queueVars == <<links, heads>>

ngx_queue_init(q, h) == [q EXCEPT !.prev[h] = h, !.next[h] = h]

ngx_queue_insert_head(q, h, x) ==
    [q EXCEPT !.next[x] = q.next[h], !.prev[q.next[h]] = x, !.prev[x] = h, !.next[h] = x]

ngx_queue_insert_tail(q, h, x) ==
    [q EXCEPT !.prev[x] = q.prev[h], !.next[q.prev[h]] = x, !.next[x] = h, !.prev[h] = x]

ngx_queue_remove(q, x) ==
    [q EXCEPT !.prev[q.next[x]] = q.prev[x], !.next[q.prev[x]] = q.next[x]]

ngx_queue_split(q, h, x, n) ==
    [q EXCEPT !.prev[n] = q.prev[h], !.next[q.prev[h]] = n, !.next[n] = x,
              !.prev[h] = q.prev[x], !.next[q.prev[x]] = h, !.prev[x] = n]

\* Fault: the last item of n is read before the first one is linked.
ngx_queue_add_early(q, h, n) ==
    [q EXCEPT !.next[q.prev[h]] = q.next[n], !.prev[q.next[n]] = q.prev[h],
              !.prev[h] = q.prev[n], !.next[q.prev[n]] = h]

\* Each assignment of the macro reads what the ones before it wrote: that
\* makes it right for an empty n, whose first item is n itself.
ngx_queue_add(q, h, n) ==
    LET q1 == [q EXCEPT !.next[q.prev[h]] = q.next[n]]
        q2 == [q1 EXCEPT !.prev[q1.next[n]] = q1.prev[h]]
        q3 == [q2 EXCEPT !.prev[h] = q2.prev[n]]
    IN  [q3 EXCEPT !.next[q3.prev[h]] = h]

\* No list has more steps from its head back to it.
Room == Cardinality(Items) + 1

\* Where each number of steps up to n along the links of one side leads from x.
Along(link, x, n) ==
    LET at[k \in 0..n] == IF k = 0 THEN x ELSE link[at[k - 1]]
    IN at

\* Fault: next passes the last item on its first step of a round.
MiddleByTwo(q, h) ==
    LET at == Along(q.next, h, 2 * Room + 1)
        ends == {k \in 1..Room : q.prev[h] = at[2 * k + 1]}
    IN at[Min(ends) + 1]

\* Each round takes middle one link on and next two: after k rounds they are
\* k + 1 and 2k + 1 links from the head.
MiddleOfMany(q, h) ==
    LET at == Along(q.next, h, 2 * Room + 1)
        ends == {k \in 1..Room : q.prev[h] \in {at[2 * k], at[2 * k + 1]}}
    IN at[Min(ends) + 1]

ngx_queue_middle(q, h) ==
    IF q.next[h] = q.prev[h] THEN q.next[h] ELSE MiddleOfMany(q, h)

cmp(a, b) == Weight[a] - Weight[b]

\* Back from prev to the item, or the head, behind which x belongs.
PlaceFor(q, h, prev, x) ==
    LET at == Along(q.prev, prev, Room)
    IN at[Min({k \in 0..Room : at[k] = h \/ cmp(at[k], x) <= 0})]

Moved(q, h, x) ==
    LET q1 == ngx_queue_remove(q, x)
    IN ngx_queue_insert_head(q1, PlaceFor(q1, h, q.prev[x], x), x)

\* Links and the next item to be moved, after each round.
ngx_queue_sort(q, h) ==
    LET round[k \in 0..Room] ==
            IF k = 0 THEN [q |-> q, x |-> q.next[q.next[h]]]
            ELSE LET before == round[k - 1] IN
                 IF before.x = h THEN before
                 ELSE [q |-> Moved(before.q, h, before.x), x |-> before.q.next[before.x]]
    IN IF q.next[h] = q.prev[h] THEN q ELSE round[Room].q

-----------------------------------------------------------------------------
\* What lies along the links of one side between h and h; a ring that does not
\* close is cut.
Ring(link, h) ==
    LET at == Along(link, h, Room)
        home == {k \in 1..Room : at[k] \in {h, Nowhere}}
    IN [k \in 1..(IF home = {} THEN Room ELSE Min(home) - 1) |-> at[k]]

Forth(h) == Ring(links.next, h)
Back(h)  == Ring(links.prev, h)

ItemsOf(h) == ToSet(Forth(h)) \cap Items
Linked(x)  == \E h \in heads : x \in ItemsOf(h)

\* Behind Nowhere is nowhere.
Memory == Items \cup Heads \cup {Nowhere}

QueueInit == /\ links = [prev |-> [x \in Memory |-> Nowhere], next |-> [x \in Memory |-> Nowhere]]
             /\ heads = {}

\* Owners keep to the protocol: an item is in one list at most, and only a head
\* that has been initialised is used.
Create(h) == /\ h \notin heads /\ heads' = heads \cup {h}
             /\ links' = ngx_queue_init(links, h)
AddFirst(h, x) == /\ ~Linked(x) /\ links' = ngx_queue_insert_head(links, h, x)
                  /\ UNCHANGED heads
AddLast(h, x) == /\ ~Linked(x) /\ links' = ngx_queue_insert_tail(links, h, x)
                 /\ UNCHANGED heads
\* The macro leaves the links of x as they are, but x is its owner's again, who
\* may free it: Nowhere is whatever those links are from then on.
TakeOut(h, x) == /\ x \in ItemsOf(h)
                 /\ links' = [ngx_queue_remove(links, x)
                                EXCEPT !.prev[x] = Nowhere, !.next[x] = Nowhere]
                 /\ UNCHANGED heads
Split(h, x, n) == /\ x \in ItemsOf(h) /\ n \notin heads
                  /\ links' = ngx_queue_split(links, h, x, n)
                  /\ heads' = heads \cup {n}
\* The added head still points into the list it has lost: its owner must not
\* use it before the next initialisation.
Merge(h, n) == /\ h # n /\ links' = ngx_queue_add(links, h, n)
               /\ heads' = heads \ {n}
Sort(h) == links' = ngx_queue_sort(links, h) /\ UNCHANGED heads

QueueNext ==
    \/ \E h \in Heads : Create(h)
    \/ \E h \in heads : \/ \E x \in Items : \/ AddFirst(h, x) \/ AddLast(h, x) \/ TakeOut(h, x)
                                            \/ \E n \in Heads : Split(h, x, n)
                        \/ \E n \in heads : Merge(h, n)
                        \/ Sort(h)

QueueSpec == QueueInit /\ [][QueueNext]_queueVars

-----------------------------------------------------------------------------
\* What no list of items is.
NoList == <<Nowhere>>

\* A head stands for a list if its links say the same in both directions.
ListOf(h) == IF h \in heads /\ Back(h) = Reverse(Forth(h)) THEN Forth(h) ELSE NoList
A == INSTANCE Lists WITH Absent <- NoList, lists <- [h \in Heads |-> ListOf(h)]

\* Joining, leaving, cutting, joining two lists and sorting are what they would
\* be on sequences, stable sorting included, whatever links a head still had
\* when it became one again.
ImplementsLists == A!Spec

\* ngx_queue_middle gives the middle item, the first of the second half when
\* the number is even; its two walks stop before they pass the head.
MiddleIsMiddle ==
    \A h \in heads : LET s == Forth(h) IN
        s # <<>> => ngx_queue_middle(links, h) = s[Len(s) \div 2 + 1]
=============================================================================
