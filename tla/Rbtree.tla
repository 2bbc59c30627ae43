------------------------------- MODULE Rbtree -------------------------------
(***************************************************************************)
(* ngx_rbtree: a red-black tree of nodes that live in their owners'        *)
(* structures.  The tree is its memory: links, keys and colours of the     *)
(* nodes and of the sentinel, which is the empty child of every leaf and   *)
(* whose parent deletion uses as scratch.  Left and right are the indices  *)
(* of one child function, so that a mirrored half of the code is the same  *)
(* definition with the sides exchanged.                                    *)
(***************************************************************************)
EXTENDS Integers, FiniteSets, Sequences, SequencesExt, FiniteSetsExt

CONSTANTS Nodes, Sentinel, NULL,
          Kinds,        \* insert functions a tree is created with
          HalfRange,    \* half the number of keys there are
          Time,         \* Time[n]: when the timer of node n expires, without overflow
          Value,        \* Value[n]: the key of n in an ordinary tree
          Hash, Str     \* of the string of n

ASSUME TreeAssumption ==
    /\ IsFiniteSet(Nodes) /\ Sentinel \notin Nodes /\ NULL \notin Nodes \cup {Sentinel}
    /\ Kinds \subseteq {"value", "timer", "str"}
    /\ HalfRange \in Nat \ {0}
    /\ Time \in [Nodes -> Nat] /\ Value \in [Nodes -> Nat] /\ Hash \in [Nodes -> Nat]
    /\ \A m, n \in Nodes : Time[m] - Time[n] < HalfRange
    /\ Str \in [Nodes -> Seq(Nat)]

VARIABLE tree

Cells == Nodes \cup {Sentinel}
Sides == {"left", "right"}
Opposite == [left |-> "right", right |-> "left"]

ngx_rbtree_init(kind) ==
    [root |-> Sentinel, insert |-> kind,
     child |-> [d \in Sides |-> [n \in Cells |-> NULL]],
     parent |-> [n \in Cells |-> NULL],
     key |-> [n \in Cells |-> 0], red |-> [n \in Cells |-> FALSE]]

\* The key the owner gives its node before the node is inserted.
KeyFor(kind, n) == CASE kind = "value" -> Value[n]
                     [] kind = "timer" -> Time[n] % (2 * HalfRange)
                     [] kind = "str"   -> Hash[n]

\* The nodes linked into the tree, and the most rounds a climb through it takes.
Inside(t) == {n \in Nodes : t.child["left"][n] # NULL}
Longest == Cardinality(Nodes)

SideOf(t, n) == IF n = t.child["left"][t.parent[n]] THEN "left" ELSE "right"

\* by takes the place of n below the parent of n.
Replace(t, n, by) == IF n = t.root THEN [t EXCEPT !.root = by]
                     ELSE [t EXCEPT !.child[SideOf(t, n)][t.parent[n]] = by]

\* Fault: the sentinel gets a parent like any child.
AdoptAlways(t, child, n) == [t EXCEPT !.parent[child] = n]

\* The sentinel, child of many, keeps the parent a deletion gave it.
Adopt(t, child, n) == IF child = Sentinel THEN t ELSE [t EXCEPT !.parent[child] = n]

\* n goes below up on side d, and the inner child of up below n.
Lower(t, n, d, up, inner) ==
    [t EXCEPT !.child[Opposite[d]][n] = inner, !.child[d][up] = n,
              !.parent[up] = t.parent[n], !.parent[n] = up]

\* ngx_rbtree_left_rotate and ngx_rbtree_right_rotate: n goes down on side d.
Rotate(t, n, d) ==
    LET up    == t.child[Opposite[d]][n]
        inner == t.child[d][up]
    IN  Lower(Replace(Adopt(t, inner, n), n, up), n, d, up, inner)

\* Left as long as there is a left child.
ngx_rbtree_min(t, n) ==
    LET min[m \in Inside(t)] == IF t.child["left"][m] = Sentinel THEN m
                                ELSE min[t.child["left"][m]]
    IN  min[n]

-----------------------------------------------------------------------------
(* Insertion.                                                              *)

\* Of strings of one length: their first different bytes decide.
ngx_memcmp(s, t) == LET differ == {i \in DOMAIN s : s[i] # t[i]}
                    IN  IF differ = {} THEN 0 ELSE s[Min(differ)] - t[Min(differ)]

\* A subtraction in ngx_rbtree_key_int_t.
Signed(x) == LET r == x % (2 * HalfRange)
             IN  IF r < HalfRange THEN r ELSE r - 2 * HalfRange

\* Fault: timer keys are compared like ordinary ones.
GoesLeftUnsigned(t, n, at) == t.key[n] < t.key[at]

\* The comparison of the insert function: does n belong on the left of at?
GoesLeft(t, n, at) ==
    CASE t.insert = "value" -> t.key[n] < t.key[at]
      [] t.insert = "timer" -> Signed(t.key[n] - t.key[at]) < 0
      [] t.insert = "str"   -> IF t.key[n] # t.key[at] THEN t.key[n] < t.key[at]
                               ELSE IF Len(Str[n]) # Len(Str[at])
                               THEN Len(Str[n]) < Len(Str[at])
                               ELSE ngx_memcmp(Str[n], Str[at]) < 0

\* ngx_rbtree_insert_value, ngx_rbtree_insert_timer_value and
\* ngx_str_rbtree_insert_value: n becomes a red leaf.
Branch(t, n, at) == IF GoesLeft(t, n, at) THEN "left" ELSE "right"
InsertBelow(t, n) ==
    LET place[m \in Inside(t)] == LET c == t.child[Branch(t, n, m)][m]
                                  IN  IF c = Sentinel THEN m ELSE place[c]
        temp == place[t.root]
    IN  [t EXCEPT !.child[Branch(t, n, temp)][temp] = n, !.parent[n] = temp,
                  !.child["left"][n] = Sentinel, !.child["right"][n] = Sentinel,
                  !.red[n] = TRUE]

\* A round of the loop that rebalances the tree above n, which is red like its
\* parent: the tree and the node the next round looks at.
Raised(t, n) ==
    LET p == t.parent[n]
        g == t.parent[p]
        d == SideOf(t, p)
        o == Opposite[d]
        uncle == t.child[o][g]
        inner == n = t.child[o][p]
        t1 == IF inner THEN Rotate(t, p, d) ELSE t
        m  == IF inner THEN p ELSE n
        t2 == [t1 EXCEPT !.red[t1.parent[m]] = FALSE, !.red[g] = TRUE]
    IN  IF t.red[uncle]
        THEN [tree |-> [t EXCEPT !.red[p] = FALSE, !.red[uncle] = FALSE, !.red[g] = TRUE],
              at |-> g]
        ELSE [tree |-> Rotate(t2, g, o), at |-> m]

Rebalance(t, n) ==
    LET round[k \in 0..Longest] ==
            IF k = 0 THEN [tree |-> t, at |-> n]
            ELSE LET r == round[k - 1] IN
                 IF r.at = r.tree.root \/ ~r.tree.red[r.tree.parent[r.at]] THEN r
                 ELSE Raised(r.tree, r.at)
        last == round[Longest].tree
    IN  [last EXCEPT !.red[last.root] = FALSE]

InsertInto(t, n) ==
    IF t.root = Sentinel
    THEN [t EXCEPT !.root = n, !.parent[n] = NULL, !.child["left"][n] = Sentinel,
                   !.child["right"][n] = Sentinel, !.red[n] = FALSE]
    ELSE Rebalance(InsertBelow(t, n), n)

-----------------------------------------------------------------------------
(* Deletion.                                                               *)

\* subst moves to the place, the colour and the children of n.
Transplant(t, n, subst) ==
    LET t1 == Replace([t EXCEPT !.child["left"][subst] = t.child["left"][n],
                                !.child["right"][subst] = t.child["right"][n],
                                !.parent[subst] = t.parent[n], !.red[subst] = t.red[n]],
                      n, subst)
    IN  Adopt(Adopt(t1, t1.child["left"][subst], subst), t1.child["right"][subst], subst)

\* A red sibling of x, on the other side of d, goes up; the new one is black.
WithBlackSibling(t, x, d) ==
    LET p == t.parent[x]
        w == t.child[Opposite[d]][p]
    IN  IF ~t.red[w] THEN t ELSE Rotate([t EXCEPT !.red[w] = FALSE, !.red[p] = TRUE], p, d)

\* A black outer child of the sibling is exchanged for the inner one, which is red.
WithRedOuter(t, x, d) ==
    LET o == Opposite[d]
        w == t.child[o][t.parent[x]]
    IN  IF t.red[t.child[o][w]] THEN t
        ELSE Rotate([t EXCEPT !.red[t.child[d][w]] = FALSE, !.red[w] = TRUE], w, o)

\* The sibling takes the place and the colour of the parent, which becomes black.
Balanced(t, x, d) ==
    LET o == Opposite[d]
        p == t.parent[x]
        w == t.child[o][p]
    IN  Rotate([t EXCEPT !.red[w] = t.red[p], !.red[p] = FALSE, !.red[t.child[o][w]] = FALSE], p, d)

\* A round of the loop that repairs the tree after a black node is gone from
\* above x, which may be the sentinel: the tree and what the next round looks at.
Repaired(t, x) ==
    LET d  == SideOf(t, x)
        t1 == WithBlackSibling(t, x, d)
        w  == t1.child[Opposite[d]][t1.parent[x]]
        t3 == Balanced(WithRedOuter(t1, x, d), x, d)
    IN  IF \A e \in Sides : ~t1.red[t1.child[e][w]]
        THEN [tree |-> [t1 EXCEPT !.red[w] = TRUE], at |-> t1.parent[x]]
        ELSE [tree |-> t3, at |-> t3.root]

DeleteFixup(t, x) ==
    LET round[k \in 0..Longest] ==
            IF k = 0 THEN [tree |-> t, at |-> x]
            ELSE LET r == round[k - 1] IN
                 IF r.at = r.tree.root \/ r.tree.red[r.at] THEN r
                 ELSE Repaired(r.tree, r.at)
        last == round[Longest]
    IN  [last.tree EXCEPT !.red[last.at] = FALSE]

\* The "DEBUG stuff" done to a node that has left the tree; its colour stays,
\* but no node outside the tree is asked for it, and insertion sets it anew.
Clear(t, n) == [t EXCEPT !.child["left"][n] = NULL, !.child["right"][n] = NULL,
                         !.parent[n] = NULL, !.key[n] = 0, !.red[n] = FALSE]

DeleteFrom(t, n) ==
    LET both  == t.child["left"][n] # Sentinel /\ t.child["right"][n] # Sentinel
        subst == IF both THEN ngx_rbtree_min(t, t.child["right"][n]) ELSE n
        temp  == IF t.child["left"][subst] # Sentinel THEN t.child["left"][subst]
                 ELSE t.child["right"][subst]
        sp    == t.parent[subst]
        t1    == [t EXCEPT !.child[SideOf(t, subst)][sp] = temp,
                           !.parent[temp] = IF both /\ sp = n THEN subst ELSE sp]
        t2    == Clear(IF both THEN Transplant(t1, n, subst) ELSE t1, n)
    IN  IF subst = t.root
        THEN Clear([t EXCEPT !.root = temp, !.red[temp] = FALSE], n)
        ELSE IF t.red[subst] THEN t2 ELSE DeleteFixup(t2, temp)

-----------------------------------------------------------------------------
(* Walking and searching.                                                  *)

\* Up from a node without right child to the first parent it is left of.
Climb(t, n) ==
    LET climb[m \in Inside(t)] == IF m = t.root THEN NULL
                                  ELSE IF m = t.child["left"][t.parent[m]] THEN t.parent[m]
                                  ELSE climb[t.parent[m]]
    IN  climb[n]

ngx_rbtree_next(t, n) ==
    IF t.child["right"][n] # Sentinel THEN ngx_rbtree_min(t, t.child["right"][n])
    ELSE Climb(t, n)

\* Fault: equal hashes send the lookup left.
CompareByHash(t, n, val, hash) ==
    IF hash = t.key[n] /\ val = Str[n] THEN 0 ELSE IF hash <= t.key[n] THEN -1 ELSE 1

\* What is looked for against n.
Compare(t, n, val, hash) ==
    IF hash # t.key[n] THEN hash - t.key[n]
    ELSE IF Len(val) # Len(Str[n]) THEN Len(val) - Len(Str[n])
    ELSE ngx_memcmp(val, Str[n])

ngx_str_rbtree_lookup(t, val, hash) ==
    LET lookup[n \in Inside(t) \cup {Sentinel}] ==
            IF n = Sentinel THEN NULL
            ELSE LET c == Compare(t, n, val, hash)
                 IN  IF c = 0 THEN n ELSE lookup[t.child[IF c < 0 THEN "left" ELSE "right"][n]]
    IN  lookup[t.root]

-----------------------------------------------------------------------------
(* Owners of nodes insert and delete them.                                 *)

InTree(n) == n \in Inside(tree)

ngx_rbtree_insert(n) ==
    /\ ~InTree(n)
    /\ tree' = InsertInto([tree EXCEPT !.key[n] = KeyFor(tree.insert, n)], n)

ngx_rbtree_delete(n) ==
    /\ InTree(n)
    /\ tree' = DeleteFrom(tree, n)

TreeInit == \E kind \in Kinds : tree = ngx_rbtree_init(kind)
TreeNext == \E n \in Nodes : ngx_rbtree_insert(n) \/ ngx_rbtree_delete(n)
TreeSpec == TreeInit /\ [][TreeNext]_tree

-----------------------------------------------------------------------------
(* What must hold.                                                         *)

\* The nodes from the smallest on, by ngx_rbtree_min and ngx_rbtree_next.
Walk ==
    LET from[n \in Inside(tree) \cup {NULL}] ==
            IF n = NULL THEN <<>> ELSE <<n>> \o from[ngx_rbtree_next(tree, n)]
    IN  IF tree.root = Sentinel THEN <<>> ELSE from[ngx_rbtree_min(tree, tree.root)]

\* The order the owner of the nodes means.
LessString(m, n) ==
    \/ Len(Str[m]) < Len(Str[n])
    \/ /\ Len(Str[m]) = Len(Str[n])
       /\ \E i \in DOMAIN Str[m] : /\ Str[m][i] < Str[n][i]
                                  /\ \A j \in 1 .. i - 1 : Str[m][j] = Str[n][j]
Comes(kind, m, n) ==
    CASE kind = "value" -> Value[m] < Value[n]
      [] kind = "timer" -> Time[m] < Time[n]
      [] kind = "str"   -> Hash[m] < Hash[n] \/ (Hash[m] = Hash[n] /\ LessString(m, n))

L == INSTANCE SortedList WITH Items <- Nodes, Orders <- Kinds, Less <- Comes,
                              list <- Walk, by <- tree.insert

\* However insertions and deletions are mixed, walking the tree lists its nodes
\* in the order meant, equal ones in the order they came, timers across an
\* overflow of their keys, and no step loses, repeats or moves another node.
ImplementsSortedList == L!Spec

\* The number of black nodes down from the root, or -1 when two ways down differ.
BlackHeight(t) ==
    LET height[n \in Inside(t) \cup {Sentinel}] ==
            IF n = Sentinel THEN 0
            ELSE LET l == height[t.child["left"][n]]
                     r == height[t.child["right"][n]]
                 IN  IF l # r \/ l = -1 THEN -1 ELSE IF t.red[n] THEN l ELSE l + 1
    IN  height[t.root]

\* A red-black tree after every rotation and recolouring: black root and
\* sentinel, no red node below a red one, as many black nodes on every way
\* down, and links up that match the links down.  Only the parent of the root
\* may be anything: deleting the root leaves its successor pointing at it.
RedBlack ==
    /\ ~tree.red[Sentinel] /\ ~tree.red[tree.root]
    /\ \A n \in Nodes : InTree(n) => \A d \in Sides :
         LET c == tree.child[d][n] IN
           c # Sentinel => /\ tree.parent[c] = n /\ c # tree.root
                           /\ ~(tree.red[n] /\ tree.red[c])
    /\ BlackHeight(tree) # -1

\* ngx_str_rbtree_lookup finds a node with the string and hash asked for
\* whenever one is in the tree, hashes that collide included, and nothing else.
LookupFinds ==
    tree.insert = "str" => \A n \in Nodes :
        LET found == ngx_str_rbtree_lookup(tree, Str[n], Hash[n])
            same  == {m \in Nodes : InTree(m) /\ Str[m] = Str[n] /\ Hash[m] = Hash[n]}
        IN  IF same = {} THEN found = NULL ELSE found \in same
=============================================================================
