------------------------- MODULE RbtreeInsert_proof -------------------------
(***************************************************************************)
(* The shape of a tree, its rotation and its colours, and insertion.  The  *)
(* nodes have positions from left to right, and the subtree of each covers *)
(* the positions between two bounds: that the links make one tree, and     *)
(* that the loops end, are statements about these numbers.                 *)
(***************************************************************************)
EXTENDS Rbtree, WellFoundedInduction, FiniteSetTheorems, SequenceTheorems, TLAPS

-----------------------------------------------------------------------------
(* Numbers.                                                                *)

\* The order of the numbers is well founded.
LEMMA LessIsWellFounded == IsWellFoundedOn({ss \in Nat \X Nat : ss[1] < ss[2]}, Nat)
BY NatLessThanWellFounded DEF OpToRel

\* Every set of numbers has a least one.
LEMMA LeastExists ==
    ASSUME NEW S \in SUBSET Nat, S # {}
    PROVE  \E i \in S : \A j \in S : i <= j
<1> DEFINE R == {ss \in Nat \X Nat : ss[1] < ss[2]}
<1>1. PICK i \in S : \A j \in S : ~(<<j, i>> \in R)
  <2> HIDE DEF R
  <2>1. IsWellFoundedOn(R, Nat)
    BY LessIsWellFounded DEF R
  <2> QED
    BY <2>1, WFMin
<1>2. ASSUME NEW j \in S PROVE i <= j
  <2>1. i \in Nat /\ j \in Nat
    OBVIOUS
  <2>2. <<j, i>> \in R <=> j < i
    BY <2>1, Zenon
  <2>3. ~(<<j, i>> \in R)
    BY <1>1
  <2> HIDE DEF R
  <2> QED
    BY <2>1, <2>2, <2>3
<1> QED
  BY <1>2

\* Induction for a set instead of a formula.
LEMMA EveryNumber ==
    ASSUME NEW S, 0 \in S, \A n \in Nat : n \in S => n + 1 \in S
    PROVE  \A n \in Nat : n \in S
<1> SUFFICES ASSUME Nat \ S # {} PROVE FALSE
  OBVIOUS
<1>1. PICK i \in Nat \ S : \A j \in Nat \ S : i <= j
  <2> DEFINE T == Nat \ S
  <2>1. T \in SUBSET Nat /\ T # {}
    OBVIOUS
  <2> HIDE DEF T
  <2>2. \E i \in T : \A j \in T : i <= j
    BY <2>1, LeastExists
  <2> QED
    BY <2>2 DEF T
<1>2. i # 0 /\ i - 1 \in Nat
  BY <1>1
<1>3. i - 1 \in S
  BY <1>1, <1>2
<1>4. (i - 1) + 1 \in S
  BY <1>2, <1>3
<1> QED
  BY <1>1, <1>4

\* g goes n steps from x on.
Iterates(g, n, x, step) == /\ DOMAIN g = 0..n /\ g = [k \in 0..n |-> g[k]] /\ g[0] = x
                           /\ \A k \in 1..n : g[k] = step[g[k - 1]]

\* Any number of steps can be gone.
LEMMA IterationExists ==
    ASSUME NEW n \in Nat, NEW x, NEW step
    PROVE  \E g : Iterates(g, n, x, step)
<1> DEFINE S == {m \in Nat : \E g : Iterates(g, m, x, step)}
<1>1. 0 \in S
  <2> DEFINE g == [k \in 0..0 |-> x]
  <2>1. Iterates(g, 0, x, step)
    BY DEF Iterates
  <2> QED
    BY <2>1
<1>2. ASSUME NEW m \in Nat, m \in S PROVE m + 1 \in S
  <2>1. PICK f : Iterates(f, m, x, step)
    BY <1>2
  <2>2. DOMAIN f = 0..m /\ f[0] = x /\ \A k \in 1..m : f[k] = step[f[k - 1]]
    BY <2>1 DEF Iterates
  <2> DEFINE g == [k \in 0 .. m + 1 |-> IF k = m + 1 THEN step[f[m]] ELSE f[k]]
  <2>3. /\ DOMAIN g = 0 .. m + 1 /\ g = [k \in 0 .. m + 1 |-> g[k]]
        /\ \A k \in 0..m : g[k] = f[k]
        /\ g[m + 1] = step[f[m]]
    OBVIOUS
  <2> HIDE DEF g
  <2>4. g[0] = x
    BY SMTT(40), <2>2, <2>3
  <2>5. ASSUME NEW k \in 1 .. m + 1 PROVE g[k] = step[g[k - 1]]
    <3>1. CASE k = m + 1
      <4>1. k - 1 = m /\ m \in 0..m
        BY <3>1
      <4> QED
        BY <2>3, <3>1, <4>1
    <3>2. CASE k # m + 1
      <4>1. k \in 1..m /\ k \in 0..m /\ k - 1 \in 0..m
        BY <3>2
      <4> QED
        BY <2>2, <2>3, <4>1
    <3> QED
      BY ZenonT(60), <3>1, <3>2
  <2>6. Iterates(g, m + 1, x, step)
    BY <2>3, <2>4, <2>5 DEF Iterates
  <2> QED
    BY <2>6
<1> HIDE DEF S
<1>3. \A m \in Nat : m \in S
  BY <1>1, <1>2, EveryNumber
<1> QED
  BY <1>3 DEF S

-----------------------------------------------------------------------------
(* The shape of a tree.                                                    *)

\* What the memory of a tree may hold.
Trees == [root: Cells, insert: Kinds,
          child: [Sides -> [Cells -> Cells \cup {NULL}]],
          parent: [Cells -> Cells \cup {NULL}],
          key: [Cells -> Int], red: [Cells -> BOOLEAN]]

\* Where the node next to n on side d is.
Next(d, i) == IF d = "left" THEN i - 1 ELSE i + 1

\* pos numbers the nodes of T from left to right; the subtree of n covers the
\* positions between its bounds b["left"][n] and b["right"][n], both
\* excluded. Of two nodes, one is in a subtree of the other on the proper
\* side, or their subtrees are apart.
Ordered(T, N, pos, b) ==
    /\ T \in SUBSET Nodes /\ N \in Nat /\ pos \in [Nodes -> Int] /\ b \in [Sides -> [Nodes -> Int]]
    /\ \A n \in T : /\ 0 <= b["left"][n] /\ b["left"][n] < pos[n]
                    /\ pos[n] < b["right"][n] /\ b["right"][n] <= N + 1
    /\ \A m, n \in T : pos[m] = pos[n] => m = n
    /\ \A m, n \in T : pos[m] < pos[n] =>
         \/ b["right"][m] <= pos[n] /\ b["left"][n] <= b["left"][m]
         \/ pos[m] <= b["left"][n] /\ b["right"][n] <= b["right"][m]
         \/ b["right"][m] <= b["left"][n]

\* The subtree of the root covers all N positions.
Rooted(t, T, N, b) ==
    IF T = {} THEN t.root = Sentinel
    ELSE t.root \in T /\ b["left"][t.root] = 0 /\ b["right"][t.root] = N + 1

\* The child of n on side d covers what n covers on that side; the child is
\* the sentinel when that is nothing.
HasChild(t, T, pos, b, n, d) ==
    LET c == t.child[d][n]
    IN  IF b[d][n] = Next(d, pos[n]) THEN c = Sentinel
        ELSE /\ c \in T /\ t.parent[c] = n
             /\ b[d][c] = b[d][n] /\ b[Opposite[d]][c] = pos[n]

\* n is the child of its parent.
HasParent(t, T, n) ==
    n # t.root => t.parent[n] \in T /\ \E d \in Sides : t.child[d][t.parent[n]] = n

\* The links down and up between the nodes of T make one binary tree.
Shape(t, T, N, pos, b) ==
    /\ t \in Trees /\ Ordered(T, N, pos, b) /\ Rooted(t, T, N, b)
    /\ \A n \in T : \A d \in Sides : HasChild(t, T, pos, b, n, d)
    /\ \A n \in T : HasParent(t, T, n)

\* There are two sides.
LEMMA SideFacts ==
    /\ Sides = {"left", "right"} /\ "left" # "right"
    /\ Opposite["left"] = "right" /\ Opposite["right"] = "left"
BY DEF Sides, Opposite

\* The opposite of a side is the other one.
LEMMA Opposites ==
    ASSUME NEW d \in Sides
    PROVE  /\ Opposite[d] \in Sides /\ Opposite[Opposite[d]] = d /\ Opposite[d] # d
           /\ \A e \in Sides : e # d => e = Opposite[d]
BY SideFacts

\* The sentinel and NULL are no nodes, and the nodes are finitely many.
LEMMA CellFacts ==
    /\ Sentinel \notin Nodes /\ NULL \notin Cells /\ Cells = Nodes \cup {Sentinel}
    /\ Sentinel # NULL /\ IsFiniteSet(Nodes)
BY TreeAssumption DEF Cells

\* What the fields of a tree may hold.
LEMMA TreeFields ==
    ASSUME NEW t \in Trees
    PROVE  /\ t.root \in Cells /\ t.insert \in Kinds
           /\ t.child \in [Sides -> [Cells -> Cells \cup {NULL}]]
           /\ t.parent \in [Cells -> Cells \cup {NULL}]
           /\ t.key \in [Cells -> Int] /\ t.red \in [Cells -> BOOLEAN]
           /\ t = [root |-> t.root, insert |-> t.insert, child |-> t.child,
                   parent |-> t.parent, key |-> t.key, red |-> t.red]
BY DEF Trees

\* No node has two parents, or is on both sides of one.
LEMMA OneParent ==
    ASSUME NEW t, NEW T, NEW N, NEW pos, NEW b, Shape(t, T, N, pos, b),
           NEW m \in T, NEW d \in Sides, NEW n \in T, NEW e \in Sides,
           t.child[d][m] = t.child[e][n], t.child[d][m] # Sentinel
    PROVE  m = n /\ d = e
<1>1. /\ t.child[d][m] \in T /\ t.parent[t.child[d][m]] = m
      /\ b[d][t.child[d][m]] = b[d][m] /\ b[Opposite[d]][t.child[d][m]] = pos[m]
  BY DEF Shape, HasChild
<1>2. /\ t.parent[t.child[e][n]] = n
      /\ b[e][t.child[e][n]] = b[e][n] /\ b[Opposite[e]][t.child[e][n]] = pos[n]
  BY DEF Shape, HasChild
<1>3. m = n
  BY <1>1, <1>2
<1>4. b[d][m] # pos[m]
  BY SideFacts DEF Shape, Ordered
<1> QED
  BY <1>1, <1>2, <1>3, <1>4, SideFacts

\* Assignments to one field of one node.
WithChild(t, e, m, c) == [t EXCEPT !.child[e][m] = c]
WithParent(t, m, c) == [t EXCEPT !.parent[m] = c]
WithRed(t, m, c) == [t EXCEPT !.red[m] = c]
WithRoot(t, c) == [t EXCEPT !.root = c]

\* What such an assignment leaves as it was.
ChildSet(t, u, e, m, c) ==
    /\ u \in Trees /\ u.root = t.root /\ u.parent = t.parent
    /\ u.red = t.red /\ u.key = t.key /\ u.insert = t.insert
    /\ \A f \in Sides, k \in Cells : u.child[f][k] = IF f = e /\ k = m THEN c ELSE t.child[f][k]
ParentSet(t, u, m, c) ==
    /\ u \in Trees /\ u.root = t.root /\ u.child = t.child
    /\ u.red = t.red /\ u.key = t.key /\ u.insert = t.insert
    /\ \A k \in Cells : u.parent[k] = IF k = m THEN c ELSE t.parent[k]
RedSet(t, u, m, c) ==
    /\ u \in Trees /\ u.root = t.root /\ u.child = t.child /\ u.parent = t.parent
    /\ u.key = t.key /\ u.insert = t.insert
    /\ \A k \in Cells : u.red[k] = IF k = m THEN c ELSE t.red[k]
RootSet(t, u, c) ==
    /\ u \in Trees /\ u.root = c /\ u.child = t.child /\ u.parent = t.parent
    /\ u.red = t.red /\ u.key = t.key /\ u.insert = t.insert

\* Assigning a child changes nothing else.
LEMMA SetChild ==
    ASSUME NEW t \in Trees, NEW e \in Sides, NEW m \in Cells, NEW c \in Cells \cup {NULL}
    PROVE  ChildSet(t, WithChild(t, e, m, c), e, m, c)
<1>0. PICK u : u = WithChild(t, e, m, c)
  OBVIOUS
<1>1. /\ u.child = [t.child EXCEPT ![e][m] = c] /\ u.root = t.root
      /\ u.parent = t.parent /\ u.red = t.red /\ u.key = t.key /\ u.insert = t.insert
  BY <1>0 DEF Trees, WithChild
<1>2. /\ u = [root |-> u.root, insert |-> u.insert, child |-> u.child,
              parent |-> u.parent, key |-> u.key, red |-> u.red]
  BY <1>0 DEF Trees, WithChild
<1>3. u.child \in [Sides -> [Cells -> Cells \cup {NULL}]]
  BY <1>1, TreeFields
<1>4. u \in Trees
  BY <1>1, <1>2, <1>3, TreeFields DEF Trees
<1>5. ASSUME NEW f \in Sides, NEW k \in Cells
      PROVE  u.child[f][k] = IF f = e /\ k = m THEN c ELSE t.child[f][k]
  BY <1>1, TreeFields
<1>6. ChildSet(t, u, e, m, c)
  BY <1>1, <1>4, <1>5 DEF ChildSet
<1> QED
  BY <1>0, <1>6

\* Assigning a parent changes nothing else.
LEMMA SetParent ==
    ASSUME NEW t \in Trees, NEW m \in Cells, NEW c \in Cells \cup {NULL}
    PROVE  ParentSet(t, WithParent(t, m, c), m, c)
<1>0. PICK u : u = WithParent(t, m, c)
  OBVIOUS
<1>1. /\ u.child = t.child /\ u.root = t.root
      /\ u.parent = [t.parent EXCEPT ![m] = c]
      /\ u.red = t.red /\ u.key = t.key /\ u.insert = t.insert
  BY <1>0 DEF Trees, WithParent
<1>2. /\ u = [root |-> u.root, insert |-> u.insert, child |-> u.child,
              parent |-> u.parent, key |-> u.key, red |-> u.red]
  BY <1>0 DEF Trees, WithParent
<1>3. u.parent \in [Cells -> Cells \cup {NULL}]
  BY <1>1, TreeFields
<1>4. u \in Trees
  BY <1>1, <1>2, <1>3, TreeFields DEF Trees
<1>5. ASSUME NEW k \in Cells PROVE u.parent[k] = IF k = m THEN c ELSE t.parent[k]
  BY <1>1, TreeFields
<1>6. ParentSet(t, u, m, c)
  BY <1>1, <1>4, <1>5 DEF ParentSet
<1> QED
  BY <1>0, <1>6

\* Assigning a colour changes nothing else.
LEMMA SetRed ==
    ASSUME NEW t \in Trees, NEW m \in Cells, NEW c \in BOOLEAN
    PROVE  RedSet(t, WithRed(t, m, c), m, c)
<1>0. PICK u : u = WithRed(t, m, c)
  OBVIOUS
<1>1. /\ u.child = t.child /\ u.root = t.root /\ u.parent = t.parent
      /\ u.red = [t.red EXCEPT ![m] = c] /\ u.key = t.key /\ u.insert = t.insert
  BY <1>0 DEF Trees, WithRed
<1>2. /\ u = [root |-> u.root, insert |-> u.insert, child |-> u.child,
              parent |-> u.parent, key |-> u.key, red |-> u.red]
  BY <1>0 DEF Trees, WithRed
<1>3. u.red \in [Cells -> BOOLEAN]
  BY <1>1, TreeFields
<1>4. u \in Trees
  BY <1>1, <1>2, <1>3, TreeFields DEF Trees
<1>5. ASSUME NEW k \in Cells PROVE u.red[k] = IF k = m THEN c ELSE t.red[k]
  BY <1>1, TreeFields
<1>6. RedSet(t, u, m, c)
  BY <1>1, <1>4, <1>5 DEF RedSet
<1> QED
  BY <1>0, <1>6

\* Assigning the root changes nothing else.
LEMMA SetRoot ==
    ASSUME NEW t \in Trees, NEW c \in Cells
    PROVE  RootSet(t, WithRoot(t, c), c)
<1>0. PICK u : u = WithRoot(t, c)
  OBVIOUS
<1>1. /\ u.child = t.child /\ u.root = c /\ u.parent = t.parent
      /\ u.red = t.red /\ u.key = t.key /\ u.insert = t.insert
  BY <1>0 DEF Trees, WithRoot
<1>2. /\ u = [root |-> u.root, insert |-> u.insert, child |-> u.child,
              parent |-> u.parent, key |-> u.key, red |-> u.red]
  BY <1>0 DEF Trees, WithRoot
<1>4. u \in Trees
  BY <1>1, <1>2, TreeFields DEF Trees
<1>5. RootSet(t, u, c)
  BY <1>1, <1>4 DEF RootSet
<1> QED
  BY <1>0, <1>5

\* n gives its place below its parent to by.
PlaceTaken(t, n, by, e, m) ==
    IF n # t.root /\ m = t.parent[n] /\ e = SideOf(t, n) THEN by ELSE t.child[e][m]

Replaced(t, u, n, by) ==
    /\ u \in Trees /\ u.root = (IF n = t.root THEN by ELSE t.root)
    /\ \A e \in Sides, m \in Cells : u.child[e][m] = PlaceTaken(t, n, by, e, m)
    /\ u.parent = t.parent /\ u.red = t.red /\ u.key = t.key /\ u.insert = t.insert

\* SideOf is a side.
LEMMA SideInSides == ASSUME NEW t, NEW n PROVE SideOf(t, n) \in Sides
BY SideFacts DEF SideOf

\* Replace in its fields: the root or one child, nothing else.
LEMMA ReplaceFields ==
    ASSUME NEW t \in Trees, NEW n \in Nodes, NEW by \in Cells,
           n # t.root => t.parent[n] \in Cells
    PROVE  Replaced(t, Replace(t, n, by), n, by)
<1>1. PICK u : u = Replace(t, n, by)
  OBVIOUS
<1>2. CASE n = t.root
  <2>1. u = WithRoot(t, by)
    BY <1>1, <1>2 DEF Replace, WithRoot
  <2>2. RootSet(t, u, by)
    BY <2>1, SetRoot
  <2>3. Replaced(t, u, n, by)
    BY <1>2, <2>2 DEF RootSet, Replaced, PlaceTaken
  <2> QED
    BY <1>1, <2>3
<1>3. CASE n # t.root
  <2>1. PICK e \in Sides : e = SideOf(t, n)
    BY SideInSides
  <2>2. PICK p \in Cells : p = t.parent[n]
    BY <1>3
  <2>3. u = WithChild(t, e, p, by)
    BY <1>1, <1>3, <2>1, <2>2 DEF Replace, WithChild
  <2>4. by \in Cells \cup {NULL}
    OBVIOUS
  <2>5. ChildSet(t, u, e, p, by)
    BY <2>3, <2>4, SetChild
  <2>6. ASSUME NEW f \in Sides, NEW k \in Cells PROVE u.child[f][k] = PlaceTaken(t, n, by, f, k)
    BY <1>3, <2>1, <2>2, <2>5 DEF PlaceTaken, ChildSet
  <2>7. Replaced(t, u, n, by)
    BY <1>3, <2>5, <2>6 DEF Replaced, ChildSet
  <2> QED
    BY <1>1, <2>7
<1> QED
  BY <1>2, <1>3

Adopted(t, u, c, n) ==
    /\ u \in Trees /\ u.root = t.root /\ u.child = t.child
    /\ \A m \in Cells : u.parent[m] = IF m = c /\ m # Sentinel THEN n ELSE t.parent[m]
    /\ u.red = t.red /\ u.key = t.key /\ u.insert = t.insert

\* Adopt in its fields: the parent of a child that is no sentinel.
LEMMA AdoptFields ==
    ASSUME NEW t \in Trees, NEW c \in Cells, NEW n \in Nodes
    PROVE  Adopted(t, Adopt(t, c, n), c, n)
<1>1. CASE c = Sentinel
  BY <1>1 DEF Adopt, Adopted
<1>2. CASE c # Sentinel
  <2>0. n \in Cells \cup {NULL}
    BY CellFacts
  <2>1. PICK u : u = Adopt(t, c, n)
    OBVIOUS
  <2>2. u = WithParent(t, c, n)
    BY <1>2, <2>1 DEF Adopt, WithParent
  <2>3. ParentSet(t, u, c, n)
    BY <2>0, <2>2, SetParent
  <2>4. Adopted(t, u, c, n)
    BY <1>2, <2>3 DEF ParentSet, Adopted
  <2> QED
    BY <2>1, <2>4
<1> QED
  BY <1>1, <1>2

\* n has gone down on side d, and up is where it was.
ChildTurned(t, n, d, up, e, m) ==
    IF m = n THEN IF e = d THEN t.child[e][m] ELSE t.child[d][up]
    ELSE IF m = up THEN IF e = d THEN n ELSE t.child[e][m]
    ELSE PlaceTaken(t, n, up, e, m)

ParentTurned(t, n, d, up, m) ==
    IF m = n THEN up ELSE IF m = up THEN t.parent[n]
    ELSE IF m = t.child[d][up] /\ m # Sentinel THEN n ELSE t.parent[m]

Turned(t, u, n, d, up) ==
    /\ u \in Trees /\ u.root = (IF n = t.root THEN up ELSE t.root)
    /\ \A e \in Sides, m \in Cells : u.child[e][m] = ChildTurned(t, n, d, up, e, m)
    /\ \A m \in Cells : u.parent[m] = ParentTurned(t, n, d, up, m)
    /\ u.red = t.red /\ u.key = t.key /\ u.insert = t.insert

\* A rotation in the names of its locals.
UpOf(t, n, d) == t.child[Opposite[d]][n]
InnerOf(t, n, d) == t.child[d][UpOf(t, n, d)]

\* Rotate with its locals as operators.
LEMMA RotateInNames ==
    ASSUME NEW t, NEW n, NEW d
    PROVE  Rotate(t, n, d) = Lower(Replace(Adopt(t, InnerOf(t, n, d), n), n, UpOf(t, n, d)),
                                   n, d, UpOf(t, n, d), InnerOf(t, n, d))
BY Zenon DEF Rotate, UpOf, InnerOf

\* Rotate in its fields: the three links that turn, and their way back.
LEMMA RotateFields ==
    ASSUME NEW t \in Trees, NEW n \in Nodes, NEW d \in Sides,
           NEW up \in Nodes, up = t.child[Opposite[d]][n], up # n,
           t.child[d][up] \in Cells \ {n, up},
           n # t.root => t.parent[n] \in Nodes \ {n, up}
    PROVE  Turned(t, Rotate(t, n, d), n, d, up)
<1>0. PICK inner \in Cells : inner = t.child[d][up] /\ inner # n /\ inner # up
  OBVIOUS
<1>1. PICK v : v = Adopt(t, inner, n)
  OBVIOUS
<1>2. Adopted(t, v, inner, n)
  BY <1>1, AdoptFields
<1>3. /\ n \in Cells /\ up \in Cells /\ t.parent[n] \in Cells \cup {NULL}
      /\ n \in Cells \cup {NULL} /\ up \in Cells \cup {NULL} /\ inner \in Cells \cup {NULL}
      /\ Opposite[d] \in Sides /\ Opposite[d] # d
      /\ \A e \in Sides : e # d => e = Opposite[d]
  <2>1. n \in Cells /\ up \in Cells /\ inner \in Cells \cup {NULL}
    BY CellFacts
  <2>2. t.parent[n] \in Cells \cup {NULL}
    BY <2>1, TreeFields
  <2> QED
    BY <2>1, <2>2, Opposites
<1>4. v.parent[n] = t.parent[n]
  BY <1>0, <1>2, <1>3 DEF Adopted
<1>5. SideOf(v, n) = SideOf(t, n)
  BY <1>2, <1>4 DEF SideOf, Adopted
<1>6. PICK w : w = Replace(v, n, up)
  OBVIOUS
<1>7. Replaced(v, w, n, up)
  <2>1. v \in Trees /\ (n # v.root => v.parent[n] \in Cells)
    BY <1>2, <1>4, CellFacts DEF Adopted
  <2> QED
    BY <1>3, <1>6, <2>1, ReplaceFields
<1>8. ASSUME NEW e \in Sides, NEW m \in Cells PROVE w.child[e][m] = PlaceTaken(t, n, up, e, m)
  BY <1>2, <1>4, <1>5, <1>7 DEF PlaceTaken, Adopted, Replaced
<1>9. PICK w1 : w1 = WithChild(w, Opposite[d], n, inner)
  OBVIOUS
<1>10. PICK w2 : w2 = WithChild(w1, d, up, n)
  OBVIOUS
<1>11. PICK w3 : w3 = WithParent(w2, up, t.parent[n])
  OBVIOUS
<1>12. PICK u : u = WithParent(w3, n, up)
  OBVIOUS
<1>13. u = Rotate(t, n, d)
  <2>1. Rotate(t, n, d) = Lower(w, n, d, up, inner)
    <3>1. UpOf(t, n, d) = up /\ InnerOf(t, n, d) = inner
      BY <1>0 DEF UpOf, InnerOf
    <3> QED
      BY <1>1, <1>6, <3>1, RotateInNames
  <2>2. w.parent[n] = t.parent[n]
    BY <1>4, <1>7 DEF Replaced
  <2>3. u = Lower(w, n, d, up, inner)
    BY <1>9, <1>10, <1>11, <1>12, <2>2 DEF Lower, WithChild, WithParent
  <2> QED
    BY <2>1, <2>3
<1>14. ChildSet(w, w1, Opposite[d], n, inner)
  <2>1. w \in Trees
    BY <1>7 DEF Replaced
  <2> QED
    BY <1>3, <1>9, <2>1, SetChild
<1>15. ChildSet(w1, w2, d, up, n)
  <2>1. w1 \in Trees
    BY <1>14 DEF ChildSet
  <2> QED
    BY <1>3, <1>10, <2>1, SetChild
<1>16. ParentSet(w2, w3, up, t.parent[n])
  <2>1. w2 \in Trees
    BY <1>15 DEF ChildSet
  <2> QED
    BY <1>3, <1>11, <2>1, SetParent
<1>17. ParentSet(w3, u, n, up)
  <2>1. w3 \in Trees
    BY <1>16 DEF ParentSet
  <2> QED
    BY <1>3, <1>12, <2>1, SetParent
<1>18. ASSUME NEW e \in Sides, NEW m \in Cells
       PROVE  u.child[e][m] = ChildTurned(t, n, d, up, e, m)
  <2>1. u.child = w2.child
    BY <1>16, <1>17 DEF ParentSet
  <2>2. w2.child[e][m] = IF e = d /\ m = up THEN n ELSE w1.child[e][m]
    BY <1>15 DEF ChildSet
  <2>3. w1.child[e][m] = IF e = Opposite[d] /\ m = n THEN inner ELSE w.child[e][m]
    BY <1>14 DEF ChildSet
  <2>4. w.child[e][m] = PlaceTaken(t, n, up, e, m)
    BY <1>8
  <2>5. m = n \/ m = up => PlaceTaken(t, n, up, e, m) = t.child[e][m]
    BY CellFacts DEF PlaceTaken
  <2> QED
    BY <1>0, <1>3, <2>1, <2>2, <2>3, <2>4, <2>5 DEF ChildTurned
<1>19. ASSUME NEW m \in Cells PROVE u.parent[m] = ParentTurned(t, n, d, up, m)
  <2>1. u.parent[m] = IF m = n THEN up ELSE w3.parent[m]
    BY <1>17 DEF ParentSet
  <2>2. w3.parent[m] = IF m = up THEN t.parent[n] ELSE w2.parent[m]
    BY <1>16 DEF ParentSet
  <2>3. w2.parent = v.parent
    BY <1>7, <1>14, <1>15 DEF ChildSet, Replaced
  <2>4. v.parent[m] = IF m = inner /\ m # Sentinel THEN n ELSE t.parent[m]
    BY <1>2 DEF Adopted
  <2> QED
    BY <1>0, <2>1, <2>2, <2>3, <2>4 DEF ParentTurned
<1>20. u.root = (IF n = t.root THEN up ELSE t.root)
  BY <1>2, <1>7, <1>14, <1>15, <1>16, <1>17 DEF Adopted, Replaced, ChildSet, ParentSet
<1>21. u \in Trees /\ u.red = t.red /\ u.key = t.key /\ u.insert = t.insert
  BY <1>2, <1>7, <1>14, <1>15, <1>16, <1>17 DEF Adopted, Replaced, ChildSet, ParentSet
<1>22. Turned(t, u, n, d, up)
  BY <1>18, <1>19, <1>20, <1>21 DEF Turned
<1> QED
  BY <1>13, <1>22


-----------------------------------------------------------------------------
(* What the shape says of nodes, their children and their parents.         *)

\* The numbers of a node: its bounds enclose its position.
LEMMA NodeFacts ==
    ASSUME NEW t, NEW T, NEW N, NEW pos, NEW b, Shape(t, T, N, pos, b), NEW n \in T
    PROVE  /\ n \in Nodes /\ n \in Cells /\ n # Sentinel /\ n # NULL /\ N \in Nat
           /\ pos[n] \in Int /\ b["left"][n] \in Int /\ b["right"][n] \in Int
           /\ 0 <= b["left"][n] /\ b["left"][n] < pos[n]
           /\ pos[n] < b["right"][n] /\ b["right"][n] <= N + 1
<1>1. n \in Nodes /\ n \in Cells /\ n # Sentinel /\ n # NULL
  BY CellFacts DEF Shape, Ordered
<1>2. pos \in [Nodes -> Int] /\ b \in [Sides -> [Nodes -> Int]] /\ N \in Nat
  BY DEF Shape, Ordered
<1>3. pos[n] \in Int /\ b["left"][n] \in Int /\ b["right"][n] \in Int
  BY <1>1, <1>2, SideFacts
<1>4. /\ 0 <= b["left"][n] /\ b["left"][n] < pos[n]
      /\ pos[n] < b["right"][n] /\ b["right"][n] <= N + 1
  BY DEF Shape, Ordered
<1> QED
  BY <1>1, <1>2, <1>3, <1>4

\* c is the child of n on side d.
IsChild(t, T, pos, b, n, d, c) ==
    /\ c \in T /\ c # n /\ c # t.root /\ t.parent[c] = n /\ SideOf(t, c) = d
    /\ b[d][c] = b[d][n] /\ b[Opposite[d]][c] = pos[n] /\ b[d][n] # Next(d, pos[n])
    /\ t.child[d][n] = c /\ t.child[Opposite[d]][n] # c

\* A child that is not empty is linked back and takes over the bounds on its
\* side.
LEMMA ChildFacts ==
    ASSUME NEW t, NEW T, NEW N, NEW pos, NEW b, Shape(t, T, N, pos, b),
           NEW n \in T, NEW d \in Sides, NEW c, c = t.child[d][n], c # Sentinel
    PROVE  IsChild(t, T, pos, b, n, d, c)
<1>1. /\ c \in T /\ t.parent[c] = n /\ b[d][n] # Next(d, pos[n])
      /\ b[d][c] = b[d][n] /\ b[Opposite[d]][c] = pos[n]
  BY DEF Shape, HasChild
<1>2. c # n /\ c # t.root
  <2>1. b["left"][n] < pos[n] /\ pos[n] < b["right"][n]
    BY NodeFacts
  <2>2. 0 < pos[n] /\ pos[n] < N + 1 /\ pos[n] \in Int /\ N \in Nat
    BY NodeFacts
  <2>3. c = n => b[Opposite[d]][n] = pos[n]
    BY <1>1
  <2>4. c = t.root => b[Opposite[d]][c] \in {0, N + 1}
    BY SideFacts DEF Shape, Rooted
  <2> QED
    BY <1>1, <2>1, <2>2, <2>3, <2>4, SideFacts
<1>3. t.child[Opposite[d]][n] # c
  <2>1. Opposite[d] \in Sides /\ Opposite[d] # d
    BY Opposites
  <2> QED
    BY <2>1, OneParent
<1>4. SideOf(t, c) = d
  BY <1>1, <1>3, SideFacts DEF SideOf
<1> QED
  BY <1>1, <1>2, <1>3, <1>4 DEF IsChild

\* A child is a node or the sentinel, which it is when there is no room.
LEMMA ChildOrNot ==
    ASSUME NEW t, NEW T, NEW N, NEW pos, NEW b, Shape(t, T, N, pos, b),
           NEW n \in T, NEW d \in Sides
    PROVE  /\ t.child[d][n] \in T \cup {Sentinel} /\ t.child[d][n] \in Cells
           /\ t.child[d][n] = Sentinel <=> b[d][n] = Next(d, pos[n])
<1>1. HasChild(t, T, pos, b, n, d)
  BY DEF Shape
<1>2. t.child[d][n] \in T \cup {Sentinel}
  BY <1>1 DEF HasChild
<1>3. T \subseteq Cells /\ Sentinel \in Cells /\ Sentinel \notin T
  BY CellFacts DEF Shape, Ordered
<1> QED
  BY <1>1, <1>2, <1>3 DEF HasChild

\* Every node but the root is the child of its parent.
LEMMA ParentFacts ==
    ASSUME NEW t, NEW T, NEW N, NEW pos, NEW b, Shape(t, T, N, pos, b),
           NEW n \in T, n # t.root
    PROVE  t.parent[n] \in T /\ IsChild(t, T, pos, b, t.parent[n], SideOf(t, n), n)
<1>1. PICK d \in Sides : t.parent[n] \in T /\ t.child[d][t.parent[n]] = n
  BY DEF Shape, HasParent
<1>2. n # Sentinel
  BY NodeFacts
<1>3. PICK p \in T : p = t.parent[n]
  BY <1>1
<1>4. IsChild(t, T, pos, b, p, d, n)
  BY <1>1, <1>2, <1>3, ChildFacts
<1> QED
  BY <1>3, <1>4 DEF IsChild

-----------------------------------------------------------------------------
(* Rotation keeps the shape.                                               *)

\* up has the bounds n had, and n ends at up.
TurnedBounds(pos, b, n, up, d) == [b EXCEPT ![d][up] = b[d][n], ![Opposite[d]][n] = pos[up]]

BoundsTurned(pos, b, c, n, up, d) ==
    /\ c \in [Sides -> [Nodes -> Int]]
    /\ \A e \in Sides, m \in Nodes :
         c[e][m] = IF m = up /\ e = d THEN b[d][n]
                   ELSE IF m = n /\ e = Opposite[d] THEN pos[up] ELSE b[e][m]

\* The bounds after a rotation.
LEMMA TurnedBoundsFacts ==
    ASSUME NEW pos \in [Nodes -> Int], NEW b \in [Sides -> [Nodes -> Int]],
           NEW n \in Nodes, NEW up \in Nodes, n # up, NEW d \in Sides
    PROVE  BoundsTurned(pos, b, TurnedBounds(pos, b, n, up, d), n, up, d)
<1>1. PICK o \in Sides : o = Opposite[d] /\ o # d
  BY Opposites
<1>2. PICK x \in Int : x = b[d][n]
  OBVIOUS
<1>3. PICK y \in Int : y = pos[up]
  OBVIOUS
<1>4. PICK c : c = [b EXCEPT ![d][up] = x, ![o][n] = y]
  OBVIOUS
<1>5. TurnedBounds(pos, b, n, up, d) = c
  BY <1>1, <1>2, <1>3, <1>4 DEF TurnedBounds
<1>6. c \in [Sides -> [Nodes -> Int]]
  BY <1>4
<1>7. ASSUME NEW e \in Sides, NEW m \in Nodes
      PROVE  c[e][m] = IF m = up /\ e = d THEN x ELSE IF m = n /\ e = o THEN y ELSE b[e][m]
  BY <1>1, <1>4
<1>8. BoundsTurned(pos, b, c, n, up, d)
  BY <1>1, <1>2, <1>3, <1>6, <1>7 DEF BoundsTurned
<1> QED
  BY <1>5, <1>8

\* Where n, the child above it and the one in between are before a rotation.
BeforeTurn(t, T, pos, b, n, d, up) ==
    /\ n \in T /\ up \in T /\ up # n /\ up # t.root /\ n \in Nodes /\ up \in Nodes
    /\ up = t.child[Opposite[d]][n] /\ t.parent[up] = n
    /\ b[Opposite[d]][up] = b[Opposite[d]][n] /\ b[d][up] = pos[n]
    /\ t.child[d][up] \in (T \cup {Sentinel}) \ {n, up}
    /\ n # t.root => t.parent[n] \in T \ {n, up}

\* What a rotation relies on holds whenever the child that goes up is there.
LEMMA BeforeTurnFacts ==
    ASSUME NEW t, NEW T, NEW N, NEW pos, NEW b, Shape(t, T, N, pos, b),
           NEW n \in T, NEW d \in Sides, NEW up, up = t.child[Opposite[d]][n], up # Sentinel
    PROVE  BeforeTurn(t, T, pos, b, n, d, up)
<1>1. PICK o \in Sides : o = Opposite[d] /\ o # d /\ Opposite[o] = d
  BY Opposites
<1>2. IsChild(t, T, pos, b, n, o, up)
  BY <1>1, ChildFacts
<1>3. /\ up \in T /\ up # n /\ up # t.root /\ t.parent[up] = n
      /\ b[o][up] = b[o][n] /\ b[d][up] = pos[n]
  BY <1>1, <1>2 DEF IsChild
<1>4. n \in Nodes /\ up \in Nodes /\ n # Sentinel /\ up # Sentinel
  BY <1>3, NodeFacts
<1>5. PICK inner \in T \cup {Sentinel} : inner = t.child[d][up]
  BY <1>3, ChildOrNot
<1>6. inner # n /\ inner # up
  <2>1. CASE inner = Sentinel
    BY <1>4, <2>1
  <2>2. CASE inner # Sentinel
    <3>1. IsChild(t, T, pos, b, up, d, inner)
      BY <1>3, <1>5, <2>2, ChildFacts
    <3>2. inner # up /\ b[d][inner] = pos[n]
      BY <1>3, <3>1 DEF IsChild
    <3>3. b[d][n] # pos[n]
      BY NodeFacts, SideFacts
    <3> QED
      BY <3>2, <3>3
  <2> QED
    BY <2>1, <2>2
<1>7. ASSUME n # t.root PROVE t.parent[n] \in T \ {n, up}
  <2>1. PICK p \in T : p = t.parent[n] /\ IsChild(t, T, pos, b, p, SideOf(t, n), n)
    BY <1>7, ParentFacts
  <2>2. n # p
    BY <2>1 DEF IsChild
  <2>3. ASSUME p = up PROVE FALSE
    <3>1. PICK e \in Sides : e = SideOf(t, n)
      BY SideInSides
    <3>2. b[e][n] = b[e][up] /\ b[Opposite[e]][n] = pos[up]
      BY <2>1, <2>3, <3>1 DEF IsChild
    <3>3. /\ b["left"][n] < pos[n] /\ pos[n] < b["right"][n]
          /\ b["left"][up] < pos[up] /\ pos[up] < b["right"][up]
          /\ pos[n] \in Int /\ pos[up] \in Int
      BY <1>3, NodeFacts
    <3>4. e = d => b[d][n] = pos[n]
      BY <1>3, <3>2
    <3>5. e = o => b[d][n] = pos[up] /\ b[d][up] = pos[n]
      BY <1>1, <1>3, <3>2
    <3>6. e = d \/ e = o
      BY <1>1, Opposites
    <3>7. e # d
      BY <3>3, <3>4, SideFacts
    <3> QED
      BY <3>3, <3>5, <3>6, <3>7, <1>1, SideFacts
  <2> QED
    BY <2>1, <2>2, <2>3
<1> QED
  BY <1>1, <1>3, <1>4, <1>5, <1>6, <1>7 DEF BeforeTurn

\* A rotation of a tree with a shape turns its links and bounds.
LEMMA RotateTurns ==
    ASSUME NEW t, NEW T, NEW N, NEW pos, NEW b, Shape(t, T, N, pos, b), NEW n, NEW d \in Sides,
           NEW up, BeforeTurn(t, T, pos, b, n, d, up)
    PROVE  /\ Turned(t, Rotate(t, n, d), n, d, up)
           /\ BoundsTurned(pos, b, TurnedBounds(pos, b, n, up, d), n, up, d)
<1>1. /\ n \in T /\ up \in T /\ up # n /\ n \in Nodes /\ up \in Nodes
      /\ up = t.child[Opposite[d]][n]
      /\ t.child[d][up] \in (T \cup {Sentinel}) \ {n, up}
      /\ n # t.root => t.parent[n] \in T \ {n, up}
  BY DEF BeforeTurn
<1>2. T \subseteq Nodes /\ Nodes \subseteq Cells /\ Sentinel \in Cells
  BY CellFacts DEF Shape, Ordered
<1>3. t.child[d][up] \in Cells \ {n, up} /\ (n # t.root => t.parent[n] \in Nodes \ {n, up})
  BY <1>1, <1>2
<1>4. t \in Trees /\ pos \in [Nodes -> Int] /\ b \in [Sides -> [Nodes -> Int]]
  BY DEF Shape, Ordered
<1>5. Turned(t, Rotate(t, n, d), n, d, up)
  BY <1>1, <1>3, <1>4, RotateFields
<1> QED
  BY <1>1, <1>4, <1>5, TurnedBoundsFacts

\* Positions and bounds are in order after a rotation.
LEMMA TurnedOrdered ==
    ASSUME NEW t, NEW T, NEW N, NEW pos, NEW b, Shape(t, T, N, pos, b), NEW n, NEW d \in Sides,
           NEW up, BeforeTurn(t, T, pos, b, n, d, up), NEW c, BoundsTurned(pos, b, c, n, up, d)
    PROVE  Ordered(T, N, pos, c)
<1>1. /\ n \in T /\ up \in T /\ up # n /\ n \in Nodes /\ up \in Nodes
      /\ b[Opposite[d]][up] = b[Opposite[d]][n] /\ b[d][up] = pos[n]
  BY DEF BeforeTurn
<1>2. /\ T \in SUBSET Nodes /\ N \in Nat /\ pos \in [Nodes -> Int]
      /\ c \in [Sides -> [Nodes -> Int]]
  BY DEF Shape, Ordered, BoundsTurned
<1>3. ASSUME NEW m \in T
      PROVE  /\ c["left"][m] = IF m = up /\ d = "left" THEN b["left"][n]
                               ELSE IF m = n /\ d = "right" THEN pos[up] ELSE b["left"][m]
             /\ c["right"][m] = IF m = up /\ d = "right" THEN b["right"][n]
                                ELSE IF m = n /\ d = "left" THEN pos[up] ELSE b["right"][m]
  BY <1>2, SideFacts DEF BoundsTurned
<1>4. /\ d = "left" => b["right"][up] = b["right"][n] /\ b["left"][up] = pos[n]
      /\ d = "right" => b["left"][up] = b["left"][n] /\ b["right"][up] = pos[n]
      /\ d = "left" \/ d = "right"
  BY <1>1, SideFacts
<1>5. ASSUME NEW m \in T
      PROVE  /\ pos[m] \in Int /\ b["left"][m] \in Int /\ b["right"][m] \in Int
             /\ 0 <= b["left"][m] /\ b["left"][m] < pos[m]
             /\ pos[m] < b["right"][m] /\ b["right"][m] <= N + 1
  BY NodeFacts
<1>6. \A m, k \in T : pos[m] = pos[k] => m = k
  BY DEF Shape, Ordered
<1>7. \A m, k \in T : pos[m] < pos[k] =>
         \/ b["right"][m] <= pos[k] /\ b["left"][k] <= b["left"][m]
         \/ pos[m] <= b["left"][k] /\ b["right"][k] <= b["right"][m]
         \/ b["right"][m] <= b["left"][k]
  BY DEF Shape, Ordered
<1>8. ASSUME NEW m \in T
      PROVE  /\ 0 <= c["left"][m] /\ c["left"][m] < pos[m]
             /\ pos[m] < c["right"][m] /\ c["right"][m] <= N + 1
  BY <1>1, <1>2, <1>3, <1>4, <1>5
<1>9. ASSUME NEW m \in T, NEW k \in T, pos[m] < pos[k]
      PROVE  \/ c["right"][m] <= pos[k] /\ c["left"][k] <= c["left"][m]
             \/ pos[m] <= c["left"][k] /\ c["right"][k] <= c["right"][m]
             \/ c["right"][m] <= c["left"][k]
  <2>1. CASE d = "left"
    <3>1. /\ c["left"][m] = IF m = up THEN b["left"][n] ELSE b["left"][m]
          /\ c["left"][k] = IF k = up THEN b["left"][n] ELSE b["left"][k]
          /\ c["right"][m] = IF m = n THEN pos[up] ELSE b["right"][m]
          /\ c["right"][k] = IF k = n THEN pos[up] ELSE b["right"][k]
      BY <1>3, <2>1, SideFacts
    <3>2. b["right"][up] = b["right"][n] /\ b["left"][up] = pos[n]
      BY <1>4, <2>1
    <3> QED
      BY <1>1, <1>5, <1>6, <1>7, <1>9, <3>1, <3>2
  <2>2. CASE d = "right"
    <3>1. /\ c["right"][m] = IF m = up THEN b["right"][n] ELSE b["right"][m]
          /\ c["right"][k] = IF k = up THEN b["right"][n] ELSE b["right"][k]
          /\ c["left"][m] = IF m = n THEN pos[up] ELSE b["left"][m]
          /\ c["left"][k] = IF k = n THEN pos[up] ELSE b["left"][k]
      BY <1>3, <2>2, SideFacts
    <3>2. b["left"][up] = b["left"][n] /\ b["right"][up] = pos[n]
      BY <1>4, <2>2
    <3> QED
      BY <1>1, <1>5, <1>6, <1>7, <1>9, <3>1, <3>2
  <2> QED
    BY <1>4, <2>1, <2>2
<1> QED
  BY <1>2, <1>6, <1>8, <1>9 DEF Ordered

\* Nobody else has n, up or the one in between for a child.
Whose(t, n, up, o, inner, m, e, d, c) ==
    /\ c = n => n # t.root /\ m = t.parent[n] /\ e = SideOf(t, n)
    /\ c = up => m = n /\ e = o
    /\ c = inner => m = up /\ e = d
\* A child belongs to one parent: those a rotation moves have no other.
LEMMA OtherChild ==
    ASSUME NEW t, NEW T, NEW N, NEW pos, NEW b, Shape(t, T, N, pos, b), NEW n, NEW d \in Sides,
           NEW up, BeforeTurn(t, T, pos, b, n, d, up),
           NEW m \in T, NEW e \in Sides, NEW c, c = t.child[e][m], c # Sentinel
    PROVE  Whose(t, n, up, Opposite[d], t.child[d][up], m, e, d, c)
<1>1. /\ n \in T /\ up \in T /\ up = t.child[Opposite[d]][n] /\ t.parent[up] = n
      /\ t.child[d][up] \in (T \cup {Sentinel}) \ {n, up}
  BY DEF BeforeTurn
<1>2. IsChild(t, T, pos, b, m, e, c)
  BY ChildFacts
<1>3. c # t.root /\ t.parent[c] = m /\ SideOf(t, c) = e
  BY <1>2 DEF IsChild
<1>4. ASSUME c = up PROVE m = n /\ e = Opposite[d]
  <2>1. PICK o \in Sides : o = Opposite[d]
    BY Opposites
  <2>2. n \in T /\ t.child[e][m] = t.child[o][n] /\ t.child[e][m] # Sentinel
    BY <1>1, <1>4, <2>1
  <2>3. m = n /\ e = o
    BY <2>2, OneParent
  <2> QED
    BY <2>1, <2>3
<1>5. ASSUME c = t.child[d][up] PROVE m = up /\ e = d
  <2>1. up \in T /\ t.child[e][m] = t.child[d][up] /\ t.child[e][m] # Sentinel
    BY <1>1, <1>5
  <2> QED
    BY <2>1, OneParent
<1> QED
  BY <1>3, <1>4, <1>5 DEF Whose

\* What a rotation changes, cell by cell.
TurnChanges(t, T, pos, b, c, u, n, d, o, up, inner) ==
    /\ \A i \in T, f \in Sides : ~(i = up /\ f = d) /\ ~(i = n /\ f = o) => c[f][i] = b[f][i]
    /\ c[d][up] = b[d][n] /\ c[o][n] = pos[up]
    /\ \A i \in T : i # n /\ i # up /\ i # inner => u.parent[i] = t.parent[i]
    /\ u.parent[n] = up
    /\ n # t.root => u.parent[up] = t.parent[n]
    /\ inner # Sentinel => u.parent[inner] = n
    /\ u.child[d][n] = t.child[d][n] /\ u.child[o][n] = inner
    /\ u.child[d][up] = n /\ u.child[o][up] = t.child[o][up]
    /\ \A i \in T, f \in Sides : i # n /\ i # up =>
         IF n # t.root /\ i = t.parent[n] /\ f = SideOf(t, n) THEN u.child[f][i] = up
         ELSE u.child[f][i] = t.child[f][i]

\* The changes of a rotation, node by node.
LEMMA TurnChangesFacts ==
    ASSUME NEW t, NEW T, NEW N, NEW pos, NEW b, Shape(t, T, N, pos, b), NEW n, NEW d \in Sides,
           NEW up, BeforeTurn(t, T, pos, b, n, d, up), NEW c, BoundsTurned(pos, b, c, n, up, d),
           NEW u, Turned(t, u, n, d, up), NEW o, o = Opposite[d],
           NEW inner, inner = t.child[d][up]
    PROVE  TurnChanges(t, T, pos, b, c, u, n, d, o, up, inner)
<1>1. n \in T /\ up \in T /\ up # n /\ inner # n /\ inner # up /\ inner \in T \cup {Sentinel}
  BY DEF BeforeTurn
<1>2. T \subseteq Nodes /\ T \subseteq Cells /\ Sentinel \in Cells
  BY CellFacts DEF Shape, Ordered
<1>3. o \in Sides /\ o # d
  BY Opposites
<1>4. \A i \in T, f \in Sides : ~(i = up /\ f = d) /\ ~(i = n /\ f = o) => c[f][i] = b[f][i]
  BY <1>2 DEF BoundsTurned
<1>5. c[d][up] = b[d][n]
  BY <1>1, <1>2 DEF BoundsTurned
<1>6. c[o][n] = pos[up]
  BY <1>1, <1>2, <1>3 DEF BoundsTurned
<1>7. \A i \in Cells : u.parent[i] = ParentTurned(t, n, d, up, i)
  BY DEF Turned
<1>8. \A i \in T : i # n /\ i # up /\ i # inner => u.parent[i] = t.parent[i]
  BY <1>2, <1>7 DEF ParentTurned
<1>9. u.parent[n] = up /\ u.parent[up] = t.parent[n]
  BY <1>1, <1>2, <1>7 DEF ParentTurned
<1>10. inner # Sentinel => u.parent[inner] = n
  BY <1>1, <1>2, <1>7 DEF ParentTurned
<1>11. \A f \in Sides, i \in Cells : u.child[f][i] = ChildTurned(t, n, d, up, f, i)
  BY DEF Turned
<1>12. u.child[d][n] = t.child[d][n] /\ u.child[o][n] = inner
  BY <1>1, <1>2, <1>3, <1>11 DEF ChildTurned
<1>13. u.child[d][up] = n /\ u.child[o][up] = t.child[o][up]
  BY <1>1, <1>2, <1>3, <1>11 DEF ChildTurned
<1>14. ASSUME NEW i \in T, NEW f \in Sides, i # n /\ i # up
       PROVE  IF n # t.root /\ i = t.parent[n] /\ f = SideOf(t, n) THEN u.child[f][i] = up
              ELSE u.child[f][i] = t.child[f][i]
  <2>1. u.child[f][i] = PlaceTaken(t, n, up, f, i)
    BY <1>2, <1>11, <1>14 DEF ChildTurned
  <2> QED
    BY <2>1 DEF PlaceTaken
<1> QED
  BY ZenonT(60), <1>4, <1>5, <1>6, <1>8, <1>9, <1>10, <1>12, <1>13, <1>14 DEF TurnChanges

\* After a rotation, the links down match positions and bounds.
LEMMA TurnedChildren ==
    ASSUME NEW t, NEW T, NEW N, NEW pos, NEW b, Shape(t, T, N, pos, b), NEW n, NEW d \in Sides,
           NEW up, BeforeTurn(t, T, pos, b, n, d, up), NEW c, BoundsTurned(pos, b, c, n, up, d),
           NEW u, Turned(t, u, n, d, up), NEW m \in T, NEW e \in Sides
    PROVE  HasChild(u, T, pos, c, m, e)
<1>1. /\ n \in T /\ up \in T /\ up # n
      /\ up = t.child[Opposite[d]][n]
      /\ b[Opposite[d]][up] = b[Opposite[d]][n] /\ b[d][up] = pos[n]
      /\ n # t.root => t.parent[n] \in T /\ t.parent[n] # up
  BY DEF BeforeTurn
<1>2. PICK o \in Sides : o = Opposite[d] /\ o # d /\ Opposite[o] = d /\ (e = d \/ e = o)
  BY Opposites
<1>3. PICK k : k = t.child[e][m]
  OBVIOUS
<1>4. PICK inner \in T \cup {Sentinel} : inner = t.child[d][up] /\ inner # n /\ inner # up
  <2>1. t.child[d][up] \in (T \cup {Sentinel}) \ {n, up}
    BY DEF BeforeTurn
  <2> QED
    BY <2>1
<1>5. k = Sentinel <=> b[e][m] = Next(e, pos[m])
  BY <1>3, ChildOrNot
<1>6. k # Sentinel => k \in T /\ t.parent[k] = m /\ b[e][k] = b[e][m] /\ b[Opposite[e]][k] = pos[m]
  BY <1>3, ChildFacts DEF IsChild
<1>7. k # Sentinel => /\ k = n => n # t.root /\ m = t.parent[n] /\ e = SideOf(t, n)
                      /\ k = up => m = n /\ e = o
                      /\ k = inner => m = up /\ e = d
  <2>1. ASSUME k # Sentinel PROVE Whose(t, n, up, Opposite[d], t.child[d][up], m, e, d, k)
    BY <1>3, <2>1, OtherChild
  <2> QED
    BY <1>2, <1>4, <2>1 DEF Whose
<1>8. TurnChanges(t, T, pos, b, c, u, n, d, o, up, inner)
  BY <1>2, <1>4, TurnChangesFacts
<1>9. Sentinel \notin T
  BY NodeFacts
<1>17. \A i \in T, f \in Sides : ~(i = up /\ f = d) /\ ~(i = n /\ f = o) => c[f][i] = b[f][i]
  BY <1>8 DEF TurnChanges
<1>18. /\ \A i \in T : i # n /\ i # up /\ i # inner => u.parent[i] = t.parent[i]
       /\ u.parent[n] = up
       /\ n # t.root => u.parent[up] = t.parent[n]
  BY <1>8 DEF TurnChanges
\* A child that stays where it is.
<1>10. ASSUME u.child[e][m] = k, c[e][m] = b[e][m],
              k # n, k # up, k # inner \/ k = Sentinel
       PROVE  HasChild(u, T, pos, c, m, e)
  <2>1. CASE k = Sentinel
    BY <1>5, <1>10, <2>1 DEF HasChild
  <2>2. CASE k # Sentinel
    <3>1. k \in T /\ t.parent[k] = m /\ b[e][k] = b[e][m] /\ b[Opposite[e]][k] = pos[m]
      BY <1>6, <2>2
    <3>2. u.parent[k] = m
      BY <1>10, <1>18, <2>2, <3>1
    <3>3. c[e][k] = b[e][k] /\ c[Opposite[e]][k] = b[Opposite[e]][k]
      BY <1>2, <1>10, <1>17, <3>1
    <3> QED
      BY <1>5, <1>10, <2>2, <3>1, <3>2, <3>3 DEF HasChild
  <2> QED
    BY <2>1, <2>2
<1>11. CASE m = n /\ e = d
  <2>1. u.child[e][m] = k
    BY <1>3, <1>8, <1>11 DEF TurnChanges
  <2>2. c[e][m] = b[e][m]
    BY <1>1, <1>2, <1>11, <1>17
  <2>3. k # n /\ k # up /\ (k # inner \/ k = Sentinel)
    <3>1. n # t.root => IsChild(t, T, pos, b, t.parent[n], SideOf(t, n), n)
      BY <1>1, ParentFacts
    <3>2. n # t.root => t.parent[n] # n
      BY <3>1 DEF IsChild
    <3> QED
      BY <1>1, <1>2, <1>7, <1>9, <1>11, <3>2
  <2> QED
    BY <1>10, <2>1, <2>2, <2>3
<1>12. CASE m = n /\ e = o
  <2>1. u.child[e][m] = inner /\ c[e][m] = pos[up]
    BY ZenonT(60), <1>8, <1>12 DEF TurnChanges
  <2>2. inner = Sentinel <=> pos[n] = Next(d, pos[up])
    BY <1>1, <1>4, ChildOrNot
  <2>3. pos[n] = Next(d, pos[up]) <=> pos[up] = Next(o, pos[n])
    <3>1. pos[n] \in Int /\ pos[up] \in Int
      BY <1>1, NodeFacts
    <3> QED
      BY <1>2, <3>1, SideFacts DEF Next
  <2>4. CASE inner = Sentinel
    BY <1>12, <2>1, <2>2, <2>3, <2>4 DEF HasChild
  <2>5. CASE inner # Sentinel
    <3>1. IsChild(t, T, pos, b, up, d, inner)
      BY <1>1, <1>4, <2>5, ChildFacts
    <3>2. inner \in T /\ b[d][inner] = pos[n] /\ b[o][inner] = pos[up]
      BY <1>1, <1>2, <3>1 DEF IsChild
    <3>3. u.parent[inner] = n /\ c[d][inner] = pos[n] /\ c[o][inner] = pos[up]
      BY <1>2, <1>4, <1>8, <2>5, <3>2 DEF TurnChanges
    <3> QED
      BY ZenonT(60), <1>2, <1>12, <2>1, <2>2, <2>3, <2>5, <3>2, <3>3 DEF HasChild
  <2> QED
    BY <2>4, <2>5
<1>13. CASE m = up /\ e = d
  <2>1. u.child[e][m] = n /\ c[e][m] = b[d][n]
    BY <1>8, <1>13 DEF TurnChanges
  <2>2. u.parent[n] = up /\ c[d][n] = b[d][n] /\ c[o][n] = pos[up]
    <3>1. c[o][n] = pos[up]
      BY <1>8 DEF TurnChanges
    <3> QED
      BY <1>1, <1>2, <1>17, <1>18, <3>1
  <2>3. b[d][n] # Next(d, pos[up])
    <3>1. /\ pos[n] \in Int /\ pos[up] \in Int /\ b["left"][n] \in Int /\ b["right"][n] \in Int
          /\ b["left"][n] < pos[n] /\ pos[n] < b["right"][n]
          /\ b["left"][up] < pos[up] /\ pos[up] < b["right"][up]
      BY <1>1, NodeFacts
    <3> QED
      BY SMTT(40), <1>1, <3>1, SideFacts DEF Next
  <2> QED
    BY <1>1, <1>2, <1>13, <2>1, <2>2, <2>3 DEF HasChild
<1>14. CASE m = up /\ e = o
  <2>1. u.child[e][m] = k
    BY <1>3, <1>8, <1>14 DEF TurnChanges
  <2>2. c[e][m] = b[e][m]
    BY <1>1, <1>2, <1>14, <1>17
  <2>3. k # n /\ k # up /\ (k # inner \/ k = Sentinel)
    BY <1>1, <1>2, <1>7, <1>9, <1>14
  <2> QED
    BY <1>10, <2>1, <2>2, <2>3
<1>15. CASE m # n /\ m # up /\ k = n
  <2>1. n # t.root /\ m = t.parent[n] /\ e = SideOf(t, n)
    BY <1>1, <1>7, <1>9, <1>15
  <2>2. u.child[e][m] = up
    BY <1>8, <1>15, <2>1 DEF TurnChanges
  <2>3. c[e][m] = b[e][m]
    BY <1>8, <1>15 DEF TurnChanges
  <2>4. u.parent[up] = m
    BY <1>8, <2>1 DEF TurnChanges
  <2>5. b[e][m] # Next(e, pos[m]) /\ b[e][n] = b[e][m] /\ b[Opposite[e]][n] = pos[m]
    BY ZenonT(60), <1>1, <1>5, <1>6, <1>9, <1>15
  <2>6. c[d][up] = b[d][n] /\ c[o][up] = b[o][n]
    <3>1. c[d][up] = b[d][n]
      BY <1>8 DEF TurnChanges
    <3> QED
      BY <1>1, <1>2, <1>17, <3>1
  <2>7. c[e][up] = b[e][m] /\ c[Opposite[e]][up] = pos[m]
    BY <1>2, <2>5, <2>6
  <2> QED
    BY <1>1, <2>2, <2>3, <2>4, <2>5, <2>7 DEF HasChild
<1>16. CASE m # n /\ m # up /\ k # n
  <2>1. ~(n # t.root /\ m = t.parent[n] /\ e = SideOf(t, n))
    <3>1. n # t.root => IsChild(t, T, pos, b, t.parent[n], SideOf(t, n), n)
      BY <1>1, ParentFacts
    <3>2. n # t.root => t.child[SideOf(t, n)][t.parent[n]] = n
      BY <3>1 DEF IsChild
    <3> QED
      BY <1>3, <1>16, <3>2
  <2>2. u.child[e][m] = k
    BY <1>3, <1>8, <1>16, <2>1 DEF TurnChanges
  <2>3. c[e][m] = b[e][m]
    BY <1>8, <1>16 DEF TurnChanges
  <2>4. k # up /\ (k # inner \/ k = Sentinel)
    BY <1>1, <1>7, <1>9, <1>16
  <2> QED
    BY <1>10, <1>16, <2>2, <2>3, <2>4
<1> QED
  BY <1>2, <1>11, <1>12, <1>13, <1>14, <1>15, <1>16

\* After a rotation, the links up match the links down.
LEMMA TurnedParents ==
    ASSUME NEW t, NEW T, NEW N, NEW pos, NEW b, Shape(t, T, N, pos, b), NEW n, NEW d \in Sides,
           NEW up, BeforeTurn(t, T, pos, b, n, d, up), NEW c, BoundsTurned(pos, b, c, n, up, d),
           NEW u, Turned(t, u, n, d, up), NEW m \in T
    PROVE  HasParent(u, T, m)
<1>1. /\ n \in T /\ up \in T /\ up # n /\ up # t.root
      /\ up = t.child[Opposite[d]][n]
  BY DEF BeforeTurn
<1>2. PICK o \in Sides : o = Opposite[d] /\ o # d /\ \A f \in Sides : f = d \/ f = o
  BY Opposites
<1>3. PICK inner : inner = t.child[d][up]
  OBVIOUS
<1>4. TurnChanges(t, T, pos, b, c, u, n, d, o, up, inner)
  BY <1>2, <1>3, TurnChangesFacts
<1>5. /\ u.child[d][n] = t.child[d][n] /\ u.child[o][n] = inner
      /\ u.child[d][up] = n /\ u.child[o][up] = t.child[o][up]
  BY <1>4 DEF TurnChanges
<1>6. \A i \in T, f \in Sides : i # n /\ i # up =>
         IF n # t.root /\ i = t.parent[n] /\ f = SideOf(t, n) THEN u.child[f][i] = up
         ELSE u.child[f][i] = t.child[f][i]
  BY <1>4 DEF TurnChanges
<1>7. u.root = (IF n = t.root THEN up ELSE t.root)
  BY DEF Turned
<1>8. ASSUME m # u.root PROVE \E p \in T, e \in Sides : u.child[e][p] = m
  <2>1. CASE m = n
    BY <1>1, <1>5, <2>1
  <2>2. CASE m = up
    <3>1. n # t.root
      BY <1>7, <1>8, <2>2
    <3>2. t.parent[n] \in T /\ t.parent[n] # n /\ t.parent[n] # up
      BY <3>1 DEF BeforeTurn
    <3>3. PICK e \in Sides : e = SideOf(t, n)
      BY SideInSides
    <3>4. u.child[e][t.parent[n]] = up
      BY <1>6, <3>1, <3>2, <3>3
    <3> QED
      BY <2>2, <3>2, <3>4
  <2>3. CASE m # n /\ m # up
    <3>1. m # t.root
      BY <1>7, <1>8, <2>3
    <3>2. IsChild(t, T, pos, b, t.parent[m], SideOf(t, m), m) /\ t.parent[m] \in T
      BY <3>1, ParentFacts
    <3>3. PICK p \in T, e \in Sides : t.child[e][p] = m
      BY <3>2, SideInSides DEF IsChild
    <3>4. CASE p = n
      <4>1. e = d
        BY ZenonT(60), <1>1, <1>2, <2>3, <3>3, <3>4
      <4> QED
        BY <1>5, <3>3, <3>4, <4>1
    <3>5. CASE p = up /\ e = d
      BY <1>1, <1>2, <1>3, <1>5, <3>3, <3>5
    <3>6. CASE p = up /\ e = o
      BY <1>1, <1>2, <1>5, <3>3, <3>6
    <3>7. CASE p # n /\ p # up
      <4>1. n # t.root => IsChild(t, T, pos, b, t.parent[n], SideOf(t, n), n)
        BY <1>1, ParentFacts
      <4>2. n # t.root => t.child[SideOf(t, n)][t.parent[n]] = n
        BY <4>1 DEF IsChild
      <4>3. u.child[e][p] = m
        BY <1>6, <2>3, <3>3, <3>7, <4>2
      <4> QED
        BY <4>3
    <3> QED
      BY <1>2, <3>4, <3>5, <3>6, <3>7
  <2> QED
    BY <2>1, <2>2, <2>3
<1>9. ASSUME m # u.root PROVE u.parent[m] \in T /\ \E e \in Sides : u.child[e][u.parent[m]] = m
  <2>1. PICK p \in T, e \in Sides : u.child[e][p] = m
    BY <1>8, <1>9
  <2>2. HasChild(u, T, pos, c, p, e)
    BY TurnedChildren
  <2>3. m # Sentinel
    BY NodeFacts
  <2>4. u.parent[m] = p
    BY <2>1, <2>2, <2>3 DEF HasChild
  <2> QED
    BY <2>1, <2>4
<1> QED
  BY <1>9 DEF HasParent

\* A rotation keeps the shape and the positions, hence the order of the
\* nodes.
LEMMA RotateShape ==
    ASSUME NEW t, NEW T, NEW N, NEW pos, NEW b, Shape(t, T, N, pos, b), NEW n, NEW d \in Sides,
           NEW up, BeforeTurn(t, T, pos, b, n, d, up)
    PROVE  Shape(Rotate(t, n, d), T, N, pos, TurnedBounds(pos, b, n, up, d))
<1>1. PICK u : u = Rotate(t, n, d)
  OBVIOUS
<1>2. PICK c : c = TurnedBounds(pos, b, n, up, d)
  OBVIOUS
<1>3. Turned(t, u, n, d, up) /\ BoundsTurned(pos, b, c, n, up, d)
  BY <1>1, <1>2, RotateTurns
<1>4. Ordered(T, N, pos, c)
  BY <1>3, TurnedOrdered
<1>5. \A m \in T : \A e \in Sides : HasChild(u, T, pos, c, m, e)
  BY <1>3, TurnedChildren
<1>6. \A m \in T : HasParent(u, T, m)
  BY <1>3, TurnedParents
<1>7. Rooted(u, T, N, c)
  <2>1. n \in T /\ up \in T /\ up # n /\ up # t.root /\ b[Opposite[d]][up] = b[Opposite[d]][n]
    BY DEF BeforeTurn
  <2>2. T # {} /\ t.root \in T /\ b["left"][t.root] = 0 /\ b["right"][t.root] = N + 1
    BY <2>1 DEF Shape, Rooted
  <2>3. u.root = (IF n = t.root THEN up ELSE t.root)
    BY <1>3 DEF Turned
  <2>4. PICK o \in Sides : o = Opposite[d] /\ o # d
    BY Opposites
  <2>5. TurnChanges(t, T, pos, b, c, u, n, d, o, up, t.child[d][up])
    BY <1>3, <2>4, TurnChangesFacts
  <2>6. /\ \A i \in T, f \in Sides : ~(i = up /\ f = d) /\ ~(i = n /\ f = o) => c[f][i] = b[f][i]
        /\ c[d][up] = b[d][n]
    BY <2>5 DEF TurnChanges
  <2>7. CASE n = t.root
    <3>1. c[d][up] = b[d][n] /\ c[o][up] = b[o][n]
      BY <2>1, <2>4, <2>6
    <3>2. c["left"][up] = b["left"][n] /\ c["right"][up] = b["right"][n]
      BY <2>4, <3>1, SideFacts
    <3> QED
      BY <2>1, <2>2, <2>3, <2>7, <3>2 DEF Rooted
  <2>8. CASE n # t.root
    <3>1. c["left"][t.root] = b["left"][t.root] /\ c["right"][t.root] = b["right"][t.root]
      BY <2>1, <2>2, <2>6, <2>8, SideFacts
    <3> QED
      BY <2>2, <2>3, <2>8, <3>1 DEF Rooted
  <2> QED
    BY <2>7, <2>8
<1>8. u \in Trees
  BY <1>3 DEF Turned
<1>9. Shape(u, T, N, pos, c)
  BY <1>4, <1>5, <1>6, <1>7, <1>8 DEF Shape
<1> QED
  BY <1>1, <1>2, <1>9

-----------------------------------------------------------------------------
(* Colours: heights count the black nodes on a way down.  One edge, below q *)
(* on side s, may lack a black node, and only x may be red next to red.     *)

\* The edge from m to c on side e: heights agree, and red below red only at
\* x.
Good(red, B, q, s, x, m, e, c) ==
    /\ B[m] = B[c] + (IF red[m] THEN 0 ELSE 1) + (IF m = q /\ e = s THEN 1 ELSE 0)
    /\ red[m] /\ red[c] => x \in {m, c}

\* Every edge is good, but for the one below q on side s, which lacks a black
\* node, and for x, which may be red next to red.
Coloured(t, T, B, q, s, x) ==
    /\ B \in [Cells -> Nat] /\ B[Sentinel] = 0 /\ ~t.red[Sentinel]
    /\ \A m \in T, e \in Sides : Good(t.red, B, q, s, x, m, e, t.child[e][m])

\* u is t with other colours.
Recoloured(t, u) ==
    /\ u \in Trees /\ u.root = t.root /\ u.child = t.child /\ u.parent = t.parent
    /\ u.key = t.key /\ u.insert = t.insert

\* Colours do not matter to the shape.
LEMMA RecolouredShape ==
    ASSUME NEW t, NEW T, NEW N, NEW pos, NEW b, Shape(t, T, N, pos, b), NEW u, Recoloured(t, u)
    PROVE  Shape(u, T, N, pos, b)
<1>1. \A n \in T : \A d \in Sides : HasChild(u, T, pos, b, n, d)
  BY DEF Shape, Recoloured, HasChild
<1>2. \A n \in T : HasParent(u, T, n)
  BY DEF Shape, Recoloured, HasParent
<1>3. Rooted(u, T, N, b)
  BY DEF Shape, Recoloured, Rooted
<1> QED
  BY <1>1, <1>2, <1>3 DEF Shape, Recoloured

\* Colours do not matter to the side a node is on.
LEMMA RecolouredSide ==
    ASSUME NEW t, NEW u, Recoloured(t, u), NEW n
    PROVE  SideOf(u, n) = SideOf(t, n)
BY DEF Recoloured, SideOf

\* Recolouring twice is recolouring.
LEMMA RecolourTwice ==
    ASSUME NEW t, NEW u, NEW v, Recoloured(t, u), Recoloured(u, v)
    PROVE  Recoloured(t, v)
BY DEF Recoloured

\* u is t with the colour of m set to c.
OneRed(t, u, m, c) ==
    /\ Recoloured(t, u) /\ u.red[m] = c
    /\ \A k \in Cells : k # m => u.red[k] = t.red[k]

\* Assigning one colour recolours.
LEMMA RecolourOne ==
    ASSUME NEW t \in Trees, NEW m \in Cells, NEW c \in BOOLEAN
    PROVE  OneRed(t, WithRed(t, m, c), m, c)
<1>1. RedSet(t, WithRed(t, m, c), m, c)
  BY SetRed
<1> QED
  BY <1>1 DEF RedSet, Recoloured, OneRed

\* Rotation, edge by edge.
GoodTurn(t, T, B, q, s, x, n, d, up, o, inner) ==
    /\ B \in [Cells -> Nat] /\ B[Sentinel] = 0 /\ ~t.red[Sentinel]
    /\ \A m \in T, e \in Sides : m # n /\ m # up /\ t.child[e][m] # n =>
               Good(t.red, B, q, s, x, m, e, t.child[e][m])
    /\ n # t.root => Good(t.red, B, q, s, x, t.parent[n], SideOf(t, n), up)
    /\ Good(t.red, B, q, s, x, n, d, t.child[d][n]) /\ Good(t.red, B, q, s, x, n, o, inner)
    /\ Good(t.red, B, q, s, x, up, d, n) /\ Good(t.red, B, q, s, x, up, o, t.child[o][up])
\* A rotation gives a coloured tree if the edges it makes are good.
LEMMA RotatedGood ==
    ASSUME NEW t, NEW T, NEW N, NEW pos, NEW b, Shape(t, T, N, pos, b), NEW n, NEW d \in Sides,
           NEW up, BeforeTurn(t, T, pos, b, n, d, up), NEW o, o = Opposite[d],
           NEW inner, inner = t.child[d][up],
           NEW B, NEW q, NEW s, NEW x, GoodTurn(t, T, B, q, s, x, n, d, up, o, inner)
    PROVE  Coloured(Rotate(t, n, d), T, B, q, s, x)
<1>0. B \in [Cells -> Nat] /\ B[Sentinel] = 0 /\ ~t.red[Sentinel]
  BY DEF GoodTurn
<1>1. PICK u : u = Rotate(t, n, d)
  OBVIOUS
<1>2. PICK c : c = TurnedBounds(pos, b, n, up, d)
  OBVIOUS
<1>3. Turned(t, u, n, d, up) /\ BoundsTurned(pos, b, c, n, up, d)
  BY <1>1, <1>2, RotateTurns
<1>4. TurnChanges(t, T, pos, b, c, u, n, d, o, up, inner)
  BY <1>3, TurnChangesFacts
<1>5. /\ u.child[d][n] = t.child[d][n] /\ u.child[o][n] = inner
      /\ u.child[d][up] = n /\ u.child[o][up] = t.child[o][up]
      /\ \A i \in T, f \in Sides : i # n /\ i # up =>
           IF n # t.root /\ i = t.parent[n] /\ f = SideOf(t, n) THEN u.child[f][i] = up
           ELSE u.child[f][i] = t.child[f][i]
  BY <1>4 DEF TurnChanges
<1>6. \A e \in Sides : e = d \/ e = o
  BY Opposites
<1>7. u.red = t.red
  BY <1>3 DEF Turned
<1>8. ASSUME NEW m \in T, NEW e \in Sides
      PROVE  Good(t.red, B, q, s, x, m, e, u.child[e][m])
  <2>1. CASE m = n
    BY <1>5, <1>6, <2>1 DEF GoodTurn
  <2>2. CASE m = up
    BY <1>5, <1>6, <2>2 DEF GoodTurn
  <2>3. CASE m # n /\ m # up /\ n # t.root /\ m = t.parent[n] /\ e = SideOf(t, n)
    BY <1>5, <2>3 DEF GoodTurn
  <2>4. CASE m # n /\ m # up /\ ~(n # t.root /\ m = t.parent[n] /\ e = SideOf(t, n))
    <3>1. u.child[e][m] = t.child[e][m]
      BY <1>5, <2>4
    <3>2. n # Sentinel
      <4>1. n \in T
        BY DEF BeforeTurn
      <4> QED
        BY ZenonT(60), <4>1, NodeFacts
    <3>3. t.child[e][m] # n
      <4>1. ASSUME t.child[e][m] = n PROVE FALSE
        <5>0. PICK k : k = t.child[e][m]
          OBVIOUS
        <5>1. IsChild(t, T, pos, b, m, e, k)
          BY <3>2, <4>1, <5>0, ChildFacts
        <5>2. n # t.root /\ t.parent[n] = m /\ SideOf(t, n) = e
          BY <4>1, <5>0, <5>1 DEF IsChild
        <5> QED
          BY <2>4, <5>2
      <4> QED
        BY <4>1
    <3> QED
      BY <2>4, <3>1, <3>3 DEF GoodTurn
  <2> QED
    BY <2>1, <2>2, <2>3, <2>4
<1>9. Coloured(u, T, B, q, s, x)
  BY <1>0, <1>7, <1>8 DEF Coloured
<1> QED
  BY <1>1, <1>9

-----------------------------------------------------------------------------
(* Insertion: x is red, and perhaps its parent, too.                       *)

\* A tree that insertion rebalances at x.
Raising(t, T, N, pos, b, B, x) ==
    /\ Shape(t, T, N, pos, b) /\ Coloured(t, T, B, Sentinel, "left", x)
    /\ x \in T /\ t.red[x] /\ (x # t.root => ~t.red[t.root])
    /\ \A e \in Sides : ~t.red[t.child[e][x]]

\* The relatives a round looks at.
Family(t, T, pos, b, x, p, g, d, o, uncle) ==
    /\ x \in T /\ p \in T /\ g \in T /\ d \in Sides /\ o \in Sides /\ d # o
    /\ o = Opposite[d] /\ d = Opposite[o] /\ (\A e \in Sides : e = d \/ e = o)
    /\ p = t.parent[x] /\ g = t.parent[p] /\ d = SideOf(t, p) /\ uncle = t.child[o][g]
    /\ IsChild(t, T, pos, b, p, SideOf(t, x), x) /\ IsChild(t, T, pos, b, g, d, p)
    /\ uncle \in T \cup {Sentinel} /\ (uncle # Sentinel => IsChild(t, T, pos, b, g, o, uncle))
    /\ t.red[x] /\ t.red[p] /\ ~t.red[g] /\ x # p /\ x # g /\ p # g
    /\ p # uncle /\ g # uncle /\ x # uncle

\* A red node below a red one has a grandparent, since the root is black.
LEMMA FamilyFacts ==
    ASSUME NEW t, NEW T, NEW N, NEW pos, NEW b, NEW B, NEW x, Raising(t, T, N, pos, b, B, x),
           x # t.root, t.red[t.parent[x]],
           NEW p, p = t.parent[x], NEW g, g = t.parent[p], NEW d, d = SideOf(t, p),
           NEW o, o = Opposite[d], NEW uncle, uncle = t.child[o][g]
    PROVE  Family(t, T, pos, b, x, p, g, d, o, uncle)
<1>1. Shape(t, T, N, pos, b)
  BY DEF Raising
<1>2. x \in T /\ t.red[x] /\ ~t.red[t.root]
  BY DEF Raising
<1>3. p \in T /\ IsChild(t, T, pos, b, p, SideOf(t, x), x)
  BY <1>1, <1>2, ParentFacts
<1>4. p # t.root
  BY <1>2
<1>5. g \in T /\ IsChild(t, T, pos, b, g, d, p)
  BY <1>1, <1>3, <1>4, ParentFacts
<1>6. /\ d \in Sides /\ o \in Sides /\ d # o /\ d = Opposite[o]
      /\ \A e \in Sides : e = d \/ e = o
  BY SideInSides, Opposites
<1>7. uncle \in T \cup {Sentinel}
  <2>1. g \in T /\ o \in Sides
    BY <1>5, <1>6
  <2> QED
    BY ZenonT(60), <1>1, <2>1, ChildOrNot
<1>8. uncle # Sentinel => IsChild(t, T, pos, b, g, o, uncle)
  <2>1. g \in T /\ o \in Sides
    BY <1>5, <1>6
  <2> QED
    BY <1>1, <2>1, ChildFacts
<1>9. x # p /\ t.parent[x] = p
  BY <1>3 DEF IsChild
<1>10. p # g /\ t.parent[p] = g /\ t.child[d][g] = p /\ t.child[Opposite[d]][g] # p
  BY <1>5 DEF IsChild
<1>11. x # g
  <2>1. ASSUME x = g PROVE FALSE
    <3>1. PICK e \in Sides : e = SideOf(t, x)
      BY SideInSides
    <3>2. b[e][x] = b[e][p] /\ b[Opposite[e]][x] = pos[p]
      BY <1>3, <3>1 DEF IsChild
    <3>3. b[d][p] = b[d][x] /\ b[o][p] = pos[x]
      BY ZenonT(60), <1>5, <2>1 DEF IsChild
    <3>4. /\ b["left"][x] < pos[x] /\ pos[x] < b["right"][x]
          /\ pos[x] \in Int /\ b["left"][x] \in Int /\ b["right"][x] \in Int
      BY <1>1, <1>2, NodeFacts
    <3>5. b["left"][p] < pos[p] /\ pos[p] < b["right"][p] /\ pos[p] \in Int
      BY <1>1, <1>3, NodeFacts
    <3> QED
      BY <1>6, <3>1, <3>2, <3>3, <3>4, <3>5, SideFacts
  <2> QED
    BY ZenonT(60), <2>1
<1>12. ~t.red[g]
  <2>1. \A m \in T, e \in Sides : Good(t.red, B, Sentinel, "left", x, m, e, t.child[e][m])
    BY DEF Raising, Coloured
  <2>2. Good(t.red, B, Sentinel, "left", x, g, d, p)
    BY ZenonT(60), <1>5, <1>6, <1>10, <2>1
  <2>3. t.red[g] /\ t.red[p] => x \in {g, p}
    BY <2>2 DEF Good
  <2> QED
    BY <1>9, <1>11, <2>3
<1>13. p # uncle
  BY ZenonT(60), <1>10
<1>14. g # uncle /\ x # uncle
  <2>1. g # Sentinel /\ x # Sentinel
    BY ZenonT(60), <1>1, <1>2, <1>5, NodeFacts
  <2>2. ASSUME uncle # Sentinel PROVE g # uncle /\ t.parent[uncle] = g
    BY ZenonT(60), <1>8, <2>2 DEF IsChild
  <2> QED
    BY <1>9, <1>10, <2>1, <2>2
<1>15. t.red[p]
  OBVIOUS
<1> QED
  BY ZenonT(60), <1>2, <1>3, <1>5, <1>6, <1>7, <1>8, <1>9, <1>10, <1>11, <1>12, <1>13,
     <1>14, <1>15 DEF Family

\* The red uncle: p and the uncle become black, and g red.
RecolourUp(t, p, uncle, g) ==
    [t EXCEPT !.red[p] = FALSE, !.red[uncle] = FALSE, !.red[g] = TRUE]
UncleRecoloured(t, u, T, p, uncle, g) ==
    /\ Recoloured(t, u) /\ ~u.red[p] /\ ~u.red[uncle] /\ u.red[g] /\ ~u.red[Sentinel]
    /\ \A k \in T : k # p /\ k # uncle /\ k # g => u.red[k] = t.red[k]

\* The colours after the round that finds a red uncle.
LEMMA RecolourUncle ==
    ASSUME NEW t \in Trees, NEW T, T \subseteq Nodes, NEW p \in T, NEW uncle \in T, NEW g \in T,
           p # uncle, p # g, uncle # g, ~t.red[Sentinel],
           NEW u, u = RecolourUp(t, p, uncle, g)
    PROVE  UncleRecoloured(t, u, T, p, uncle, g)
<1>1. T \subseteq Cells /\ Sentinel \in Cells /\ Sentinel \notin T /\ p \in Cells /\ uncle \in Cells
      /\ g \in Cells
  BY CellFacts
<1>2. PICK t1 : t1 = WithRed(t, p, FALSE)
  OBVIOUS
<1>3. PICK t2 : t2 = WithRed(t1, uncle, FALSE)
  OBVIOUS
<1>4. u = WithRed(t2, g, TRUE)
  BY <1>2, <1>3 DEF WithRed, RecolourUp
<1>5. OneRed(t, t1, p, FALSE)
  BY <1>1, <1>2, RecolourOne
<1>6. OneRed(t1, t2, uncle, FALSE)
  <2>1. t1 \in Trees
    BY <1>5 DEF OneRed, Recoloured
  <2> QED
    BY <1>1, <1>3, <2>1, RecolourOne
<1>7. OneRed(t2, u, g, TRUE)
  <2>1. t2 \in Trees
    BY <1>6 DEF OneRed, Recoloured
  <2> QED
    BY <1>1, <1>4, <2>1, RecolourOne
<1>8. Recoloured(t, u)
  BY <1>5, <1>6, <1>7, RecolourTwice DEF OneRed
<1>9. u.red[g] = TRUE /\ \A k \in Cells : k # g => u.red[k] = t2.red[k]
  BY <1>7 DEF OneRed
<1>10. t2.red[uncle] = FALSE /\ \A k \in Cells : k # uncle => t2.red[k] = t1.red[k]
  BY <1>6 DEF OneRed
<1>11. t1.red[p] = FALSE /\ \A k \in Cells : k # p => t1.red[k] = t.red[k]
  BY <1>5 DEF OneRed
<1>12. ~u.red[p] /\ ~u.red[uncle] /\ u.red[g] /\ ~u.red[Sentinel]
  BY <1>1, <1>9, <1>10, <1>11
<1>13. \A k \in T : k # p /\ k # uncle /\ k # g => u.red[k] = t.red[k]
  BY <1>1, <1>9, <1>10, <1>11
<1> QED
  BY <1>8, <1>12, <1>13 DEF UncleRecoloured

\* With a red uncle, the red pair moves up to the grandparent.
LEMMA RedUncle ==
    ASSUME NEW t, NEW T, NEW N, NEW pos, NEW b, NEW B, NEW x, Raising(t, T, N, pos, b, B, x),
           NEW p, NEW g, NEW d, NEW o, NEW uncle, Family(t, T, pos, b, x, p, g, d, o, uncle),
           t.red[uncle], x # t.root,
           NEW u, u = RecolourUp(t, p, uncle, g)
    PROVE  \E C : Raising(u, T, N, pos, b, C, g)
<1>1. Shape(t, T, N, pos, b) /\ ~t.red[t.root]
  BY DEF Raising
<1>2. B \in [Cells -> Nat] /\ B[Sentinel] = 0 /\ ~t.red[Sentinel]
  BY DEF Raising, Coloured
<1>3. \A m \in T, e \in Sides : Good(t.red, B, Sentinel, "left", x, m, e, t.child[e][m])
  BY ZenonT(60) DEF Raising, Coloured
<1>4. x \in T /\ p \in T /\ g \in T /\ d \in Sides /\ o \in Sides
  BY ZenonT(60) DEF Family
<1>5. p # uncle /\ g # uncle /\ x # uncle /\ x # p /\ x # g /\ p # g /\ t.red[p] /\ ~t.red[g]
  BY ZenonT(60) DEF Family
<1>6. \A e \in Sides : e = d \/ e = o
  BY DEF Family
<1>7. uncle \in T /\ IsChild(t, T, pos, b, g, o, uncle)
  BY <1>2 DEF Family
<1>8. t.parent[uncle] = g /\ uncle # t.root /\ t.child[o][g] = uncle
  BY ZenonT(60), <1>7 DEF IsChild
<1>9. t.parent[p] = g /\ p # t.root /\ t.child[d][g] = p
  BY ZenonT(60) DEF Family, IsChild
<1>10. t.parent[x] = p
  BY ZenonT(60) DEF Family, IsChild
<1>11. \A m \in T : m \in Cells /\ m # Sentinel
  BY <1>1, NodeFacts
<1>12. UncleRecoloured(t, u, T, p, uncle, g)
  <2>1. t \in Trees /\ T \subseteq Nodes
    BY <1>1 DEF Shape, Ordered
  <2> QED
    BY <1>2, <1>4, <1>5, <1>7, <2>1, RecolourUncle
<1>13. Shape(u, T, N, pos, b)
  BY <1>1, <1>12, RecolouredShape DEF UncleRecoloured
<1>14. u.child = t.child /\ u.root = t.root
  BY <1>12 DEF UncleRecoloured, Recoloured
<1>15. ~u.red[p] /\ ~u.red[uncle] /\ u.red[g] /\ ~u.red[Sentinel]
  BY <1>12 DEF UncleRecoloured
<1>16. \A k \in T : k # p /\ k # uncle /\ k # g => u.red[k] = t.red[k]
  BY <1>12 DEF UncleRecoloured
<1>17. PICK C : C = [B EXCEPT ![p] = B[p] + 1, ![uncle] = B[uncle] + 1]
  OBVIOUS
<1>18. C \in [Cells -> Nat]
  BY <1>2, <1>4, <1>7, <1>11, <1>17
<1>19. C[p] = B[p] + 1 /\ C[uncle] = B[uncle] + 1
  BY <1>2, <1>4, <1>5, <1>7, <1>11, <1>17
<1>20. \A k \in Cells : k # p /\ k # uncle => C[k] = B[k]
  BY <1>2, <1>4, <1>7, <1>11, <1>17
<1>21. ASSUME NEW m \in T, NEW e \in Sides
       PROVE  Good(u.red, C, Sentinel, "left", g, m, e, t.child[e][m])
  <2>1. PICK c \in T \cup {Sentinel} : c = t.child[e][m]
    BY <1>1, ChildOrNot
  <2>2. Good(t.red, B, Sentinel, "left", x, m, e, c)
    BY <1>3, <2>1
  <2>3. c # Sentinel => t.parent[c] = m
    BY <1>1, <2>1, ChildFacts DEF IsChild
  <2>4. m # Sentinel /\ m \in Cells /\ c \in Cells /\ p # Sentinel /\ uncle # Sentinel
        /\ g # Sentinel /\ x # Sentinel
    BY <1>4, <1>7, <1>11, CellFacts
  <2>5. B[m] = B[c] + (IF t.red[m] THEN 0 ELSE 1)
    BY <1>2, <2>2, <2>4 DEF Good
  <2>6. t.red[m] /\ t.red[c] => x = m \/ x = c
    BY <2>2 DEF Good
  <2>7. B[m] \in Nat /\ B[c] \in Nat
    BY <1>2, <2>4
  <2>8. C[m] = C[c] + (IF u.red[m] THEN 0 ELSE 1) /\ (u.red[m] /\ u.red[c] => g \in {m, c})
    <3>1. CASE m = g
      <4>1. c = p \/ c = uncle
        BY <1>6, <1>8, <1>9, <2>1, <3>1
      <4>2. C[m] = B[m] /\ C[c] = B[c] + 1
        BY <1>5, <1>19, <1>20, <2>4, <3>1, <4>1
      <4> QED
        BY <1>5, <1>15, <2>5, <2>7, <3>1, <4>2
    <3>2. CASE m # g
      <4>1. c # p /\ c # uncle
        BY <1>8, <1>9, <2>3, <2>4, <3>2
      <4>2. C[c] = B[c]
        BY <1>20, <2>4, <4>1
      <4>3. CASE m = p \/ m = uncle
        <5>1. C[m] = B[m] + 1 /\ t.red[m] /\ ~u.red[m]
          BY <1>5, <1>15, <1>19, <4>3
        <5> QED
          BY <2>5, <2>7, <4>2, <5>1
      <4>4. CASE m # p /\ m # uncle
        <5>1. C[m] = B[m] /\ u.red[m] = t.red[m]
          BY <1>16, <1>20, <2>4, <3>2, <4>4
        <5>2. c # x
          BY <1>10, <2>3, <2>4, <4>4
        <5>3. m = x => ~t.red[c]
          BY <2>1 DEF Raising
        <5>4. c = g \/ (u.red[c] => t.red[c])
          BY <1>2, <1>15, <1>16, <4>1
        <5>5. C[m] = C[c] + (IF u.red[m] THEN 0 ELSE 1)
          BY <2>5, <4>2, <5>1
        <5> QED
          BY <2>6, <5>1, <5>2, <5>3, <5>4, <5>5
      <4> QED
        BY <4>3, <4>4
    <3> QED
      BY <3>1, <3>2
  <2>9. C[m] \in Nat /\ C[c] \in Nat
    BY <1>18, <2>4
  <2> QED
    BY <2>1, <2>4, <2>8, <2>9 DEF Good
<1>22. C[Sentinel] = 0
  BY <1>2, <1>4, <1>7, <1>11, <1>20, CellFacts
<1>23. Coloured(u, T, C, Sentinel, "left", g)
  BY <1>14, <1>15, <1>18, <1>21, <1>22 DEF Coloured
<1>24. \A e \in Sides : ~u.red[u.child[e][g]]
  BY <1>6, <1>8, <1>9, <1>14, <1>15
<1>25. g # u.root => ~u.red[u.root]
  <2>1. t.root \in T
    BY <1>1, <1>4 DEF Shape, Rooted
  <2> QED
    BY <1>1, <1>8, <1>9, <1>14, <1>16, <2>1
<1>26. Raising(u, T, N, pos, b, C, g)
  BY <1>4, <1>13, <1>15, <1>23, <1>24, <1>25 DEF Raising
<1> QED
  BY <1>26

\* The black uncle, and x between p and g: p goes below x.
LEMMA Straighten ==
    ASSUME NEW t, NEW T, NEW N, NEW pos, NEW b, NEW B, NEW x, Raising(t, T, N, pos, b, B, x),
           NEW p, NEW g, NEW d, NEW o, NEW uncle, Family(t, T, pos, b, x, p, g, d, o, uncle),
           x # t.root, x = t.child[o][p], NEW u, u = Rotate(t, p, d)
    PROVE  \E a : /\ Raising(u, T, N, pos, a, B, p) /\ p # u.root
                  /\ Family(u, T, pos, a, p, x, g, d, o, uncle) /\ p = u.child[d][x]
                  /\ u.red = t.red
<1>1. Shape(t, T, N, pos, b) /\ ~t.red[t.root]
  BY DEF Raising
<1>2. B \in [Cells -> Nat] /\ B[Sentinel] = 0 /\ ~t.red[Sentinel]
  BY DEF Raising, Coloured
<1>3. \A m \in T, e \in Sides : Good(t.red, B, Sentinel, "left", x, m, e, t.child[e][m])
  BY DEF Raising, Coloured
<1>4. x \in T /\ p \in T /\ g \in T /\ d \in Sides /\ o \in Sides
  BY ZenonT(60) DEF Family
<1>5. x # p /\ x # g /\ p # g /\ t.red[x] /\ t.red[p] /\ ~t.red[g] /\ uncle = t.child[o][g]
  BY ZenonT(60) DEF Family
<1>6. d # o /\ o = Opposite[d] /\ d = Opposite[o] /\ \A e \in Sides : e = d \/ e = o
  BY ZenonT(60) DEF Family
<1>7. t.parent[p] = g /\ p # t.root /\ t.child[d][g] = p /\ SideOf(t, p) = d
  BY ZenonT(60) DEF Family, IsChild
<1>8. t.parent[x] = p
  BY ZenonT(60) DEF Family, IsChild
<1>9. \A m \in T : m \in Cells /\ m # Sentinel
  BY ZenonT(60), <1>1, NodeFacts
<1>10. BeforeTurn(t, T, pos, b, p, d, x)
  BY <1>1, <1>4, <1>6, <1>9, BeforeTurnFacts
<1>11. PICK inner \in T \cup {Sentinel} : inner = t.child[d][x]
  BY <1>1, <1>4, ChildOrNot
<1>12. ~t.red[inner] /\ ~t.red[t.child[o][x]]
  BY <1>4, <1>11 DEF Raising
<1>13. B[x] \in Nat /\ B[p] \in Nat /\ B[g] \in Nat /\ B[inner] \in Nat
       /\ x # Sentinel /\ p # Sentinel /\ g # Sentinel /\ inner \in Cells
  BY <1>2, <1>4, <1>9, <1>11, CellFacts
<1>14. B[p] = B[x]
  <2>1. Good(t.red, B, Sentinel, "left", x, p, o, x)
    BY <1>3, <1>4
  <2> QED
    BY <1>5, <1>13, <2>1 DEF Good
<1>15. B[x] = B[inner]
  <2>1. Good(t.red, B, Sentinel, "left", x, x, d, inner)
    BY <1>3, <1>4, <1>11
  <2> QED
    BY <1>5, <1>13, <2>1 DEF Good
<1>16. B[g] = B[p] + 1
  <2>1. Good(t.red, B, Sentinel, "left", x, g, d, p)
    BY <1>3, <1>4, <1>7
  <2> QED
    BY <1>5, <1>13, <2>1 DEF Good
<1>17. Coloured(u, T, B, Sentinel, "left", p)
  <2>1. ASSUME NEW m \in T, NEW e \in Sides, m # p, m # x, t.child[e][m] # p
        PROVE  Good(t.red, B, Sentinel, "left", p, m, e, t.child[e][m])
    <3>1. PICK c \in T \cup {Sentinel} : c = t.child[e][m]
      BY <1>1, ChildOrNot
    <3>2. c # Sentinel => t.parent[c] = m
      BY <1>1, <3>1, ChildFacts DEF IsChild
    <3>3. c # x
      BY <1>8, <1>13, <2>1, <3>2
    <3>4. Good(t.red, B, Sentinel, "left", x, m, e, c)
      BY <1>3, <3>1
    <3> QED
      BY <2>1, <3>1, <3>3, <3>4 DEF Good
  <2>2. Good(t.red, B, Sentinel, "left", p, g, d, x)
    BY <1>5, <1>13, <1>14, <1>16 DEF Good
  <2>3. Good(t.red, B, Sentinel, "left", p, p, d, t.child[d][p])
    <3>1. Good(t.red, B, Sentinel, "left", x, p, d, t.child[d][p])
      BY <1>3, <1>4
    <3> QED
      BY <3>1 DEF Good
  <2>4. Good(t.red, B, Sentinel, "left", p, p, o, inner)
    BY <1>5, <1>13, <1>14, <1>15 DEF Good
  <2>5. Good(t.red, B, Sentinel, "left", p, x, d, p)
    BY <1>5, <1>13, <1>14 DEF Good
  <2>6. Good(t.red, B, Sentinel, "left", p, x, o, t.child[o][x])
    <3>1. Good(t.red, B, Sentinel, "left", x, x, o, t.child[o][x])
      BY <1>3, <1>4
    <3> QED
      BY <1>12, <3>1 DEF Good
  <2>7. p # t.root => Good(t.red, B, Sentinel, "left", p, t.parent[p], SideOf(t, p), x)
    BY <1>7, <2>2
  <2>8. GoodTurn(t, T, B, Sentinel, "left", p, p, d, x, o, inner)
    BY <1>2, <2>1, <2>3, <2>4, <2>5, <2>6, <2>7 DEF GoodTurn
  <2> QED
    BY ZenonT(60), <1>1, <1>4, <1>6, <1>10, <1>11, <2>8, RotatedGood
<1>18. PICK a : a = TurnedBounds(pos, b, p, x, d)
  OBVIOUS
<1>19. Shape(u, T, N, pos, a)
  BY <1>1, <1>4, <1>10, <1>18, RotateShape
<1>20. Turned(t, u, p, d, x) /\ BoundsTurned(pos, b, a, p, x, d)
  BY <1>1, <1>4, <1>10, <1>18, RotateTurns
<1>21. TurnChanges(t, T, pos, b, a, u, p, d, o, x, inner)
  BY ZenonT(60), <1>1, <1>4, <1>6, <1>10, <1>11, <1>20, TurnChangesFacts
<1>22. u.red = t.red /\ u.root = t.root
  BY <1>7, <1>20 DEF Turned
<1>23. u.child[d][p] = t.child[d][p] /\ u.child[o][p] = inner /\ u.child[d][x] = p
       /\ u.parent[p] = x /\ u.parent[x] = g
  BY <1>7, <1>21 DEF TurnChanges
<1>24. \A i \in T, f \in Sides : i # p /\ i # x =>
         IF p # t.root /\ i = t.parent[p] /\ f = SideOf(t, p) THEN u.child[f][i] = x
         ELSE u.child[f][i] = t.child[f][i]
  BY <1>21 DEF TurnChanges
<1>25. u.child[d][g] = x /\ u.child[o][g] = uncle
  BY ZenonT(60), <1>4, <1>5, <1>6, <1>7, <1>24
<1>26. ~t.red[t.child[d][p]]
  <2>1. Good(t.red, B, Sentinel, "left", x, p, d, t.child[d][p])
    BY <1>3, <1>4
  <2>2. x # t.child[d][p]
    <3>1. IsChild(t, T, pos, b, p, o, x)
      BY <1>1, <1>4, <1>13, ChildFacts
    <3> QED
      BY ZenonT(60), <1>6, <3>1 DEF IsChild
  <2> QED
    BY <1>5, <2>1, <2>2 DEF Good
<1>27. Raising(u, T, N, pos, a, B, p)
  <2>1. \A e \in Sides : ~u.red[u.child[e][p]]
    BY ZenonT(60), <1>6, <1>12, <1>22, <1>23, <1>26
  <2> QED
    BY <1>1, <1>4, <1>5, <1>17, <1>19, <1>22, <2>1 DEF Raising
<1>28. SideOf(u, x) = d
  <2>1. IsChild(u, T, pos, a, g, d, x)
    BY <1>4, <1>13, <1>19, <1>25, ChildFacts
  <2> QED
    BY <2>1 DEF IsChild
<1>29. Family(u, T, pos, a, p, x, g, d, o, uncle)
  <2>1. p # u.root /\ u.red[u.parent[p]]
    BY <1>5, <1>7, <1>22, <1>23
  <2> QED
    BY ZenonT(60), <1>6, <1>23, <1>25, <1>27, <1>28, <2>1, FamilyFacts
<1> QED
  BY <1>7, <1>22, <1>23, <1>27, <1>29

\* The black uncle: g goes below p, which becomes black.
RecolourTop(t, p, g) == [t EXCEPT !.red[p] = FALSE, !.red[g] = TRUE]

TopRecoloured(t, u, T, p, g) ==
    /\ Recoloured(t, u) /\ ~u.red[p] /\ u.red[g] /\ ~u.red[Sentinel]
    /\ \A k \in T : k # p /\ k # g => u.red[k] = t.red[k]

\* The colours before the last rotation.
LEMMA RecolourTopFacts ==
    ASSUME NEW t \in Trees, NEW T, T \subseteq Nodes, NEW p \in T, NEW g \in T, p # g,
           ~t.red[Sentinel], NEW u, u = RecolourTop(t, p, g)
    PROVE  TopRecoloured(t, u, T, p, g)
<1>1. T \subseteq Cells /\ Sentinel \in Cells /\ Sentinel \notin T /\ p \in Cells /\ g \in Cells
  BY CellFacts
<1>2. PICK t1 : t1 = WithRed(t, p, FALSE)
  OBVIOUS
<1>3. u = WithRed(t1, g, TRUE)
  BY <1>2 DEF WithRed, RecolourTop
<1>4. OneRed(t, t1, p, FALSE)
  BY <1>1, <1>2, RecolourOne
<1>5. OneRed(t1, u, g, TRUE)
  <2>1. t1 \in Trees
    BY <1>4 DEF OneRed, Recoloured
  <2> QED
    BY <1>1, <1>3, <2>1, RecolourOne
<1>6. Recoloured(t, u)
  BY <1>4, <1>5, RecolourTwice DEF OneRed
<1>7. u.red[g] = TRUE /\ \A k \in Cells : k # g => u.red[k] = t1.red[k]
  BY <1>5 DEF OneRed
<1>8. t1.red[p] = FALSE /\ \A k \in Cells : k # p => t1.red[k] = t.red[k]
  BY <1>4 DEF OneRed
<1>9. ~u.red[p] /\ u.red[g] /\ ~u.red[Sentinel]
  BY <1>1, <1>7, <1>8
<1>10. \A k \in T : k # p /\ k # g => u.red[k] = t.red[k]
  BY <1>1, <1>7, <1>8
<1> QED
  BY <1>6, <1>9, <1>10 DEF TopRecoloured

\* With a black uncle, a recolouring and a rotation settle it.
LEMMA BlackUncle ==
    ASSUME NEW t, NEW T, NEW N, NEW pos, NEW b, NEW B, NEW x, Raising(t, T, N, pos, b, B, x),
           NEW p, NEW g, NEW d, NEW o, NEW uncle, Family(t, T, pos, b, x, p, g, d, o, uncle),
           x # t.root, x = t.child[d][p], ~t.red[uncle],
           NEW v, v = RecolourTop(t, p, g), NEW u, u = Rotate(v, g, o)
    PROVE  \E a, C : Raising(u, T, N, pos, a, C, x) /\ ~u.red[u.parent[x]]
<1>1. Shape(t, T, N, pos, b) /\ ~t.red[t.root]
  BY DEF Raising
<1>2. B \in [Cells -> Nat] /\ B[Sentinel] = 0 /\ ~t.red[Sentinel]
  BY DEF Raising, Coloured
<1>3. \A m \in T, e \in Sides : Good(t.red, B, Sentinel, "left", x, m, e, t.child[e][m])
  BY DEF Raising, Coloured
<1>4. x \in T /\ p \in T /\ g \in T /\ d \in Sides /\ o \in Sides /\ uncle \in T \cup {Sentinel}
  BY ZenonT(60) DEF Family
<1>5. x # p /\ x # g /\ p # g /\ t.red[x] /\ t.red[p] /\ ~t.red[g] /\ uncle = t.child[o][g]
      /\ p # uncle /\ g # uncle
  BY ZenonT(60) DEF Family
<1>6. d # o /\ o = Opposite[d] /\ d = Opposite[o] /\ \A e \in Sides : e = d \/ e = o
  BY ZenonT(60) DEF Family
<1>7. t.parent[p] = g /\ p # t.root /\ t.child[d][g] = p /\ SideOf(t, p) = d
  BY ZenonT(60) DEF Family, IsChild
<1>8. t.parent[x] = p
  BY ZenonT(60) DEF Family, IsChild
<1>9. \A m \in T : m \in Cells /\ m # Sentinel
  BY <1>1, NodeFacts
<1>10. PICK inner \in T \cup {Sentinel} : inner = t.child[o][p]
  BY <1>1, <1>4, ChildOrNot
<1>11. inner # x
  <2>1. IsChild(t, T, pos, b, p, d, x)
    BY <1>1, <1>4, <1>9, ChildFacts
  <2> QED
    BY <1>6, <1>10, <2>1 DEF IsChild
<1>12. TopRecoloured(t, v, T, p, g)
  <2>1. t \in Trees /\ T \subseteq Nodes
    BY <1>1 DEF Shape, Ordered
  <2> QED
    BY <1>2, <1>4, <1>5, <2>1, RecolourTopFacts
<1>13. Shape(v, T, N, pos, b)
  BY <1>1, <1>12, RecolouredShape DEF TopRecoloured
<1>14. v.child = t.child /\ v.root = t.root /\ v.parent = t.parent
  BY <1>12 DEF TopRecoloured, Recoloured
<1>15. ~v.red[p] /\ v.red[g] /\ ~v.red[Sentinel]
  BY <1>12 DEF TopRecoloured
<1>16. \A k \in T : k # p /\ k # g => v.red[k] = t.red[k]
  BY <1>12 DEF TopRecoloured
<1>17. BeforeTurn(v, T, pos, b, g, o, p)
  BY <1>4, <1>6, <1>7, <1>9, <1>13, <1>14, BeforeTurnFacts
<1>18. B[x] \in Nat /\ B[p] \in Nat /\ B[g] \in Nat /\ B[inner] \in Nat /\ B[uncle] \in Nat
       /\ x # Sentinel /\ p # Sentinel /\ g # Sentinel /\ inner \in Cells /\ uncle \in Cells
  BY <1>2, <1>4, <1>9, <1>10, CellFacts
<1>19. B[p] = B[x]
  <2>1. Good(t.red, B, Sentinel, "left", x, p, d, x)
    BY <1>3, <1>4
  <2> QED
    BY <1>5, <1>18, <2>1 DEF Good
<1>20. B[p] = B[inner] /\ ~t.red[inner]
  <2>1. Good(t.red, B, Sentinel, "left", x, p, o, inner)
    BY <1>3, <1>4, <1>10
  <2> QED
    BY <1>5, <1>11, <1>18, <2>1 DEF Good
<1>21. B[g] = B[p] + 1
  <2>1. Good(t.red, B, Sentinel, "left", x, g, d, p)
    BY <1>3, <1>4, <1>7
  <2> QED
    BY <1>5, <1>18, <2>1 DEF Good
<1>22. B[uncle] = B[p]
  <2>1. Good(t.red, B, Sentinel, "left", x, g, o, uncle)
    BY <1>3, <1>4, <1>5
  <2> QED
    BY <1>5, <1>18, <1>21, <2>1 DEF Good
<1>23. PICK C : C = [B EXCEPT ![p] = B[g], ![g] = B[p]]
  OBVIOUS
<1>24. C \in [Cells -> Nat] /\ C[p] = B[g] /\ C[g] = B[p]
  BY <1>2, <1>4, <1>5, <1>9, <1>23
<1>25. \A k \in Cells : k # p /\ k # g => C[k] = B[k]
  BY <1>2, <1>4, <1>9, <1>23
<1>26. inner # p /\ inner # g /\ (g # t.root => t.parent[g] \in T \ {g, p})
  <2>1. v.child[o][p] \in (T \cup {Sentinel}) \ {g, p}
    BY ZenonT(60), <1>17 DEF BeforeTurn
  <2>2. g # v.root => v.parent[g] \in T \ {g, p}
    BY ZenonT(60), <1>17 DEF BeforeTurn
  <2> QED
    BY <1>10, <1>14, <2>1, <2>2
<1>27. C[x] = B[x] /\ C[inner] = B[inner] /\ C[uncle] = B[uncle] /\ C[Sentinel] = 0
  BY <1>2, <1>4, <1>5, <1>9, <1>18, <1>25, <1>26, CellFacts
<1>28. ~v.red[inner] /\ ~v.red[uncle] /\ v.red[x]
  BY <1>4, <1>5, <1>10, <1>15, <1>16, <1>20, <1>26
<1>29. GoodTurn(v, T, C, Sentinel, "left", x, g, o, p, d, inner)
  <2>1. ASSUME NEW m \in T, NEW e \in Sides, m # g, m # p, t.child[e][m] # g
        PROVE  Good(v.red, C, Sentinel, "left", x, m, e, t.child[e][m])
    <3>1. PICK c \in T \cup {Sentinel} : c = t.child[e][m]
      BY <1>1, ChildOrNot
    <3>2. c # Sentinel => t.parent[c] = m
      BY <1>1, <3>1, ChildFacts DEF IsChild
    <3>3. c # p
      BY <1>7, <1>18, <2>1, <3>2
    <3>4. Good(t.red, B, Sentinel, "left", x, m, e, c)
      BY <1>3, <3>1
    <3>5. C[m] = B[m] /\ C[c] = B[c] /\ v.red[m] = t.red[m] /\ (v.red[c] => t.red[c])
      BY <1>9, <1>15, <1>16, <1>25, <2>1, <3>1, <3>3, CellFacts
    <3> QED
      BY <3>1, <3>4, <3>5 DEF Good
  <2>2. ASSUME g # t.root
        PROVE  Good(v.red, C, Sentinel, "left", x, t.parent[g], SideOf(t, g), p)
    <3>1. IsChild(t, T, pos, b, t.parent[g], SideOf(t, g), g) /\ t.parent[g] \in T
      BY <1>1, <1>4, <2>2, ParentFacts
    <3>2. PICK k \in T : k = t.parent[g] /\ k # g /\ k # p
      BY <1>26, <2>2
    <3>3. PICK e \in Sides : e = SideOf(t, g)
      BY SideInSides
    <3>4. t.child[e][k] = g
      BY <3>1, <3>2, <3>3 DEF IsChild
    <3>5. Good(t.red, B, Sentinel, "left", x, k, e, g)
      BY <1>3, <3>4
    <3>6. C[k] = B[k] /\ v.red[k] = t.red[k] /\ B[k] \in Nat /\ k # Sentinel
      BY <1>2, <1>9, <1>16, <1>25, <3>2
    <3>7. Good(v.red, C, Sentinel, "left", x, k, e, p)
      BY <1>15, <1>24, <3>5, <3>6 DEF Good
    <3> QED
      BY <3>2, <3>3, <3>7
  <2>3. Good(v.red, C, Sentinel, "left", x, g, o, uncle)
    BY <1>15, <1>18, <1>22, <1>24, <1>27, <1>28 DEF Good
  <2>4. Good(v.red, C, Sentinel, "left", x, g, d, inner)
    BY <1>15, <1>18, <1>20, <1>24, <1>27, <1>28 DEF Good
  <2>5. Good(v.red, C, Sentinel, "left", x, p, o, g)
    BY <1>15, <1>18, <1>21, <1>24 DEF Good
  <2>6. Good(v.red, C, Sentinel, "left", x, p, d, x)
    BY <1>15, <1>18, <1>19, <1>21, <1>24, <1>27 DEF Good
  <2>7. SideOf(v, g) = SideOf(t, g)
    BY <1>14 DEF SideOf
  <2>8. \A m \in T, e \in Sides : m # g /\ m # p /\ v.child[e][m] # g =>
               Good(v.red, C, Sentinel, "left", x, m, e, v.child[e][m])
    BY <1>14, <2>1
  <2>9. g # v.root => Good(v.red, C, Sentinel, "left", x, v.parent[g], SideOf(v, g), p)
    BY <1>14, <2>2, <2>7
  <2>10. v.child[o][g] = uncle /\ v.child[d][p] = x
    BY ZenonT(60), <1>5, <1>14
  <2> QED
    BY <1>15, <1>24, <1>27, <2>3, <2>4, <2>5, <2>6, <2>8, <2>9, <2>10 DEF GoodTurn
<1>30. Coloured(u, T, C, Sentinel, "left", x)
  <2>1. inner = v.child[o][p]
    BY <1>10, <1>14
  <2> QED
    BY ZenonT(60), <1>4, <1>6, <1>13, <1>17, <1>29, <2>1, RotatedGood
<1>31. PICK a : a = TurnedBounds(pos, b, g, p, o)
  BY ZenonT(60)
<1>32. Shape(u, T, N, pos, a)
  BY <1>4, <1>13, <1>17, <1>31, RotateShape
<1>33. Turned(v, u, g, o, p) /\ BoundsTurned(pos, b, a, g, p, o)
  BY ZenonT(60), <1>4, <1>13, <1>17, <1>31, RotateTurns
<1>34. TurnChanges(v, T, pos, b, a, u, g, o, d, p, inner)
  <2>1. inner = v.child[o][p]
    BY <1>10, <1>14
  <2> QED
    BY <1>4, <1>6, <1>13, <1>17, <1>33, <2>1, TurnChangesFacts
<1>35. u.red = v.red /\ u.root = (IF g = t.root THEN p ELSE t.root)
  BY <1>14, <1>33 DEF Turned
<1>36. u.parent[x] = p
  <2>1. \A i \in T : i # g /\ i # p /\ i # inner => u.parent[i] = v.parent[i]
    BY ZenonT(60), <1>34 DEF TurnChanges
  <2> QED
    BY <1>4, <1>5, <1>8, <1>11, <1>14, <2>1
<1>37. ASSUME NEW e \in Sides PROVE ~u.red[u.child[e][x]]
  <2>1. \A i \in T, f \in Sides : i # g /\ i # p =>
         IF g # v.root /\ i = v.parent[g] /\ f = SideOf(v, g) THEN u.child[f][i] = p
         ELSE u.child[f][i] = v.child[f][i]
    BY <1>34 DEF TurnChanges
  <2>2. PICK c \in T \cup {Sentinel} : c = t.child[e][x]
    BY <1>1, <1>4, ChildOrNot
  <2>3. ~t.red[c]
    BY <2>2 DEF Raising
  <2>4. CASE u.child[e][x] = p
    BY <1>15, <1>35, <2>4
  <2>5. CASE u.child[e][x] # p
    <3>1. u.child[e][x] = c /\ ~(g # v.root /\ x = v.parent[g] /\ e = SideOf(v, g))
      BY <1>4, <1>5, <1>14, <2>1, <2>2, <2>5
    <3>2. c # g
      <4>1. ASSUME c = g PROVE FALSE
        <5>1. IsChild(v, T, pos, b, x, e, g)
          BY <1>4, <1>13, <1>14, <1>18, <2>2, <4>1, ChildFacts
        <5>2. g # v.root /\ x = v.parent[g] /\ e = SideOf(v, g)
          BY <5>1 DEF IsChild
        <5> QED
          BY <3>1, <5>2
      <4> QED
        BY <4>1
    <3>3. ~v.red[c]
      BY <1>15, <1>16, <2>2, <2>3, <3>2
    <3> QED
      BY <1>35, <3>1, <3>3
  <2> QED
    BY <2>4, <2>5
<1>38. ~u.red[u.root]
  <2>1. t.root \in T
    BY ZenonT(60), <1>1, <1>4 DEF Shape, Rooted
  <2> QED
    BY <1>1, <1>7, <1>15, <1>16, <1>35, <2>1
<1>39. Raising(u, T, N, pos, a, C, x)
  BY <1>4, <1>28, <1>30, <1>32, <1>35, <1>37, <1>38 DEF Raising
<1> QED
  BY <1>15, <1>35, <1>36, <1>39

\* u differs from t only in the links and colours of T.
Elsewhere(t, u, T) ==
    /\ u.key = t.key /\ u.insert = t.insert
    /\ \A m \in Nodes \ T, d \in Sides : u.child[d][m] = t.child[d][m]

\* Leaving the rest alone twice is leaving it alone.
LEMMA ElsewhereTwice ==
    ASSUME NEW t, NEW u, NEW v, NEW T, Elsewhere(t, u, T), Elsewhere(u, v, T)
    PROVE  Elsewhere(t, v, T)
BY DEF Elsewhere

\* Recolouring leaves links and keys alone.
LEMMA RecolourElsewhere ==
    ASSUME NEW t, NEW u, NEW T, Recoloured(t, u)
    PROVE  Elsewhere(t, u, T)
BY DEF Elsewhere, Recoloured

\* A rotation leaves keys and the nodes outside the tree alone.
LEMMA RotateElsewhere ==
    ASSUME NEW t, NEW T, NEW N, NEW pos, NEW b, Shape(t, T, N, pos, b), NEW n, NEW d \in Sides,
           NEW up, BeforeTurn(t, T, pos, b, n, d, up)
    PROVE  Elsewhere(t, Rotate(t, n, d), T)
<1>1. PICK u : u = Rotate(t, n, d)
  OBVIOUS
<1>2. Turned(t, u, n, d, up)
  BY <1>1, RotateTurns
<1>3. n \in T /\ up \in T /\ (n # t.root => t.parent[n] \in T)
  BY DEF BeforeTurn
<1>4. ASSUME NEW m \in Nodes \ T, NEW e \in Sides PROVE u.child[e][m] = t.child[e][m]
  <2>1. u.child[e][m] = ChildTurned(t, n, d, up, e, m)
    BY <1>2, CellFacts DEF Turned
  <2>2. m # n /\ m # up /\ ~(n # t.root /\ m = t.parent[n])
    BY <1>3
  <2>3. ChildTurned(t, n, d, up, e, m) = PlaceTaken(t, n, up, e, m)
    BY <2>2 DEF ChildTurned
  <2>4. PlaceTaken(t, n, up, e, m) = t.child[e][m]
    BY <2>2 DEF PlaceTaken
  <2> QED
    BY <2>1, <2>3, <2>4
<1>5. u.key = t.key /\ u.insert = t.insert
  BY <1>2 DEF Turned
<1>6. Elsewhere(t, u, T)
  BY <1>4, <1>5 DEF Elsewhere
<1> QED
  BY <1>1, <1>6

\* How far the bounds of n are apart.
Width(b, n) == b["right"][n] - b["left"][n]

\* The subtree of a child covers fewer positions.
LEMMA ChildIsNarrower ==
    ASSUME NEW t, NEW T, NEW N, NEW pos, NEW b, Shape(t, T, N, pos, b),
           NEW n \in T, NEW d \in Sides, NEW c, IsChild(t, T, pos, b, n, d, c)
    PROVE  Width(b, c) \in Int /\ Width(b, n) \in Int /\ Width(b, c) < Width(b, n)
<1>1. c \in T /\ b[d][c] = b[d][n] /\ b[Opposite[d]][c] = pos[n]
  BY DEF IsChild
<1>2. /\ b["left"][n] \in Int /\ b["right"][n] \in Int /\ pos[n] \in Int
      /\ b["left"][n] < pos[n] /\ pos[n] < b["right"][n]
  BY NodeFacts
<1>3. b["left"][c] \in Int /\ b["right"][c] \in Int
  BY <1>1, NodeFacts
<1>4. CASE d = "left"
  <2>1. b["left"][c] = b["left"][n] /\ b["right"][c] = pos[n]
    BY <1>1, <1>4, SideFacts
  <2> QED
    BY <1>2, <1>3, <2>1 DEF Width
<1>5. CASE d = "right"
  <2>1. b["right"][c] = b["right"][n] /\ b["left"][c] = pos[n]
    BY <1>1, <1>5, SideFacts
  <2> QED
    BY <1>2, <1>3, <2>1 DEF Width
<1> QED
  BY <1>4, <1>5, SideFacts

\* What a round of the insertion makes of its state.
Settled(t, x) == x = t.root \/ ~t.red[t.parent[x]]

\* What a round leaves: settled, or a wider subtree to go on with.
Climbed(t, T, N, pos, b, x, r) ==
    /\ Elsewhere(t, r.tree, T)
    /\ \E a, C : /\ Raising(r.tree, T, N, pos, a, C, r.at)
                 /\ Settled(r.tree, r.at) \/ Width(a, r.at) >= Width(b, x) + 1

\* A round either settles the tree or goes on with a wider subtree.
LEMMA RaisedRound ==
    ASSUME NEW t, NEW T, NEW N, NEW pos, NEW b, NEW B, NEW x, Raising(t, T, N, pos, b, B, x),
           ~Settled(t, x)
    PROVE  Climbed(t, T, N, pos, b, x, Raised(t, x))
<1>1. x # t.root /\ t.red[t.parent[x]]
  BY DEF Settled
<1>2. PICK p : p = t.parent[x]
  OBVIOUS
<1>3. PICK g : g = t.parent[p]
  OBVIOUS
<1>4. PICK d : d = SideOf(t, p)
  OBVIOUS
<1>5. PICK o : o = Opposite[d]
  OBVIOUS
<1>6. PICK uncle : uncle = t.child[o][g]
  OBVIOUS
<1>7. Family(t, T, pos, b, x, p, g, d, o, uncle)
  BY ZenonT(60), <1>1, <1>2, <1>3, <1>4, <1>5, <1>6, FamilyFacts
<1>8. Shape(t, T, N, pos, b) /\ ~t.red[Sentinel]
  BY DEF Raising, Coloured
<1>9. x \in T /\ p \in T /\ g \in T /\ d \in Sides /\ o \in Sides /\ uncle \in T \cup {Sentinel}
  BY ZenonT(60), <1>7 DEF Family
<1>10. x # p /\ x # g /\ p # g /\ p # uncle /\ g # uncle
  BY ZenonT(60), <1>7 DEF Family
<1>11. d = Opposite[o] /\ d # o /\ \A e \in Sides : e = d \/ e = o
  BY <1>7 DEF Family
<1>12. t \in Trees /\ T \subseteq Nodes
  BY <1>8 DEF Shape, Ordered
<1>13. CASE t.red[uncle]
  <2>1. PICK u : u = RecolourUp(t, p, uncle, g)
    BY ZenonT(60)
  <2>2. Raised(t, x) = [tree |-> u, at |-> g]
    BY <1>2, <1>3, <1>4, <1>5, <1>6, <1>13, <2>1 DEF Raised, RecolourUp
  <2>3. PICK C : Raising(u, T, N, pos, b, C, g)
    BY ZenonT(60), <1>1, <1>7, <1>13, <2>1, RedUncle
  <2>4. IsChild(t, T, pos, b, p, SideOf(t, x), x) /\ IsChild(t, T, pos, b, g, d, p)
    BY <1>7 DEF Family
  <2>5. /\ Width(b, x) \in Int /\ Width(b, p) \in Int /\ Width(b, g) \in Int
        /\ Width(b, x) < Width(b, p) /\ Width(b, p) < Width(b, g)
    BY <1>8, <1>9, <2>4, SideInSides, ChildIsNarrower
  <2>6. Width(b, g) >= Width(b, x) + 1
    BY <2>5
  <2>7. Elsewhere(t, u, T)
    <3>1. uncle \in T
      BY <1>8, <1>9, <1>13
    <3>2. UncleRecoloured(t, u, T, p, uncle, g)
      BY <1>8, <1>9, <1>10, <1>12, <2>1, <3>1, RecolourUncle
    <3>3. Recoloured(t, u)
      BY <3>2 DEF UncleRecoloured
    <3> QED
      BY <3>3, RecolourElsewhere
  <2>8. PICK r : r = [tree |-> u, at |-> g]
    OBVIOUS
  <2>9. r.tree = u /\ r.at = g
    BY <2>8
  <2>10. Climbed(t, T, N, pos, b, x, r)
    BY <2>3, <2>6, <2>7, <2>9 DEF Climbed
  <2> QED
    BY <2>2, <2>8, <2>10
<1>14. CASE ~t.red[uncle] /\ x = t.child[o][p]
  <2>1. PICK t1 : t1 = Rotate(t, p, d)
    OBVIOUS
  <2>2. PICK a : /\ Raising(t1, T, N, pos, a, B, p) /\ p # t1.root
                 /\ Family(t1, T, pos, a, p, x, g, d, o, uncle) /\ p = t1.child[d][x]
                 /\ t1.red = t.red
    BY <1>1, <1>7, <1>14, <2>1, Straighten
  <2>3. x = t1.parent[p]
    BY ZenonT(60), <2>2 DEF Family
  <2>4. PICK v : v = RecolourTop(t1, x, g)
    BY ZenonT(60)
  <2>5. PICK u : u = Rotate(v, g, o)
    OBVIOUS
  <2>6. Raised(t, x) = [tree |-> u, at |-> p]
    BY ZenonT(60), <1>2, <1>3, <1>4, <1>5, <1>6, <1>14, <2>1, <2>3, <2>4, <2>5
       DEF Raised, RecolourTop
  <2>7. ~t1.red[uncle]
    BY ZenonT(60), <1>14, <2>2
  <2>8. PICK c, C : Raising(u, T, N, pos, c, C, p) /\ ~u.red[u.parent[p]]
    BY <2>2, <2>4, <2>5, <2>7, BlackUncle
  <2>9. Elsewhere(t, u, T)
    <3>1. Elsewhere(t, t1, T)
      <4>1. p # Sentinel /\ x # Sentinel
        BY <1>8, <1>9, NodeFacts
      <4>2. BeforeTurn(t, T, pos, b, p, d, x)
        BY <1>5, <1>8, <1>9, <1>14, <4>1, BeforeTurnFacts
      <4> QED
        BY <1>8, <1>9, <2>1, <4>2, RotateElsewhere
    <3>2. Shape(t1, T, N, pos, a) /\ t1 \in Trees /\ ~t1.red[Sentinel]
      BY <1>8, <2>2 DEF Raising, Shape
    <3>3. TopRecoloured(t1, v, T, x, g)
      BY <1>9, <1>10, <1>12, <2>4, <3>2, RecolourTopFacts
    <3>4. Recoloured(t1, v)
      BY <3>3 DEF TopRecoloured
    <3>5. BeforeTurn(v, T, pos, a, g, o, x)
      <4>1. Shape(v, T, N, pos, a)
        BY <3>2, <3>4, RecolouredShape
      <4>2. IsChild(t1, T, pos, a, g, d, x)
        BY ZenonT(60), <2>2 DEF Family
      <4>3. t1.child[d][g] = x
        BY <4>2 DEF IsChild
      <4>4. v.child[d][g] = x
        BY <3>4, <4>3 DEF Recoloured
      <4>5. x # Sentinel
        BY <1>8, <1>9, NodeFacts
      <4> QED
        BY <1>9, <1>11, <4>1, <4>4, <4>5, BeforeTurnFacts
    <3>6. Shape(v, T, N, pos, a)
      BY <3>2, <3>4, RecolouredShape
    <3>7. Elsewhere(v, u, T)
      BY <1>9, <2>5, <3>5, <3>6, RotateElsewhere
    <3>8. Elsewhere(t1, v, T)
      BY <3>4, RecolourElsewhere
    <3>9. Elsewhere(t, v, T)
      BY <3>1, <3>8, ElsewhereTwice
    <3> QED
      BY <3>7, <3>9, ElsewhereTwice
  <2>10. PICK r : r = [tree |-> u, at |-> p]
    OBVIOUS
  <2>11. r.tree = u /\ r.at = p
    BY <2>10
  <2>12. Climbed(t, T, N, pos, b, x, r)
    BY <2>8, <2>9, <2>11 DEF Climbed, Settled
  <2> QED
    BY <2>6, <2>10, <2>12
<1>15. CASE ~t.red[uncle] /\ x # t.child[o][p]
  <2>1. PICK v : v = RecolourTop(t, p, g)
    OBVIOUS
  <2>2. PICK u : u = Rotate(v, g, o)
    BY ZenonT(60)
  <2>3. Raised(t, x) = [tree |-> u, at |-> x]
    BY <1>2, <1>3, <1>4, <1>5, <1>6, <1>15, <2>1, <2>2 DEF Raised, RecolourTop
  <2>4. x = t.child[d][p]
    <3>1. IsChild(t, T, pos, b, p, SideOf(t, x), x)
      BY <1>7 DEF Family
    <3>2. t.child[SideOf(t, x)][p] = x
      BY <3>1 DEF IsChild
    <3> QED
      BY ZenonT(60), <1>11, <1>15, <3>2, SideInSides
  <2>5. PICK c, C : Raising(u, T, N, pos, c, C, x) /\ ~u.red[u.parent[x]]
    BY <1>1, <1>7, <1>15, <2>1, <2>2, <2>4, BlackUncle
  <2>6. Elsewhere(t, u, T)
    <3>1. TopRecoloured(t, v, T, p, g)
      BY <1>8, <1>9, <1>10, <1>12, <2>1, RecolourTopFacts
    <3>2. Recoloured(t, v)
      BY <3>1 DEF TopRecoloured
    <3>3. Shape(v, T, N, pos, b)
      BY <1>8, <3>2, RecolouredShape
    <3>4. v.child[d][g] = p
      <4>1. IsChild(t, T, pos, b, g, d, p)
        BY <1>7 DEF Family
      <4> QED
        BY ZenonT(60), <3>2, <4>1 DEF Recoloured, IsChild
    <3>5. p # Sentinel
      BY <1>8, <1>9, NodeFacts
    <3>6. BeforeTurn(v, T, pos, b, g, o, p)
      BY <1>9, <1>11, <3>3, <3>4, <3>5, BeforeTurnFacts
    <3>7. Elsewhere(v, u, T)
      BY <1>9, <2>2, <3>3, <3>6, RotateElsewhere
    <3>8. Elsewhere(t, v, T)
      BY <3>2, RecolourElsewhere
    <3> QED
      BY <3>7, <3>8, ElsewhereTwice
  <2>7. PICK r : r = [tree |-> u, at |-> x]
    OBVIOUS
  <2>8. r.tree = u /\ r.at = x
    BY <2>7
  <2>9. Climbed(t, T, N, pos, b, x, r)
    BY <2>5, <2>6, <2>8 DEF Climbed, Settled
  <2> QED
    BY <2>3, <2>7, <2>9
<1> QED
  BY <1>13, <1>14, <1>15

-----------------------------------------------------------------------------
(* The rounds of the insertion come to an end.                             *)

\* States of the loops.
States == [tree : Trees, at : Cells]

\* After k rounds: the climb has ended, or has reached a wide node.
Climbing(t, T, N, pos, k, r) ==
    /\ r \in States /\ Elsewhere(t, r.tree, T)
    /\ \E b, B : /\ Raising(r.tree, T, N, pos, b, B, r.at)
                 /\ Settled(r.tree, r.at) \/ Width(b, r.at) >= k + 2

\* A round of the loop, or none when it has ended.
AfterRaise(r) ==
    IF r.at = r.tree.root \/ ~r.tree.red[r.tree.parent[r.at]] THEN r ELSE Raised(r.tree, r.at)

\* A tree to rebalance is a state of the loop.
LEMMA RaisedIsState ==
    ASSUME NEW t, NEW T, NEW N, NEW pos, NEW b, NEW B, NEW x, Raising(t, T, N, pos, b, B, x)
    PROVE  t \in Trees /\ x \in T /\ x \in Cells
BY ZenonT(60), CellFacts DEF Raising, Shape, Ordered

\* A round gives a record.
LEMMA RaisedRecord ==
    ASSUME NEW t, NEW n
    PROVE  Raised(t, n) = [tree |-> Raised(t, n).tree, at |-> Raised(t, n).at]
BY ZenonT(60) DEF Raised

\* A record of a tree and a cell is a state of a loop.
LEMMA StateRecord ==
    ASSUME NEW r, r = [tree |-> r.tree, at |-> r.at], r.tree \in Trees, r.at \in Cells
    PROVE  r \in States
BY DEF States

\* A round keeps what the loop relies on.
LEMMA ClimbingOn ==
    ASSUME NEW t, NEW T, NEW N, NEW pos, NEW k \in Nat, NEW r, Climbing(t, T, N, pos, k, r)
    PROVE  Climbing(t, T, N, pos, k + 1, AfterRaise(r))
<1>1. PICK b, B : /\ Raising(r.tree, T, N, pos, b, B, r.at)
                  /\ Settled(r.tree, r.at) \/ Width(b, r.at) >= k + 2
  BY DEF Climbing
<1>2. CASE Settled(r.tree, r.at)
  <2>1. AfterRaise(r) = r
    BY <1>2 DEF AfterRaise, Settled
  <2>2. Climbing(t, T, N, pos, k + 1, r)
    BY <1>1, <1>2 DEF Climbing
  <2> QED
    BY <2>1, <2>2
<1>3. CASE ~Settled(r.tree, r.at)
  <2>1. AfterRaise(r) = Raised(r.tree, r.at)
    BY <1>3 DEF AfterRaise, Settled
  <2>2. PICK v : v = Raised(r.tree, r.at)
    OBVIOUS
  <2>3. Climbed(r.tree, T, N, pos, b, r.at, v)
    BY <1>1, <1>3, <2>2, RaisedRound
  <2>4. PICK a, C : /\ Raising(v.tree, T, N, pos, a, C, v.at)
                    /\ Settled(v.tree, v.at) \/ Width(a, v.at) >= Width(b, r.at) + 1
    BY <2>3 DEF Climbed
  <2>5. Width(b, r.at) >= k + 2
    BY <1>1, <1>3
  <2>6. Settled(v.tree, v.at) \/ Width(a, v.at) >= (k + 1) + 2
    <3>1. Width(b, r.at) \in Int
      BY <1>1, NodeFacts DEF Raising, Width
    <3>2. Width(a, v.at) \in Int
      BY <2>4, NodeFacts DEF Raising, Width
    <3> QED
      BY <2>4, <2>5, <3>1, <3>2
  <2>7. Elsewhere(t, v.tree, T)
    <3>1. Elsewhere(t, r.tree, T)
      BY DEF Climbing
    <3>2. Elsewhere(r.tree, v.tree, T)
      BY <2>3 DEF Climbed
    <3> QED
      BY <3>1, <3>2, ElsewhereTwice
  <2>8. v \in States
    <3>1. v = [tree |-> v.tree, at |-> v.at]
      BY <2>2, RaisedRecord
    <3>2. v.tree \in Trees /\ v.at \in Cells
      BY <2>4, RaisedIsState
    <3> QED
      BY <3>1, <3>2, StateRecord
  <2>9. Climbing(t, T, N, pos, k + 1, v)
    BY <2>4, <2>6, <2>7, <2>8 DEF Climbing
  <2> QED
    BY <2>1, <2>2, <2>9
<1> QED
  BY <1>2, <1>3

\* What the rounds lead to, and the root blackened.
Blackened(t, T, N, pos, u, r) ==
    /\ Climbing(t, T, N, pos, Longest, r) /\ Settled(r.tree, r.at)
    /\ u = WithRed(r.tree, r.tree.root, FALSE)

\* The loop that rebalances ends settled within Longest rounds.
LEMMA RebalanceEnds ==
    ASSUME NEW t, NEW T, NEW N, NEW pos, NEW b, NEW B, NEW x, Raising(t, T, N, pos, b, B, x),
           N <= Longest, Longest \in Nat
    PROVE  \E r : Blackened(t, T, N, pos, Rebalance(t, x), r)
<1> DEFINE first == [tree |-> t, at |-> x]
           Body(f) == [k \in 0..Longest |->
                         IF k = 0 THEN [tree |-> t, at |-> x]
                         ELSE LET r == f[k - 1] IN
                              IF r.at = r.tree.root \/ ~r.tree.red[r.tree.parent[r.at]] THEN r
                              ELSE Raised(r.tree, r.at)]
           round == CHOOSE f : f = Body(f)
           step == [r \in States |-> AfterRaise(r)]
           Fine == {k \in Nat : k <= Longest =>
                                  \A g : Iterates(g, Longest, first, step) =>
                                           Climbing(t, T, N, pos, k, g[k])}
<1>1. Rebalance(t, x) = WithRed(round[Longest].tree, round[Longest].tree.root, FALSE)
  BY DEF Rebalance, WithRed
<1>2. \A f : Body(f) = [k \in 0..Longest |-> IF k = 0 THEN first ELSE AfterRaise(f[k - 1])]
  BY DEF AfterRaise
<1> HIDE DEF Body
<1>3. 0 \in Fine
  <2>1. Elsewhere(t, t, T)
    BY DEF Elsewhere
  <2>2. first \in States
    <3>1. t \in Trees /\ x \in Cells
      BY RaisedIsState
    <3> QED
      BY <3>1 DEF States
  <2>3. Width(b, x) >= 0 + 2
    <3>1. /\ b["left"][x] \in Int /\ b["right"][x] \in Int /\ pos[x] \in Int
          /\ b["left"][x] < pos[x] /\ pos[x] < b["right"][x]
      BY NodeFacts DEF Raising
    <3> QED
      BY <3>1 DEF Width
  <2>4. first.tree = t /\ first.at = x
    OBVIOUS
  <2>5. Climbing(t, T, N, pos, 0, first)
    BY <2>1, <2>2, <2>3, <2>4 DEF Climbing
  <2>6. ASSUME NEW g, Iterates(g, Longest, first, step) PROVE g[0] = first
    BY <2>6 DEF Iterates
  <2> QED
    BY <2>5, <2>6
<1>4. ASSUME NEW k \in Nat, k \in Fine PROVE k + 1 \in Fine
  <2> SUFFICES ASSUME k + 1 <= Longest, NEW g, Iterates(g, Longest, first, step)
               PROVE  Climbing(t, T, N, pos, k + 1, g[k + 1])
    OBVIOUS
  <2>1. k <= Longest /\ k + 1 \in 1..Longest /\ (k + 1) - 1 = k
    OBVIOUS
  <2>2. Climbing(t, T, N, pos, k, g[k])
    BY <1>4, <2>1
  <2>3. g[k + 1] = step[g[k]]
    BY <2>1 DEF Iterates
  <2>4. g[k] \in States
    BY <2>2 DEF Climbing
  <2>5. g[k + 1] = AfterRaise(g[k])
    BY <2>3, <2>4
  <2> QED
    BY <2>2, <2>5, ClimbingOn
<1>5. \A k \in Nat : k \in Fine
  <2> HIDE DEF Fine
  <2> QED
    BY <1>3, <1>4, EveryNumber
<1>6. PICK g : Iterates(g, Longest, first, step)
  BY IterationExists
<1>7. \A k \in 0..Longest : Climbing(t, T, N, pos, k, g[k])
  BY <1>5, <1>6
<1>8. /\ g = [k \in 0..Longest |-> g[k]] /\ g[0] = first
      /\ \A k \in 1..Longest : g[k] = step[g[k - 1]]
  BY <1>6 DEF Iterates
<1>9. \A k \in 1..Longest : g[k] = AfterRaise(g[k - 1])
  <2> SUFFICES ASSUME NEW k \in 1..Longest PROVE g[k] = AfterRaise(g[k - 1])
    OBVIOUS
  <2>1. k - 1 \in 0..Longest
    OBVIOUS
  <2>2. g[k - 1] \in States
    BY <1>7, <2>1 DEF Climbing
  <2> QED
    BY <1>8, <2>2
<1>10. g = Body(g)
  <2>1. \A k \in 0..Longest : g[k] = IF k = 0 THEN first ELSE AfterRaise(g[k - 1])
    <3>1. \A k \in 0..Longest : k = 0 \/ k \in 1..Longest
      OBVIOUS
    <3> QED
      BY <1>8, <1>9, <3>1
  <2> QED
    BY <1>2, <1>8, <2>1
<1>11. round = Body(round)
  BY <1>10
<1> HIDE DEF round
<1>12. round = g
  <2> DEFINE S == {k \in Nat : k <= Longest => round[k] = g[k]}
  <2>1. round = [k \in 0..Longest |-> IF k = 0 THEN first ELSE AfterRaise(round[k - 1])]
    BY <1>2, <1>11
  <2>2. \A k \in 0..Longest : round[k] = IF k = 0 THEN first ELSE AfterRaise(round[k - 1])
    BY <2>1
  <2>3. 0 \in S
    BY <1>8, <2>2
  <2>4. ASSUME NEW k \in Nat, k \in S PROVE k + 1 \in S
    <3> SUFFICES ASSUME k + 1 <= Longest PROVE round[k + 1] = g[k + 1]
      OBVIOUS
    <3>1. k + 1 \in 0..Longest /\ k + 1 \in 1..Longest /\ k + 1 # 0 /\ (k + 1) - 1 = k
      OBVIOUS
    <3>2. round[k] = g[k]
      BY <2>4
    <3> QED
      BY <1>9, <2>2, <3>1, <3>2
  <2> HIDE DEF S
  <2>5. \A k \in Nat : k \in S
    BY <2>3, <2>4, EveryNumber
  <2>6. \A k \in 0..Longest : round[k] = g[k]
    BY <2>5 DEF S
  <2>7. DOMAIN round = 0..Longest /\ round = [k \in 0..Longest |-> round[k]]
    BY <2>1
  <2>8. g = [k \in 0..Longest |-> g[k]]
    BY <1>8
  <2> HIDE DEF first, step
  <2> QED
    BY <2>6, <2>7, <2>8
<1>13. PICK r : r = round[Longest]
  OBVIOUS
<1>14. Climbing(t, T, N, pos, Longest, r)
  BY <1>7, <1>12, <1>13
<1>15. Settled(r.tree, r.at)
  <2>1. PICK a, C : /\ Raising(r.tree, T, N, pos, a, C, r.at)
                    /\ Settled(r.tree, r.at) \/ Width(a, r.at) >= Longest + 2
    BY <1>14 DEF Climbing
  <2>2. Width(a, r.at) \in Int /\ Width(a, r.at) <= N + 1 /\ N \in Nat
    <3>1. Shape(r.tree, T, N, pos, a) /\ r.at \in T
      BY <2>1 DEF Raising
    <3> QED
      BY <3>1, NodeFacts DEF Width
  <2> QED
    BY <2>1, <2>2
<1>16. Blackened(t, T, N, pos, Rebalance(t, x), r)
  BY <1>1, <1>13, <1>14, <1>15 DEF Blackened
<1> QED
  BY <1>16

\* A tree with every rule kept: no edge lacks a black node, no red is below red.
Sound(t, T, N, pos, b, B) ==
    /\ Shape(t, T, N, pos, b) /\ Coloured(t, T, B, Sentinel, "left", Sentinel) /\ ~t.red[t.root]

\* A settled tree is red-black once its root is black.
LEMMA SettledSound ==
    ASSUME NEW t, NEW T, NEW N, NEW pos, NEW b, NEW B, NEW x, Raising(t, T, N, pos, b, B, x),
           Settled(t, x), NEW u, u = WithRed(t, t.root, FALSE)
    PROVE  (\E C : Sound(u, T, N, pos, b, C)) /\ Elsewhere(t, u, T)
<1>1. /\ Shape(t, T, N, pos, b) /\ Coloured(t, T, B, Sentinel, "left", x) /\ x \in T
      /\ \A e \in Sides : ~t.red[t.child[e][x]]
  BY DEF Raising
<1>2. t \in Trees /\ t.root \in T /\ t.root \in Cells
  BY <1>1, TreeFields DEF Shape, Rooted
<1>3. OneRed(t, u, t.root, FALSE)
  BY <1>2, RecolourOne
<1>4. Recoloured(t, u) /\ u.root = t.root /\ u.child = t.child
  BY <1>3 DEF OneRed, Recoloured
<1>5. Shape(u, T, N, pos, b) /\ Elsewhere(t, u, T)
  BY <1>1, <1>4, RecolouredShape, RecolourElsewhere
<1> DEFINE C == [B EXCEPT ![t.root] = IF t.red[t.root] THEN @ + 1 ELSE @]
<1>6. B \in [Cells -> Nat] /\ B[Sentinel] = 0 /\ ~t.red[Sentinel]
  BY <1>1 DEF Coloured
<1>7. /\ C \in [Cells -> Nat]
      /\ C[t.root] = (IF t.red[t.root] THEN B[t.root] + 1 ELSE B[t.root])
      /\ \A k \in Cells : k # t.root => C[k] = B[k]
  BY <1>2, <1>6
<1> HIDE DEF C
<1>8. t.root # Sentinel /\ Sentinel \in Cells
  BY <1>1, <1>2, NodeFacts, CellFacts
<1>9. ~u.red[Sentinel] /\ ~u.red[t.root]
  BY <1>3, <1>6, <1>8 DEF OneRed
<1>10. ASSUME NEW m \in T, NEW e \in Sides
       PROVE  Good(u.red, C, Sentinel, "left", Sentinel, m, e, u.child[e][m])
  <2>1. PICK c \in Cells : c = t.child[e][m] /\ c = u.child[e][m]
    BY <1>1, <1>4, ChildOrNot
  <2> SUFFICES Good(u.red, C, Sentinel, "left", Sentinel, m, e, c)
    BY <2>1
  <2>2. Good(t.red, B, Sentinel, "left", x, m, e, c)
    BY <1>1, <2>1 DEF Coloured
  <2>3. c # t.root /\ m # Sentinel /\ m \in Cells
    <3>1. m # Sentinel /\ m \in Cells
      BY <1>1, NodeFacts
    <3>2. CASE c = Sentinel
      BY <1>8, <3>1, <3>2
    <3>3. CASE c # Sentinel
      <4>1. IsChild(t, T, pos, b, m, e, c)
        BY <1>1, <2>1, <3>3, ChildFacts
      <4> QED
        BY <3>1, <4>1 DEF IsChild
    <3> QED
      BY <3>2, <3>3
  <2>4. u.red[c] = t.red[c] /\ C[c] = B[c]
    BY <1>3, <1>7, <2>3 DEF OneRed
  <2>5. CASE m = t.root
    <3>2. B[m] \in Nat /\ B[c] \in Nat
      BY <1>6, <2>3
    <3>1. B[m] = B[c] + (IF t.red[m] THEN 0 ELSE 1)
      BY <2>2, <2>3, <3>2 DEF Good
    <3>3. C[m] = C[c] + 1
      BY <1>7, <2>4, <2>5, <3>1, <3>2
    <3>4. ~u.red[m]
      BY <1>9, <2>5
    <3>5. C[m] = C[c] + (IF u.red[m] THEN 0 ELSE 1) + 0
      BY <2>4, <3>2, <3>3, <3>4
    <3> QED
      BY <2>3, <3>4, <3>5 DEF Good
  <2>6. CASE m # t.root
    <3>1. u.red[m] = t.red[m] /\ C[m] = B[m]
      BY <1>3, <1>7, <2>3, <2>6 DEF OneRed
    <3>2. B[m] = B[c] + (IF t.red[m] THEN 0 ELSE 1) + 0
      BY <2>2, <2>3 DEF Good
    <3>3. ~(t.red[m] /\ t.red[c])
      <4> SUFFICES ASSUME t.red[m], t.red[c] PROVE FALSE
        OBVIOUS
      <4>1. x = m \/ x = c
        BY <2>2 DEF Good
      <4>2. x # m
        BY <1>1, <2>1
      <4>3. x = c /\ c # Sentinel
        BY ZenonT(60), <1>6, <4>1, <4>2
      <4>4. IsChild(t, T, pos, b, m, e, c)
        BY ZenonT(60), <1>1, <2>1, <4>3, ChildFacts
      <4>5. t.parent[x] = m /\ x # t.root
        BY <4>3, <4>4 DEF IsChild
      <4> QED
        BY <4>5 DEF Settled
    <3>4. C[m] = C[c] + (IF u.red[m] THEN 0 ELSE 1) + 0
      BY <2>4, <3>1, <3>2
    <3> QED
      BY <2>3, <2>4, <3>1, <3>3, <3>4 DEF Good
  <2> QED
    BY <2>5, <2>6
<1>11. C[Sentinel] = 0
  BY <1>6, <1>7, <1>8
<1>12. Coloured(u, T, C, Sentinel, "left", Sentinel)
  BY <1>7, <1>9, <1>10, <1>11 DEF Coloured
<1> QED
  BY <1>4, <1>5, <1>9, <1>12 DEF Sound

\* Rebalancing makes the tree red-black and keeps the positions of its nodes.
LEMMA RebalanceSound ==
    ASSUME NEW t, NEW T, NEW N, NEW pos, NEW b, NEW B, NEW x, Raising(t, T, N, pos, b, B, x),
           N <= Longest, Longest \in Nat, NEW u, u = Rebalance(t, x)
    PROVE  (\E a, C : Sound(u, T, N, pos, a, C)) /\ Elsewhere(t, u, T)
<1>0. PICK r : Blackened(t, T, N, pos, u, r)
  BY RebalanceEnds
<1>1. /\ Climbing(t, T, N, pos, Longest, r) /\ Settled(r.tree, r.at)
      /\ u = WithRed(r.tree, r.tree.root, FALSE)
  BY <1>0 DEF Blackened
<1>2. PICK a, A : Raising(r.tree, T, N, pos, a, A, r.at)
  BY <1>1 DEF Climbing
<1>3. PICK C : Sound(u, T, N, pos, a, C)
  BY <1>1, <1>2, SettledSound
<1>4. Elsewhere(r.tree, u, T)
  BY <1>1, <1>2, SettledSound
<1>5. Elsewhere(t, r.tree, T)
  BY <1>1 DEF Climbing
<1> QED
  BY <1>3, <1>4, <1>5, ElsewhereTwice

-----------------------------------------------------------------------------
(* Ways down: a function defined by itself further down.                   *)

\* Where a loop goes from m, and what it returns where it stops.
Descent(f, D, Stop, val, next) ==
    f = [m \in D |-> IF m \in Stop THEN val[m] ELSE f[next[m]]]

\* next goes to something smaller until Stop.
Descends(D, Stop, next, size, K) ==
    /\ K \in Nat /\ \A m \in D : size[m] \in Nat /\ size[m] < K
    /\ \A m \in D : m \notin Stop => next[m] \in D /\ size[next[m]] < size[m]

\* A function that recurs to something smaller exists.
LEMMA DescentExists ==
    ASSUME NEW D, NEW Stop, NEW val, NEW next, NEW size, NEW K, Descends(D, Stop, next, size, K)
    PROVE  \E f : Descent(f, D, Stop, val, next)
<1> DEFINE Low(k) == {m \in D : size[m] < k}
           S == {k \in Nat : \E f : Descent(f, Low(k), Stop, val, next)}
<1>1. 0 \in S
  <2>1. Low(0) = {}
    BY DEF Descends
  <2> DEFINE f == [m \in {} |-> 0]
  <2>2. f = [m \in {} |-> IF m \in Stop THEN val[m] ELSE f[next[m]]]
    OBVIOUS
  <2>3. Descent(f, Low(0), Stop, val, next)
    BY <2>1, <2>2 DEF Descent
  <2> QED
    BY <2>3
<1>2. ASSUME NEW k \in Nat, k \in S PROVE k + 1 \in S
  <2>1. PICK f : Descent(f, Low(k), Stop, val, next)
    BY <1>2
  <2>2. \A m \in Low(k) : f[m] = IF m \in Stop THEN val[m] ELSE f[next[m]]
    BY <2>1 DEF Descent
  <2> DEFINE g == [m \in Low(k + 1) |-> IF m \in Stop THEN val[m] ELSE f[next[m]]]
  <2>3. \A m \in Low(k + 1) : m \notin Stop => next[m] \in Low(k)
    BY DEF Descends
  <2>4. \A m \in Low(k) : m \in Low(k + 1)
    BY DEF Descends
  <2>5. \A m \in Low(k + 1) : g[m] = IF m \in Stop THEN val[m] ELSE f[next[m]]
    OBVIOUS
  <2>6. DOMAIN g = Low(k + 1) /\ g = [m \in Low(k + 1) |-> g[m]]
    OBVIOUS
  <2> HIDE DEF g, Low
  <2>7. \A m \in Low(k) : g[m] = f[m]
    BY <2>2, <2>4, <2>5
  <2>8. \A m \in Low(k + 1) : g[m] = IF m \in Stop THEN val[m] ELSE g[next[m]]
    BY <2>3, <2>5, <2>7
  <2>9. Descent(g, Low(k + 1), Stop, val, next)
    BY <2>6, <2>8 DEF Descent
  <2> QED
    BY <2>9
<1>3. \A k \in Nat : k \in S
  <2> HIDE DEF S
  <2> QED
    BY <1>1, <1>2, EveryNumber
<1>4. K \in Nat /\ Low(K) = D
  BY DEF Descends
<1> HIDE DEF Low
<1> QED
  BY <1>3, <1>4

\* The value comes from a place the way down stops at.
LEMMA DescentStops ==
    ASSUME NEW D, NEW Stop, NEW val, NEW next, NEW size, NEW K, Descends(D, Stop, next, size, K),
           NEW f, Descent(f, D, Stop, val, next),
           NEW P \in SUBSET D, \A m \in P : m \notin Stop => next[m] \in P, NEW m \in P
    PROVE  \E e \in P : e \in Stop /\ f[m] = val[e]
<1> DEFINE S == {k \in Nat : \A i \in P : size[i] < k => \E e \in P : e \in Stop /\ f[i] = val[e]}
<1>1. 0 \in S
  BY DEF Descends
<1>2. ASSUME NEW k \in Nat, k \in S PROVE k + 1 \in S
  <2> SUFFICES ASSUME NEW i \in P, size[i] < k + 1 PROVE \E e \in P : e \in Stop /\ f[i] = val[e]
    OBVIOUS
  <2>1. f[i] = IF i \in Stop THEN val[i] ELSE f[next[i]]
    BY DEF Descent
  <2>2. CASE i \in Stop
    BY <2>1, <2>2
  <2>3. CASE i \notin Stop
    <3>1. next[i] \in P /\ size[next[i]] \in Nat /\ size[i] \in Nat /\ size[next[i]] < size[i]
      BY <2>3 DEF Descends
    <3>2. size[next[i]] < k
      BY <3>1
    <3>3. PICK e \in P : e \in Stop /\ f[next[i]] = val[e]
      BY <1>2, <3>1, <3>2
    <3> QED
      BY <2>1, <2>3, <3>3
  <2> QED
    BY <2>2, <2>3
<1>3. \A k \in Nat : k \in S
  <2> HIDE DEF S
  <2> QED
    BY <1>1, <1>2, EveryNumber
<1>4. K \in Nat /\ size[m] < K
  BY DEF Descends
<1> QED
  BY <1>3, <1>4

-----------------------------------------------------------------------------
(* A new leaf.                                                             *)

\* n is a red leaf on side e of temp.
WithLeaf(t, n, temp, e) ==
    [t EXCEPT !.child[e][temp] = n, !.parent[n] = temp,
              !.child["left"][n] = Sentinel, !.child["right"][n] = Sentinel, !.red[n] = TRUE]

Grown(t, u, n, temp, e) ==
    /\ u \in Trees /\ u.root = t.root /\ u.key = t.key /\ u.insert = t.insert
    /\ \A f \in Sides, k \in Cells :
         u.child[f][k] = IF k = n THEN Sentinel
                         ELSE IF f = e /\ k = temp THEN n ELSE t.child[f][k]
    /\ \A k \in Cells : u.parent[k] = IF k = n THEN temp ELSE t.parent[k]
    /\ u.red[n] /\ \A k \in Cells : k # n => u.red[k] = t.red[k]

\* A new red leaf in its fields.
LEMMA LeafFields ==
    ASSUME NEW t \in Trees, NEW n \in Nodes, NEW temp \in Nodes, n # temp, NEW e \in Sides
    PROVE  Grown(t, WithLeaf(t, n, temp, e), n, temp, e)
<1>1. PICK t1 : t1 = WithChild(t, e, temp, n)
  OBVIOUS
<1>2. PICK t2 : t2 = WithParent(t1, n, temp)
  OBVIOUS
<1>3. PICK t3 : t3 = WithChild(t2, "left", n, Sentinel)
  OBVIOUS
<1>4. PICK t4 : t4 = WithChild(t3, "right", n, Sentinel)
  OBVIOUS
<1>5. PICK u : u = WithRed(t4, n, TRUE)
  OBVIOUS
<1>6. u = WithLeaf(t, n, temp, e)
  BY <1>1, <1>2, <1>3, <1>4, <1>5 DEF WithLeaf, WithChild, WithParent, WithRed
<1>7. /\ n \in Cells /\ temp \in Cells /\ n \in Cells \cup {NULL} /\ temp \in Cells \cup {NULL}
      /\ Sentinel \in Cells \cup {NULL}
  BY CellFacts
<1>8. ChildSet(t, t1, e, temp, n)
  BY <1>1, <1>7, SetChild
<1>9. ParentSet(t1, t2, n, temp)
  <2>1. t1 \in Trees
    BY <1>8 DEF ChildSet
  <2> QED
    BY <1>2, <1>7, <2>1, SetParent
<1>10. ChildSet(t2, t3, "left", n, Sentinel)
  <2>1. t2 \in Trees /\ "left" \in Sides
    BY <1>9, SideFacts DEF ParentSet
  <2> QED
    BY <1>3, <1>7, <2>1, SetChild
<1>11. ChildSet(t3, t4, "right", n, Sentinel)
  <2>1. t3 \in Trees /\ "right" \in Sides
    BY <1>10, SideFacts DEF ChildSet
  <2> QED
    BY <1>4, <1>7, <2>1, SetChild
<1>12. RedSet(t4, u, n, TRUE)
  <2>1. t4 \in Trees
    BY <1>11 DEF ChildSet
  <2> QED
    BY <1>5, <1>7, <2>1, SetRed
<1>13. ASSUME NEW f \in Sides, NEW k \in Cells
       PROVE  u.child[f][k] = IF k = n THEN Sentinel
                              ELSE IF f = e /\ k = temp THEN n ELSE t.child[f][k]
  <2>1. u.child[f][k] = t4.child[f][k]
    BY <1>12 DEF RedSet
  <2>2. t4.child[f][k] = IF f = "right" /\ k = n THEN Sentinel ELSE t3.child[f][k]
    BY <1>11 DEF ChildSet
  <2>3. t3.child[f][k] = IF f = "left" /\ k = n THEN Sentinel ELSE t2.child[f][k]
    BY <1>10 DEF ChildSet
  <2>4. t2.child[f][k] = IF f = e /\ k = temp THEN n ELSE t.child[f][k]
    BY <1>8, <1>9 DEF ParentSet, ChildSet
  <2> QED
    BY <2>1, <2>2, <2>3, <2>4, SideFacts
<1>14. ASSUME NEW k \in Cells PROVE u.parent[k] = IF k = n THEN temp ELSE t.parent[k]
  <2>1. u.parent = t2.parent
    BY <1>10, <1>11, <1>12 DEF ChildSet, RedSet
  <2>2. t2.parent[k] = IF k = n THEN temp ELSE t1.parent[k]
    BY <1>9 DEF ParentSet
  <2>3. t1.parent = t.parent
    BY <1>8 DEF ChildSet
  <2> QED
    BY <2>1, <2>2, <2>3
<1>15. t4.red = t.red
  BY <1>8, <1>9, <1>10, <1>11 DEF ChildSet, ParentSet
<1>16. u.red[n] /\ \A k \in Cells : k # n => u.red[k] = t.red[k]
  BY <1>7, <1>12, <1>15 DEF RedSet
<1>17. u.root = t.root /\ u.key = t.key /\ u.insert = t.insert
  <2>1. t2.root = t.root /\ t2.key = t.key /\ t2.insert = t.insert
    BY <1>8, <1>9 DEF ChildSet, ParentSet
  <2>2. t4.root = t2.root /\ t4.key = t2.key /\ t4.insert = t2.insert
    BY <1>10, <1>11 DEF ChildSet
  <2> QED
    BY <1>12, <2>1, <2>2 DEF RedSet
<1>18. u \in Trees
  BY <1>12 DEF RedSet
<1>19. Grown(t, u, n, temp, e)
  BY <1>13, <1>14, <1>16, <1>17, <1>18 DEF Grown
<1> QED
  BY <1>6, <1>19

\* Everything from i on moves up, and i is free.
Up(i, k) == IF k >= i THEN k + 1 ELSE k

\* Making room moves what is not below it up by one.
LEMMA UpFacts ==
    ASSUME NEW i \in Int, NEW k \in Int
    PROVE  /\ Up(i, k) \in Int /\ Up(i, k) # i /\ Up(i, k) >= k /\ Up(i, k) <= k + 1
           /\ k >= i => Up(i, k) = k + 1
           /\ k < i => Up(i, k) = k
BY DEF Up

\* The order with n at i, after temp or before it.
Opened(T, pos, b, n, i, p, c) ==
    /\ p \in [Nodes -> Int] /\ c \in [Sides -> [Nodes -> Int]]
    /\ p[n] = i /\ c["left"][n] = i - 1 /\ c["right"][n] = i + 1
    /\ \A m \in T : /\ p[m] = Up(i, pos[m])
                    /\ \A f \in Sides : c[f][m] = Up(i, b[f][m])

OpenedPos(T, pos, n, i) == [m \in Nodes |-> IF m = n THEN i ELSE IF m \in T THEN Up(i, pos[m]) ELSE 0]
OpenedBounds(T, b, n, i) ==
    [f \in Sides |-> [m \in Nodes |-> IF m = n THEN IF f = "left" THEN i - 1 ELSE i + 1
                                      ELSE IF m \in T THEN Up(i, b[f][m]) ELSE 0]]

\* There are positions and bounds with room at i.
LEMMA OpenedExists ==
    ASSUME NEW T \in SUBSET Nodes, NEW pos \in [Nodes -> Int], NEW b \in [Sides -> [Nodes -> Int]],
           NEW n \in Nodes \ T, NEW i \in Int
    PROVE  Opened(T, pos, b, n, i, OpenedPos(T, pos, n, i), OpenedBounds(T, b, n, i))
<1>1. PICK p : p = OpenedPos(T, pos, n, i)
  OBVIOUS
<1>2. PICK c : c = OpenedBounds(T, b, n, i)
  OBVIOUS
<1>3. ASSUME NEW m \in Nodes, NEW f \in Sides PROVE Up(i, pos[m]) \in Int /\ Up(i, b[f][m]) \in Int
  <2>1. pos[m] \in Int /\ b[f][m] \in Int
    OBVIOUS
  <2> QED
    BY <2>1, UpFacts
<1>4. p \in [Nodes -> Int] /\ p[n] = i /\ \A m \in T : p[m] = Up(i, pos[m])
  BY <1>1, <1>3, SideFacts DEF OpenedPos
<1>5. c \in [Sides -> [Nodes -> Int]]
  <2>1. \A f \in Sides : [m \in Nodes |-> IF m = n THEN IF f = "left" THEN i - 1 ELSE i + 1
                                          ELSE IF m \in T THEN Up(i, b[f][m]) ELSE 0] \in [Nodes -> Int]
    BY <1>3
  <2> QED
    BY <1>2, <2>1 DEF OpenedBounds
<1>6. \A f \in Sides, m \in Nodes :
        c[f][m] = IF m = n THEN IF f = "left" THEN i - 1 ELSE i + 1
                  ELSE IF m \in T THEN Up(i, b[f][m]) ELSE 0
  BY <1>2 DEF OpenedBounds
<1>7. c["left"][n] = i - 1 /\ c["right"][n] = i + 1 /\ \A m \in T, f \in Sides : c[f][m] = Up(i, b[f][m])
  BY <1>6, SideFacts
<1> QED
  BY <1>1, <1>2, <1>4, <1>5, <1>7 DEF Opened

\* The free place next to n on side d: positions from it on would move up.
Gap(pos, d, n) == IF d = "left" THEN pos[n] ELSE pos[n] + 1

\* The numbers of ordered nodes.
LEMMA OrderedNumbers ==
    ASSUME NEW T, NEW N, NEW pos, NEW b, Ordered(T, N, pos, b), NEW n \in T
    PROVE  /\ n \in Nodes /\ N \in Nat /\ pos[n] \in Int /\ b["left"][n] \in Int /\ b["right"][n] \in Int
           /\ 0 <= b["left"][n] /\ b["left"][n] < pos[n]
           /\ pos[n] < b["right"][n] /\ b["right"][n] <= N + 1
<1>1. n \in Nodes
  BY DEF Ordered
<1>2. pos[n] \in Int /\ b["left"][n] \in Int /\ b["right"][n] \in Int
  BY <1>1, SideFacts DEF Ordered
<1> QED
  BY <1>1, <1>2 DEF Ordered

\* What Ordered says of m, left of n.
Laminar(T, pos, b, m, n) ==
    \/ b["right"][m] <= pos[n] /\ b["left"][n] <= b["left"][m]
    \/ pos[m] <= b["left"][n] /\ b["right"][n] <= b["right"][m]
    \/ b["right"][m] <= b["left"][n]

\* No two empty children are at the same gap.
LEMMA OneGap ==
    ASSUME NEW T, NEW N, NEW pos, NEW b, Ordered(T, N, pos, b),
           NEW temp \in T, NEW e \in Sides, b[e][temp] = Next(e, pos[temp]),
           NEW m \in T, NEW f \in Sides, b[f][m] = Next(f, pos[m]),
           Gap(pos, f, m) = Gap(pos, e, temp)
    PROVE  m = temp /\ f = e
<1>1. /\ pos[m] \in Int /\ b["left"][m] \in Int /\ b["right"][m] \in Int
      /\ b["left"][m] < pos[m] /\ pos[m] < b["right"][m]
  BY OrderedNumbers
<1>2. /\ pos[temp] \in Int /\ b["left"][temp] \in Int /\ b["right"][temp] \in Int
      /\ b["left"][temp] < pos[temp] /\ pos[temp] < b["right"][temp]
  BY OrderedNumbers
<1>3. pos[m] = pos[temp] => m = temp
  BY DEF Ordered
<1>4. pos[m] < pos[temp] => Laminar(T, pos, b, m, temp)
  BY DEF Ordered, Laminar
<1>5. pos[temp] < pos[m] => Laminar(T, pos, b, temp, m)
  BY DEF Ordered, Laminar
<1>6. CASE f = "left" /\ e = "left"
  BY <1>1, <1>2, <1>3, <1>6 DEF Gap
<1>7. CASE f = "right" /\ e = "right"
  BY <1>1, <1>2, <1>3, <1>7, SideFacts DEF Gap
<1>8. CASE f = "left" /\ e = "right"
  <2>1. pos[m] = pos[temp] + 1 /\ b["left"][m] = pos[m] - 1 /\ b["right"][temp] = pos[temp] + 1
    BY <1>1, <1>2, <1>8, SideFacts DEF Gap, Next
  <2> QED
    BY <1>1, <1>2, <1>5, <2>1 DEF Laminar
<1>9. CASE f = "right" /\ e = "left"
  <2>1. pos[temp] = pos[m] + 1 /\ b["left"][temp] = pos[temp] - 1 /\ b["right"][m] = pos[m] + 1
    BY <1>1, <1>2, <1>9, SideFacts DEF Gap, Next
  <2> QED
    BY <1>1, <1>2, <1>4, <2>1 DEF Laminar
<1> QED
  BY <1>6, <1>7, <1>8, <1>9, SideFacts

\* Positions and bounds stay in order when room is made at a gap.
LEMMA OpenedOrdered ==
    ASSUME NEW T, NEW N, NEW pos, NEW b, Ordered(T, N, pos, b),
           NEW n \in Nodes \ T, NEW i \in Int, 1 <= i, i <= N + 1,
           NEW p, NEW c, Opened(T, pos, b, n, i, p, c)
    PROVE  Ordered(T \cup {n}, N + 1, p, c)
<1> DEFINE S == T \cup {n}
<1>1. N \in Nat /\ S \in SUBSET Nodes /\ p \in [Nodes -> Int] /\ c \in [Sides -> [Nodes -> Int]]
  BY DEF Ordered, Opened
<1>2. p[n] = i /\ c["left"][n] = i - 1 /\ c["right"][n] = i + 1
  BY DEF Opened
<1>3. ASSUME NEW m \in T
      PROVE  /\ p[m] = Up(i, pos[m]) /\ c["left"][m] = Up(i, b["left"][m])
             /\ c["right"][m] = Up(i, b["right"][m])
  BY SideFacts DEF Opened
<1>4. ASSUME NEW m \in T
      PROVE  /\ pos[m] \in Int /\ b["left"][m] \in Int /\ b["right"][m] \in Int
             /\ 0 <= b["left"][m] /\ b["left"][m] < pos[m]
             /\ pos[m] < b["right"][m] /\ b["right"][m] <= N + 1
  BY OrderedNumbers
<1>5. ASSUME NEW m \in S
      PROVE  /\ 0 <= c["left"][m] /\ c["left"][m] < p[m]
             /\ p[m] < c["right"][m] /\ c["right"][m] <= (N + 1) + 1
  <2>1. CASE m = n
    BY <1>1, <1>2, <2>1
  <2>2. CASE m \in T
    BY <1>1, <1>3, <1>4, <2>2 DEF Up
  <2> QED
    BY <2>1, <2>2
<1>6. ASSUME NEW m \in S, NEW k \in S, p[m] = p[k] PROVE m = k
  <2>1. CASE m \in T /\ k \in T
    <3>1. pos[m] = pos[k]
      BY <1>3, <1>4, <1>6, <2>1 DEF Up
    <3> QED
      BY <2>1, <3>1 DEF Ordered
  <2>2. CASE m = n /\ k \in T
    BY <1>2, <1>3, <1>4, <1>6, <2>2 DEF Up
  <2>3. CASE k = n /\ m \in T
    BY <1>2, <1>3, <1>4, <1>6, <2>3 DEF Up
  <2> QED
    BY <2>1, <2>2, <2>3
<1>7. ASSUME NEW m \in S, NEW k \in S, p[m] < p[k] PROVE Laminar(S, p, c, m, k)
  <2>1. CASE m \in T /\ k \in T
    <3>1. pos[m] < pos[k]
      BY <1>3, <1>4, <1>7, <2>1 DEF Up
    <3>2. Laminar(T, pos, b, m, k)
      BY <2>1, <3>1 DEF Ordered, Laminar
    <3>3. \A x, y \in Int : x <= y => Up(i, x) <= Up(i, y)
      BY DEF Up
    <3> QED
      BY <1>3, <1>4, <2>1, <3>2, <3>3 DEF Laminar
  <2>2. CASE m = n /\ k \in T
    BY <1>2, <1>3, <1>4, <1>7, <2>2 DEF Up, Laminar
  <2>3. CASE k = n /\ m \in T
    BY <1>2, <1>3, <1>4, <1>7, <2>3 DEF Up, Laminar
  <2>4. ~(m = n /\ k = n)
    BY <1>2, <1>7
  <2> QED
    BY <2>1, <2>2, <2>3, <2>4
<1> HIDE DEF S
<1>8. N + 1 \in Nat
  BY <1>1
<1>9. Ordered(S, N + 1, p, c)
  BY <1>1, <1>5, <1>6, <1>7, <1>8 DEF Ordered, Laminar
<1> QED
  BY <1>9 DEF S

\* A tree with a new leaf has a shape.
LEMMA LeafShape ==
    ASSUME NEW t, NEW T, NEW N, NEW pos, NEW b, Shape(t, T, N, pos, b),
           NEW n \in Nodes \ T, NEW temp \in T, NEW e \in Sides, t.child[e][temp] = Sentinel,
           NEW u, Grown(t, u, n, temp, e), NEW i, i = Gap(pos, e, temp),
           NEW p, NEW c, Opened(T, pos, b, n, i, p, c)
    PROVE  Shape(u, T \cup {n}, N + 1, p, c)
<1>1. Ordered(T, N, pos, b) /\ T \subseteq Nodes
  BY DEF Shape, Ordered
<1>2. b[e][temp] = Next(e, pos[temp])
  BY ChildOrNot
<1>3. /\ pos[temp] \in Int /\ N \in Nat /\ b["left"][temp] \in Int /\ b["right"][temp] \in Int
      /\ 0 <= b["left"][temp] /\ b["left"][temp] < pos[temp]
      /\ pos[temp] < b["right"][temp] /\ b["right"][temp] <= N + 1
  BY <1>1, OrderedNumbers
<1>4. i \in Int /\ 1 <= i /\ i <= N + 1
  BY <1>3, SideFacts DEF Gap
<1>5. Ordered(T \cup {n}, N + 1, p, c)
  BY <1>1, <1>4, OpenedOrdered
<1>6. p[n] = i /\ c["left"][n] = i - 1 /\ c["right"][n] = i + 1
  BY DEF Opened
<1>7. ASSUME NEW m \in T
      PROVE  /\ p[m] = Up(i, pos[m]) /\ c["left"][m] = Up(i, b["left"][m])
             /\ c["right"][m] = Up(i, b["right"][m])
  BY SideFacts DEF Opened
<1>8. /\ n \in Cells /\ temp \in Cells /\ temp # n /\ n # Sentinel /\ temp # Sentinel
      /\ \A m \in T : m \in Cells /\ m # n /\ m # Sentinel
  BY <1>1, CellFacts
<1>9. Rooted(u, T \cup {n}, N + 1, c)
  <2>1. t.root \in T /\ b["left"][t.root] = 0 /\ b["right"][t.root] = N + 1
    BY DEF Shape, Rooted
  <2>2. c["left"][t.root] = Up(i, 0) /\ c["right"][t.root] = Up(i, N + 1)
    BY <1>7, <2>1
  <2>3. Up(i, 0) = 0 /\ Up(i, N + 1) = (N + 1) + 1
    BY <1>3, <1>4 DEF Up
  <2>4. u.root = t.root
    BY DEF Grown
  <2> QED
    BY <2>1, <2>2, <2>3, <2>4 DEF Rooted
<1>10. ASSUME NEW f \in Sides, NEW m \in T
       PROVE  u.child[f][m] = IF f = e /\ m = temp THEN n ELSE t.child[f][m]
  BY <1>8 DEF Grown
<1>11. \A f \in Sides : u.child[f][n] = Sentinel
  BY <1>8 DEF Grown
<1>12. u.parent[n] = temp /\ \A m \in T : u.parent[m] = t.parent[m]
  BY <1>8 DEF Grown
<1>13. ASSUME NEW f \in Sides PROVE HasChild(u, T \cup {n}, p, c, n, f)
  <2>1. c[f][n] = Next(f, p[n])
    BY <1>4, <1>6, SideFacts DEF Next
  <2> QED
    BY <1>11, <2>1 DEF HasChild
<1>14. HasChild(u, T \cup {n}, p, c, temp, e)
  <2>1. u.child[e][temp] = n /\ u.parent[n] = temp
    BY <1>10, <1>12
  <2>2. c[e][temp] = c[e][n] /\ c[Opposite[e]][n] = p[temp] /\ c[e][temp] # Next(e, p[temp])
    <3>1. CASE e = "left"
      <4>1. i = pos[temp] /\ b["left"][temp] = i - 1 /\ Opposite[e] = "right"
        BY <1>2, <1>3, <3>1, SideFacts DEF Gap, Next
      <4>2. p[temp] = i + 1 /\ c["left"][temp] = i - 1
        BY <1>4, <1>7, <4>1 DEF Up
      <4> QED
        BY <1>4, <1>6, <3>1, <4>1, <4>2 DEF Next
    <3>2. CASE e = "right"
      <4>1. i = pos[temp] + 1 /\ b["right"][temp] = i /\ Opposite[e] = "left"
        BY <1>2, <1>3, <3>2, SideFacts DEF Gap, Next
      <4>2. p[temp] = i - 1 /\ c["right"][temp] = i + 1
        BY <1>3, <1>4, <1>7, <4>1 DEF Up
      <4> QED
        BY <1>4, <1>6, <3>2, <4>1, <4>2, SideFacts DEF Next
    <3> QED
      BY <3>1, <3>2, SideFacts
  <2> QED
    BY <2>1, <2>2 DEF HasChild
<1>15. ASSUME NEW m \in T, NEW f \in Sides, m # temp \/ f # e
       PROVE  HasChild(u, T \cup {n}, p, c, m, f)
  <2>1. u.child[f][m] = t.child[f][m]
    BY <1>10, <1>15
  <2>2. /\ pos[m] \in Int /\ b["left"][m] \in Int /\ b["right"][m] \in Int
        /\ b["left"][m] < pos[m] /\ pos[m] < b["right"][m]
    BY <1>1, OrderedNumbers
  <2>3. c[f][m] = Next(f, p[m]) <=> b[f][m] = Next(f, pos[m])
    <3>1. b[f][m] = Next(f, pos[m]) => Gap(pos, f, m) # i
      BY <1>1, <1>2, <1>15, OneGap
    <3>2. CASE f = "left"
      <4>1. c["left"][m] = Up(i, b["left"][m]) /\ p[m] = Up(i, pos[m])
        BY <1>7
      <4>2. b["left"][m] = pos[m] - 1 => pos[m] # i
        BY <3>1, <3>2 DEF Gap, Next
      <4> QED
        BY <1>4, <2>2, <3>2, <4>1, <4>2 DEF Next, Up
    <3>3. CASE f = "right"
      <4>1. c["right"][m] = Up(i, b["right"][m]) /\ p[m] = Up(i, pos[m])
        BY <1>7
      <4>2. b["right"][m] = pos[m] + 1 => pos[m] + 1 # i
        BY <3>1, <3>3, SideFacts DEF Gap, Next
      <4> QED
        BY <1>4, <2>2, <3>3, <4>1, <4>2, SideFacts DEF Next, Up
    <3> QED
      BY <3>2, <3>3, SideFacts
  <2>4. HasChild(t, T, pos, b, m, f)
    BY DEF Shape
  <2>5. CASE b[f][m] = Next(f, pos[m])
    BY <2>1, <2>3, <2>4, <2>5 DEF HasChild
  <2>6. CASE b[f][m] # Next(f, pos[m])
    <3>1. PICK k \in T : /\ k = t.child[f][m] /\ t.parent[k] = m
                         /\ b[f][k] = b[f][m] /\ b[Opposite[f]][k] = pos[m]
      BY <2>4, <2>6 DEF HasChild
    <3>2. u.parent[k] = m
      BY <1>12, <3>1
    <3>3. /\ \A g \in Sides : c[g][k] = Up(i, b[g][k]) /\ c[g][m] = Up(i, b[g][m])
          /\ p[m] = Up(i, pos[m])
      BY <1>7, SideFacts
    <3>4. c[f][k] = c[f][m] /\ c[Opposite[f]][k] = p[m]
      BY <3>1, <3>3, Opposites
    <3> QED
      BY <2>1, <2>3, <2>6, <3>1, <3>2, <3>4 DEF HasChild
  <2> QED
    BY <2>5, <2>6
<1>16. ASSUME NEW m \in T PROVE HasParent(u, T \cup {n}, m)
  <2> SUFFICES ASSUME m # u.root
               PROVE  u.parent[m] \in T /\ \E d \in Sides : u.child[d][u.parent[m]] = m
    BY DEF HasParent
  <2>1. m # t.root
    BY DEF Grown
  <2>2. PICK d \in Sides : t.parent[m] \in T /\ t.child[d][t.parent[m]] = m
    BY <2>1 DEF Shape, HasParent
  <2>3. ~(d = e /\ t.parent[m] = temp)
    BY <1>8, <2>2
  <2>4. u.parent[m] = t.parent[m] /\ u.child[d][t.parent[m]] = m
    BY <1>10, <1>12, <2>2, <2>3
  <2> QED
    BY <2>2, <2>4
<1>17. HasParent(u, T \cup {n}, n)
  BY <1>10, <1>12 DEF HasParent
<1>18. u \in Trees
  BY DEF Grown
<1>19. ASSUME NEW m \in T \cup {n}, NEW f \in Sides PROVE HasChild(u, T \cup {n}, p, c, m, f)
  BY <1>13, <1>14, <1>15
<1>20. \A m \in T \cup {n} : HasParent(u, T \cup {n}, m)
  BY <1>16, <1>17
<1> QED
  BY <1>5, <1>9, <1>18, <1>19, <1>20 DEF Shape

\* A tree with a new red leaf is coloured but for the leaf.
LEMMA LeafColours ==
    ASSUME NEW t, NEW T, NEW N, NEW pos, NEW b, NEW B, Sound(t, T, N, pos, b, B),
           NEW n \in Nodes \ T, NEW temp \in T, NEW e \in Sides, t.child[e][temp] = Sentinel,
           NEW u, Grown(t, u, n, temp, e)
    PROVE  /\ Coloured(u, T \cup {n}, [B EXCEPT ![n] = 0], Sentinel, "left", n)
           /\ u.red[n] /\ ~u.red[u.root] /\ \A f \in Sides : ~u.red[u.child[f][n]]
<1> DEFINE C == [B EXCEPT ![n] = 0]
<1>1. Shape(t, T, N, pos, b) /\ Coloured(t, T, B, Sentinel, "left", Sentinel) /\ ~t.red[t.root]
  BY DEF Sound
<1>2. B \in [Cells -> Nat] /\ B[Sentinel] = 0 /\ ~t.red[Sentinel]
  BY <1>1 DEF Coloured
<1>3. n \in Cells /\ n # Sentinel /\ Sentinel \in Cells
  BY CellFacts
<1>4. C \in [Cells -> Nat] /\ C[n] = 0 /\ \A k \in Cells : k # n => C[k] = B[k]
  BY <1>2, <1>3
<1> HIDE DEF C
<1>5. \A f \in Sides : u.child[f][n] = Sentinel
  BY <1>3 DEF Grown
<1>6. u.red[n] /\ \A k \in Cells : k # n => u.red[k] = t.red[k]
  BY DEF Grown
<1>7. ~u.red[Sentinel] /\ C[Sentinel] = 0
  BY <1>2, <1>3, <1>4, <1>6
<1>8. u.root = t.root /\ t.root \in T /\ t.root # n /\ t.root \in Cells
  <2>1. u.root = t.root
    BY DEF Grown
  <2>2. t.root \in T
    BY <1>1 DEF Shape, Rooted
  <2> QED
    BY <1>1, <2>1, <2>2, NodeFacts
<1>9. ~u.red[u.root]
  BY <1>1, <1>6, <1>8
<1>10. ASSUME NEW f \in Sides PROVE Good(u.red, C, Sentinel, "left", n, n, f, u.child[f][n])
  BY <1>3, <1>4, <1>5, <1>6, <1>7 DEF Good
<1>11. ASSUME NEW m \in T, NEW f \in Sides
       PROVE  Good(u.red, C, Sentinel, "left", n, m, f, u.child[f][m])
  <2>1. m \in Cells /\ m # Sentinel /\ m # n
    BY <1>1, NodeFacts
  <2>2. PICK k \in Cells : k = t.child[f][m] /\ k \in T \cup {Sentinel} /\ k # n
    BY <1>1, <1>3, ChildOrNot
  <2>3. Good(t.red, B, Sentinel, "left", Sentinel, m, f, k)
    BY <1>1, <2>2 DEF Coloured
  <2>4. u.red[m] = t.red[m] /\ C[m] = B[m] /\ B[m] \in Nat /\ B[k] \in Nat
    BY <1>2, <1>4, <1>6, <2>1
  <2>5. u.red[k] = t.red[k] /\ C[k] = B[k]
    BY <1>4, <1>6, <2>2
  <2>6. B[m] = B[k] + (IF t.red[m] THEN 0 ELSE 1) + 0
    BY <2>1, <2>3 DEF Good
  <2>7. t.red[m] /\ t.red[k] => FALSE
    <3>1. t.red[m] /\ t.red[k] => Sentinel \in {m, k}
      BY <2>3 DEF Good
    <3> QED
      BY <1>2, <2>1, <3>1
  <2>8. CASE f = e /\ m = temp
    <3>1. u.child[f][m] = n
      BY <2>1, <2>8 DEF Grown
    <3>2. k = Sentinel
      BY <2>2, <2>8
    <3>3. C[m] = C[n] + (IF u.red[m] THEN 0 ELSE 1) + 0
      BY <1>2, <1>4, <2>4, <2>6, <3>2
    <3> QED
      BY <2>1, <3>1, <3>3 DEF Good
  <2>9. CASE ~(f = e /\ m = temp)
    <3>1. u.child[f][m] = k
      BY <2>1, <2>2, <2>9 DEF Grown
    <3>2. C[m] = C[k] + (IF u.red[m] THEN 0 ELSE 1) + 0
      BY <2>4, <2>5, <2>6
    <3>3. u.red[m] /\ u.red[k] => FALSE
      BY <2>4, <2>5, <2>7
    <3> QED
      BY <2>1, <3>1, <3>2, <3>3 DEF Good
  <2> QED
    BY <2>8, <2>9
<1>12. Coloured(u, T \cup {n}, C, Sentinel, "left", n)
  <2>1. \A m \in T \cup {n}, f \in Sides : Good(u.red, C, Sentinel, "left", n, m, f, u.child[f][m])
    BY <1>10, <1>11
  <2> QED
    BY <1>4, <1>7, <2>1 DEF Coloured
<1>13. \A f \in Sides : ~u.red[u.child[f][n]]
  BY <1>5, <1>7
<1> QED
  BY <1>6, <1>9, <1>12, <1>13 DEF C

\* The leaf the descent of an insertion comes to.
Found(t, T, n, temp) ==
    /\ temp \in T /\ t.child[Branch(t, n, temp)][temp] = Sentinel
    /\ InsertBelow(t, n) = WithLeaf(t, n, temp, Branch(t, n, temp))
    /\ \A P \in SUBSET T :
         /\ t.root \in P
         /\ \A m \in P : t.child[Branch(t, n, m)][m] # Sentinel => t.child[Branch(t, n, m)][m] \in P
         => temp \in P

\* The bounds get narrower on every way down.
LEMMA WaysDown ==
    ASSUME NEW t, NEW T, NEW N, NEW pos, NEW b, Shape(t, T, N, pos, b),
           NEW Stop, NEW next,
           \A m \in T : m \notin Stop => \E d \in Sides : next[m] = t.child[d][m] /\ next[m] # Sentinel
    PROVE  Descends(T, Stop, next, [m \in T |-> Width(b, m)], N + 2)
<1> DEFINE size == [m \in T |-> Width(b, m)]
<1>1. ASSUME NEW m \in T PROVE size[m] \in Nat /\ size[m] < N + 2 /\ N + 2 \in Nat
  <2>1. /\ N \in Nat /\ b["left"][m] \in Int /\ b["right"][m] \in Int /\ pos[m] \in Int
        /\ 0 <= b["left"][m] /\ b["left"][m] < pos[m]
        /\ pos[m] < b["right"][m] /\ b["right"][m] <= N + 1
    BY NodeFacts
  <2> QED
    BY <2>1 DEF Width
<1>2. ASSUME NEW m \in T, m \notin Stop PROVE next[m] \in T /\ size[next[m]] < size[m]
  <2>1. PICK d \in Sides : next[m] = t.child[d][m] /\ next[m] # Sentinel
    BY <1>2
  <2>2. IsChild(t, T, pos, b, m, d, next[m])
    BY <2>1, ChildFacts
  <2>3. next[m] \in T
    BY <2>2 DEF IsChild
  <2>4. Width(b, next[m]) < Width(b, m)
    BY <2>2, ChildIsNarrower
  <2> QED
    BY <2>3, <2>4
<1>3. N + 2 \in Nat
  BY DEF Shape, Ordered
<1> HIDE DEF size
<1>4. Descends(T, Stop, next, size, N + 2)
  BY <1>1, <1>2, <1>3 DEF Descends
<1> QED
  BY <1>4 DEF size

\* Branch is a side.
LEMMA BranchIsSide == ASSUME NEW t, NEW n, NEW m PROVE Branch(t, n, m) \in Sides
BY SideFacts DEF Branch

\* The loop of the insert functions ends at an empty child.
LEMMA PlaceFound ==
    ASSUME NEW t, NEW T, NEW N, NEW pos, NEW b, Shape(t, T, N, pos, b), T = Inside(t), T # {}, NEW n
    PROVE  \E temp \in T : Found(t, T, n, temp)
<1> DEFINE Body(f) == [m \in Inside(t) |-> LET c == t.child[Branch(t, n, m)][m]
                                           IN  IF c = Sentinel THEN m ELSE f[c]]
           place == CHOOSE f : f = Body(f)
           temp == place[t.root]
           next == [m \in T |-> t.child[Branch(t, n, m)][m]]
           Stop == {m \in T : t.child[Branch(t, n, m)][m] = Sentinel}
           val == [m \in T |-> m]
           size == [m \in T |-> Width(b, m)]
<1>1. InsertBelow(t, n) = WithLeaf(t, n, temp, Branch(t, n, temp))
  BY DEF InsertBelow, WithLeaf
<1>2. \A f : Body(f) = [m \in T |-> IF m \in Stop THEN val[m] ELSE f[next[m]]]
  OBVIOUS
<1> HIDE DEF Body
<1>3. Descends(T, Stop, next, size, N + 2)
  <2>1. ASSUME NEW m \in T, m \notin Stop
        PROVE  \E d \in Sides : next[m] = t.child[d][m] /\ next[m] # Sentinel
    <3>1. Branch(t, n, m) \in Sides
      BY BranchIsSide
    <3> QED
      BY <2>1, <3>1
  <2> HIDE DEF Stop, next
  <2> QED
    BY <2>1, WaysDown
<1>4. PICK f : Descent(f, T, Stop, val, next)
  <2> HIDE DEF Stop, next, val, size
  <2> QED
    BY <1>3, DescentExists
<1>5. f = Body(f)
  BY <1>2, <1>4 DEF Descent
<1>6. place = Body(place)
  BY <1>5
<1> HIDE DEF place
<1>7. Descent(place, T, Stop, val, next)
  BY <1>2, <1>6 DEF Descent
<1>8. t.root \in T
  BY DEF Shape, Rooted
<1>9. ASSUME NEW P \in SUBSET T, t.root \in P, \A m \in P : m \notin Stop => next[m] \in P
      PROVE  temp \in P /\ temp \in Stop
  <2> HIDE DEF Stop, next, size, val
  <2>1. PICK e \in P : e \in Stop /\ place[t.root] = val[e]
    BY <1>3, <1>7, <1>9, DescentStops
  <2>2. val[e] = e
    BY DEF val
  <2> QED
    BY <2>1, <2>2
<1>10. temp \in T /\ temp \in Stop
  <2>1. \A m \in T : m \notin Stop => next[m] \in T
    BY <1>3 DEF Descends
  <2> HIDE DEF Stop, next, temp
  <2> QED
    BY <1>8, <1>9, <2>1
<1>11. ASSUME NEW P \in SUBSET T, t.root \in P,
              \A m \in P : t.child[Branch(t, n, m)][m] # Sentinel => t.child[Branch(t, n, m)][m] \in P
       PROVE  temp \in P
  <2>1. \A m \in P : m \notin Stop => next[m] \in P
    BY <1>11
  <2> HIDE DEF Stop, next, temp
  <2> QED
    BY <1>9, <1>11, <2>1
<1>12. t.child[Branch(t, n, temp)][temp] = Sentinel
  BY <1>10
<1> HIDE DEF temp
<1>13. Found(t, T, n, temp)
  BY <1>1, <1>10, <1>11, <1>12 DEF Found
<1> QED
  BY <1>10, <1>13

-----------------------------------------------------------------------------
(* Insertion as a whole.                                                   *)

\* After the insert function, only the new leaf may be red below a red node.
LEMMA InsertBelowRaises ==
    ASSUME NEW t, NEW T, NEW N, NEW pos, NEW b, NEW B, Sound(t, T, N, pos, b, B),
           NEW n \in Nodes \ T, NEW temp, Found(t, T, n, temp),
           NEW u, u = InsertBelow(t, n)
    PROVE  /\ \E p, c, C : Raising(u, T \cup {n}, N + 1, p, c, C, n)
           /\ Elsewhere(t, u, T \cup {n})
<1>1. Shape(t, T, N, pos, b)
  BY DEF Sound
<1>2. PICK e \in Sides : e = Branch(t, n, temp)
  BY BranchIsSide
<1>3. temp \in T /\ t.child[e][temp] = Sentinel /\ u = WithLeaf(t, n, temp, e)
  BY <1>2 DEF Found
<1>4. /\ t \in Trees /\ temp \in Nodes /\ n # temp
      /\ T \in SUBSET Nodes /\ pos \in [Nodes -> Int] /\ b \in [Sides -> [Nodes -> Int]]
  BY <1>1, <1>3 DEF Shape, Ordered
<1>5. Grown(t, u, n, temp, e)
  BY <1>3, <1>4, LeafFields
<1>6. PICK i \in Int : i = Gap(pos, e, temp)
  BY <1>4 DEF Gap
<1>7. PICK p, c : Opened(T, pos, b, n, i, p, c)
  BY <1>4, OpenedExists
<1>8. Shape(u, T \cup {n}, N + 1, p, c)
  BY <1>1, <1>3, <1>5, <1>6, <1>7, LeafShape
<1>9. PICK C : C = [B EXCEPT ![n] = 0]
  OBVIOUS
<1>10. /\ Coloured(u, T \cup {n}, C, Sentinel, "left", n)
       /\ u.red[n] /\ ~u.red[u.root] /\ \A f \in Sides : ~u.red[u.child[f][n]]
  BY <1>3, <1>5, <1>9, LeafColours
<1>11. Raising(u, T \cup {n}, N + 1, p, c, C, n)
  BY <1>8, <1>10 DEF Raising
<1>12. Elsewhere(t, u, T \cup {n})
  <2>1. u.key = t.key /\ u.insert = t.insert
    BY <1>5 DEF Grown
  <2>2. ASSUME NEW m \in Nodes \ (T \cup {n}), NEW d \in Sides PROVE u.child[d][m] = t.child[d][m]
    <3>1. m \in Cells /\ m # n /\ m # temp
      BY <1>3, CellFacts
    <3> QED
      BY <1>5, <3>1 DEF Grown
  <2> QED
    BY <2>1, <2>2 DEF Elsewhere
<1> QED
  BY <1>11, <1>12

\* The first node of a tree.
Alone(t, n) == [t EXCEPT !.root = n, !.parent[n] = NULL, !.child["left"][n] = Sentinel,
                         !.child["right"][n] = Sentinel, !.red[n] = FALSE]

Single(t, u, n) ==
    /\ u \in Trees /\ u.root = n /\ u.key = t.key /\ u.insert = t.insert
    /\ \A f \in Sides, k \in Cells : u.child[f][k] = IF k = n THEN Sentinel ELSE t.child[f][k]
    /\ ~u.red[n] /\ \A k \in Cells : k # n => u.red[k] = t.red[k]

\* A node that becomes the whole tree, in its fields.
LEMMA AloneFields ==
    ASSUME NEW t \in Trees, NEW n \in Nodes
    PROVE  Single(t, Alone(t, n), n)
<1>1. PICK t1 : t1 = WithRoot(t, n)
  OBVIOUS
<1>2. PICK t2 : t2 = WithParent(t1, n, NULL)
  OBVIOUS
<1>3. PICK t3 : t3 = WithChild(t2, "left", n, Sentinel)
  OBVIOUS
<1>4. PICK t4 : t4 = WithChild(t3, "right", n, Sentinel)
  OBVIOUS
<1>5. PICK u : u = WithRed(t4, n, FALSE)
  OBVIOUS
<1>6. u = Alone(t, n)
  BY <1>1, <1>2, <1>3, <1>4, <1>5 DEF Alone, WithRoot, WithChild, WithParent, WithRed
<1>7. n \in Cells /\ NULL \in Cells \cup {NULL} /\ Sentinel \in Cells \cup {NULL}
  BY CellFacts
<1>8. RootSet(t, t1, n)
  BY <1>1, <1>7, SetRoot
<1>9. ParentSet(t1, t2, n, NULL)
  <2>1. t1 \in Trees
    BY <1>8 DEF RootSet
  <2> QED
    BY <1>2, <1>7, <2>1, SetParent
<1>10. ChildSet(t2, t3, "left", n, Sentinel)
  <2>1. t2 \in Trees /\ "left" \in Sides
    BY <1>9, SideFacts DEF ParentSet
  <2> QED
    BY <1>3, <1>7, <2>1, SetChild
<1>11. ChildSet(t3, t4, "right", n, Sentinel)
  <2>1. t3 \in Trees /\ "right" \in Sides
    BY <1>10, SideFacts DEF ChildSet
  <2> QED
    BY <1>4, <1>7, <2>1, SetChild
<1>12. RedSet(t4, u, n, FALSE)
  <2>1. t4 \in Trees
    BY <1>11 DEF ChildSet
  <2> QED
    BY <1>5, <1>7, <2>1, SetRed
<1>13. ASSUME NEW f \in Sides, NEW k \in Cells
       PROVE  u.child[f][k] = IF k = n THEN Sentinel ELSE t.child[f][k]
  <2>1. u.child[f][k] = t4.child[f][k]
    BY <1>12 DEF RedSet
  <2>2. t4.child[f][k] = IF f = "right" /\ k = n THEN Sentinel ELSE t3.child[f][k]
    BY <1>11 DEF ChildSet
  <2>3. t3.child[f][k] = IF f = "left" /\ k = n THEN Sentinel ELSE t2.child[f][k]
    BY <1>10 DEF ChildSet
  <2>4. t2.child[f][k] = t.child[f][k]
    BY <1>8, <1>9 DEF ParentSet, RootSet
  <2> QED
    BY <2>1, <2>2, <2>3, <2>4, SideFacts
<1>15. t4.red = t.red
  BY <1>8, <1>9, <1>10, <1>11 DEF ChildSet, ParentSet, RootSet
<1>16. ~u.red[n] /\ \A k \in Cells : k # n => u.red[k] = t.red[k]
  BY <1>7, <1>12, <1>15 DEF RedSet
<1>17. u.root = n /\ u.key = t.key /\ u.insert = t.insert
  <2>1. t2.root = n /\ t2.key = t.key /\ t2.insert = t.insert
    BY <1>8, <1>9 DEF RootSet, ParentSet
  <2>2. t4.root = t2.root /\ t4.key = t2.key /\ t4.insert = t2.insert
    BY <1>10, <1>11 DEF ChildSet
  <2> QED
    BY <1>12, <2>1, <2>2 DEF RedSet
<1>18. u \in Trees
  BY <1>12 DEF RedSet
<1>19. Single(t, u, n)
  BY <1>13, <1>16, <1>17, <1>18 DEF Single
<1> QED
  BY <1>6, <1>19

\* A tree of one node is red-black.
LEMMA AloneSound ==
    ASSUME NEW t \in Trees, NEW n \in Nodes, ~t.red[Sentinel], NEW u, u = Alone(t, n)
    PROVE  (\E p, c, C : Sound(u, {n}, 1, p, c, C)) /\ Elsewhere(t, u, {n})
<1>1. Single(t, u, n)
  BY AloneFields
<1>2. n \in Cells /\ n # Sentinel /\ Sentinel \in Cells
  BY CellFacts
<1> DEFINE p == [m \in Nodes |-> 1]
           c == [f \in Sides |-> [m \in Nodes |-> IF f = "left" THEN 0 ELSE 2]]
           C == [k \in Cells |-> IF k = n THEN 1 ELSE 0]
<1>3. p \in [Nodes -> Int] /\ p[n] = 1
  OBVIOUS
<1>4. c \in [Sides -> [Nodes -> Int]] /\ c["left"][n] = 0 /\ c["right"][n] = 2
  BY SideFacts
<1>5. C \in [Cells -> Nat] /\ C[n] = 1 /\ C[Sentinel] = 0
  BY <1>2
<1> HIDE DEF p, c, C
<1>6. Ordered({n}, 1, p, c)
  BY <1>3, <1>4 DEF Ordered
<1>7. u \in Trees /\ u.root = n /\ \A f \in Sides : u.child[f][n] = Sentinel
  BY <1>1, <1>2 DEF Single
<1>8. Rooted(u, {n}, 1, c)
  BY <1>4, <1>7 DEF Rooted
<1>9. \A f \in Sides : HasChild(u, {n}, p, c, n, f)
  <2>1. \A f \in Sides : c[f][n] = Next(f, p[n])
    BY <1>3, <1>4, SideFacts DEF Next
  <2> QED
    BY <1>7, <2>1 DEF HasChild
<1>10. HasParent(u, {n}, n)
  BY <1>7 DEF HasParent
<1>11. Shape(u, {n}, 1, p, c)
  BY <1>6, <1>7, <1>8, <1>9, <1>10 DEF Shape
<1>12. ~u.red[n] /\ ~u.red[Sentinel]
  BY <1>1, <1>2 DEF Single
<1>13. \A f \in Sides : Good(u.red, C, Sentinel, "left", Sentinel, n, f, u.child[f][n])
  BY <1>2, <1>5, <1>7, <1>12 DEF Good
<1>14. Coloured(u, {n}, C, Sentinel, "left", Sentinel)
  BY <1>5, <1>12, <1>13 DEF Coloured
<1>15. Sound(u, {n}, 1, p, c, C)
  BY <1>7, <1>11, <1>12, <1>14 DEF Sound
<1>16. Elsewhere(t, u, {n})
  <2>1. u.key = t.key /\ u.insert = t.insert
    BY <1>1 DEF Single
  <2>2. ASSUME NEW m \in Nodes \ {n}, NEW d \in Sides PROVE u.child[d][m] = t.child[d][m]
    <3>1. m \in Cells /\ m # n
      BY CellFacts
    <3> QED
      BY <1>1, <3>1 DEF Single
  <2> QED
    BY <2>1, <2>2 DEF Elsewhere
<1> QED
  BY <1>15, <1>16

\* The tree holds the nodes of T, and no other node has a left child.
Holds(t, T, N) ==
    /\ \E pos, b, B : Sound(t, T, N, pos, b, B)
    /\ T = Inside(t) /\ N = Cardinality(T)

\* The nodes can be counted.
LEMMA LongestIsNat == Longest \in Nat /\ \A T \in SUBSET Nodes : IsFiniteSet(T) /\ Cardinality(T) \in Nat
BY CellFacts, FS_CardinalityType, FS_Subset DEF Longest

\* One node more than before, and never more than there are.
LEMMA HeldNumber ==
    ASSUME NEW T \in SUBSET Nodes, NEW n \in Nodes \ T, NEW N, N = Cardinality(T)
    PROVE  N + 1 = Cardinality(T \cup {n}) /\ N + 1 <= Longest /\ N \in Nat
<1>1. IsFiniteSet(T) /\ N \in Nat
  BY LongestIsNat
<1>2. Cardinality(T \cup {n}) = N + 1
  BY <1>1, FS_AddElement
<1>3. T \cup {n} \in SUBSET Nodes
  OBVIOUS
<1>4. Cardinality(T \cup {n}) <= Cardinality(Nodes)
  BY <1>3, CellFacts, FS_Subset
<1> QED
  BY <1>1, <1>2, <1>4 DEF Longest

\* Nodes of the tree have children, or the sentinel; the others have none.
LEMMA HeldInside ==
    ASSUME NEW t, NEW T, NEW u, NEW S, Elsewhere(t, u, S), T = Inside(t), T \subseteq S, S \subseteq Nodes,
           NEW N, NEW pos, NEW b, Shape(u, S, N, pos, b)
    PROVE  S = Inside(u)
<1>1. ASSUME NEW m \in S PROVE m \in Inside(u)
  <2>1. "left" \in Sides
    BY SideFacts
  <2>2. u.child["left"][m] \in Cells
    BY <2>1, ChildOrNot
  <2> QED
    BY <2>2, CellFacts DEF Inside
<1>2. ASSUME NEW m \in Nodes \ S PROVE m \notin Inside(u)
  <2>1. m \notin Inside(t)
    OBVIOUS
  <2>2. u.child["left"][m] = t.child["left"][m]
    BY SideFacts DEF Elsewhere
  <2> QED
    BY <2>1, <2>2 DEF Inside
<1>3. \A m \in Inside(u) : m \in Nodes
  BY DEF Inside
<1> QED
  BY <1>1, <1>2, <1>3

\* ngx_rbtree_insert keeps a tree red-black, with the one node more.
LEMMA InsertHolds ==
    ASSUME NEW t, NEW T, NEW N, Holds(t, T, N), NEW n \in Nodes \ T, NEW u, u = InsertInto(t, n)
    PROVE  Holds(u, T \cup {n}, N + 1) /\ Elsewhere(t, u, T \cup {n})
<1>1. PICK pos, b, B : Sound(t, T, N, pos, b, B)
  BY DEF Holds
<1>2. /\ Shape(t, T, N, pos, b) /\ t \in Trees /\ T \in SUBSET Nodes /\ ~t.red[Sentinel]
      /\ T = Inside(t) /\ N = Cardinality(T)
  BY <1>1 DEF Sound, Shape, Ordered, Coloured, Holds
<1>3. N + 1 = Cardinality(T \cup {n}) /\ N + 1 <= Longest /\ N \in Nat /\ Longest \in Nat
  BY <1>2, HeldNumber, LongestIsNat
<1>4. t.root = Sentinel <=> T = {}
  <2>1. T # {} => t.root \in T
    BY <1>2 DEF Shape, Rooted
  <2>2. T = {} => t.root = Sentinel
    BY <1>2 DEF Shape, Rooted
  <2> QED
    BY <1>2, <2>1, <2>2, CellFacts
<1>5. (\E p, c, C : Sound(u, T \cup {n}, N + 1, p, c, C)) /\ Elsewhere(t, u, T \cup {n})
  <2>1. CASE T = {}
    <3>1. u = Alone(t, n)
      BY <1>4, <2>1 DEF InsertInto, Alone
    <3>2. N = 0
      BY <1>2, <2>1, FS_EmptySet
    <3>3. T \cup {n} = {n} /\ N + 1 = 1
      BY <2>1, <3>2
    <3> QED
      BY <1>2, <3>1, <3>3, AloneSound
  <2>2. CASE T # {}
    <3>1. PICK v : v = InsertBelow(t, n)
      OBVIOUS
    <3>2. u = Rebalance(v, n)
      BY <1>4, <2>2, <3>1 DEF InsertInto
    <3>3. PICK temp : Found(t, T, n, temp)
      BY <1>2, <2>2, PlaceFound
    <3>4. PICK p, c, C : Raising(v, T \cup {n}, N + 1, p, c, C, n)
      BY <1>1, <3>1, <3>3, InsertBelowRaises
    <3>5. Elsewhere(t, v, T \cup {n})
      BY <1>1, <3>1, <3>3, InsertBelowRaises
    <3>6. \E a, A : Sound(u, T \cup {n}, N + 1, p, a, A)
      BY <1>3, <3>2, <3>4, RebalanceSound
    <3>7. Elsewhere(v, u, T \cup {n})
      BY <1>3, <3>2, <3>4, RebalanceSound
    <3>8. Elsewhere(t, u, T \cup {n})
      BY <3>5, <3>7, ElsewhereTwice
    <3> QED
      BY <3>6, <3>8
  <2> QED
    BY <2>1, <2>2
<1>6. PICK p, c, C : Sound(u, T \cup {n}, N + 1, p, c, C)
  BY <1>5
<1>7. T \cup {n} = Inside(u)
  <2>1. Shape(u, T \cup {n}, N + 1, p, c)
    BY <1>6 DEF Sound
  <2>2. T \subseteq T \cup {n} /\ T \cup {n} \subseteq Nodes
    BY <1>2
  <2> QED
    BY <1>2, <1>5, <2>1, <2>2, HeldInside
<1> QED
  BY <1>3, <1>5, <1>6, <1>7 DEF Holds
=============================================================================
