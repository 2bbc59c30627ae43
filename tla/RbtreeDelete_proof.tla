------------------------- MODULE RbtreeDelete_proof -------------------------
(***************************************************************************)
(* Deletion: a node is cut out, another takes its place, and the repair    *)
(* pays the black node that is missing.  The tree stays red-black.         *)
(***************************************************************************)
EXTENDS RbtreeInsert_proof

-----------------------------------------------------------------------------
(* Deletion: the way down to x lacks a black node.                         *)

\* The heights and colours after a rotation that puts up above n; far, the
\* other child of up, may become black.
Reheight(t, v, T, B, C, n, up, far) ==
    /\ Recoloured(t, v) /\ C \in [Cells -> Nat] /\ C[Sentinel] = 0 /\ ~v.red[Sentinel]
    /\ \A k \in T : k # n /\ k # up /\ k # far => C[k] = B[k] /\ v.red[k] = t.red[k]
    /\ C[up] = B[n] /\ (v.red[up] => t.red[n])
    /\ \/ far = Sentinel
       \/ C[far] = B[far] /\ v.red[far] = t.red[far]
       \/ C[far] = B[far] + 1 /\ t.red[far] /\ ~v.red[far]

\* The edge that lacks a black node stays, or is gone.
Exempt(n, q, s, q1, s1) == (q1 = q /\ s1 = s) \/ (q = n /\ q1 = Sentinel)

\* A rotation gives a coloured tree if the recoloured edges around it are
\* good.
LEMMA TurnColoured ==
    ASSUME NEW t, NEW T, NEW N, NEW pos, NEW b, Shape(t, T, N, pos, b),
           NEW B, NEW q, NEW s, Coloured(t, T, B, q, s, Sentinel),
           NEW n, NEW up, NEW d \in Sides, NEW o, o = Opposite[d],
           NEW inner, inner = t.child[d][up], NEW far, far = t.child[o][up],
           NEW v, NEW C, Reheight(t, v, T, B, C, n, up, far),
           BeforeTurn(v, T, pos, b, n, d, up), NEW q1, NEW s1, Exempt(n, q, s, q1, s1),
           Good(v.red, C, q1, s1, Sentinel, n, d, t.child[d][n]),
           Good(v.red, C, q1, s1, Sentinel, n, o, inner),
           Good(v.red, C, q1, s1, Sentinel, up, d, n),
           Good(v.red, C, q1, s1, Sentinel, up, o, far)
    PROVE  Coloured(Rotate(v, n, d), T, C, q1, s1, Sentinel)
<1>1. v.child = t.child /\ v.root = t.root /\ v.parent = t.parent /\ Recoloured(t, v)
  BY DEF Reheight, Recoloured
<1>2. Shape(v, T, N, pos, b)
  BY <1>1, RecolouredShape
<1>3. C \in [Cells -> Nat] /\ C[Sentinel] = 0 /\ ~v.red[Sentinel]
  BY ZenonT(60) DEF Reheight
<1>4. B \in [Cells -> Nat] /\ B[Sentinel] = 0 /\ ~t.red[Sentinel]
  BY ZenonT(60) DEF Coloured
<1>5. n \in T /\ up \in T /\ up # n /\ up # t.root /\ t.parent[up] = n /\ up = t.child[o][n]
      /\ o \in Sides
  <2>1. n \in T /\ up \in T /\ up # n /\ up # v.root /\ v.parent[up] = n /\ up = v.child[o][n]
    BY ZenonT(60) DEF BeforeTurn
  <2> QED
    BY <1>1, <2>1, Opposites
<1>6. \A m \in T : m \in Cells /\ m # Sentinel
  BY <1>2, NodeFacts
<1>7. ASSUME NEW m \in T, NEW e \in Sides, m # n, m # up, t.child[e][m] # n
      PROVE  Good(v.red, C, q1, s1, Sentinel, m, e, t.child[e][m])
  <2>1. PICK c \in T \cup {Sentinel} : c = t.child[e][m]
    BY ChildOrNot
  <2>2. c # Sentinel => IsChild(t, T, pos, b, m, e, c)
    BY ZenonT(60), <2>1, ChildFacts
  <2>3. c # up
    BY <1>5, <1>6, <1>7, <2>2 DEF IsChild
  <2>4. far # Sentinel => far \in T /\ far # up /\ t.parent[far] = up
    <3>1. far # Sentinel => IsChild(t, T, pos, b, up, o, far)
      BY <1>5, ChildFacts
    <3> QED
      BY ZenonT(60), <3>1 DEF IsChild
  <2>5. c = far => c = Sentinel
    BY <1>7, <2>2, <2>4 DEF IsChild
  <2>6. c \in Cells /\ m \in Cells /\ m # Sentinel /\ c # n
    BY <1>6, <1>7, <2>1, CellFacts
  <2>7. C[c] = B[c] /\ (v.red[c] => t.red[c])
    <3>1. CASE c = Sentinel
      BY ZenonT(60), <1>3, <1>4, <3>1
    <3>2. CASE c # Sentinel
      BY <2>1, <2>3, <2>5, <2>6, <3>2 DEF Reheight
    <3> QED
      BY <3>1, <3>2
  <2>8. Good(t.red, B, q, s, Sentinel, m, e, c)
    BY <2>1 DEF Coloured
  <2>9. (m = q1 /\ e = s1) <=> (m = q /\ e = s)
    BY <1>7, <2>6 DEF Exempt
  <2>10. B[m] \in Nat /\ B[c] \in Nat
    BY <1>4, <2>6
  <2>11. CASE m # far
    <3>1. C[m] = B[m] /\ v.red[m] = t.red[m]
      BY <1>7, <2>11 DEF Reheight
    <3>2. C[m] = C[c] + (IF v.red[m] THEN 0 ELSE 1) + (IF m = q1 /\ e = s1 THEN 1 ELSE 0)
      BY <2>7, <2>8, <2>9, <3>1 DEF Good
    <3>3. v.red[m] /\ v.red[c] => Sentinel \in {m, c}
      BY <2>7, <2>8, <3>1 DEF Good
    <3> QED
      BY <2>1, <3>2, <3>3 DEF Good
  <2>12. CASE m = far
    <3>1. \/ C[m] = B[m] /\ v.red[m] = t.red[m]
          \/ C[m] = B[m] + 1 /\ t.red[m] /\ ~v.red[m]
      BY <2>6, <2>12 DEF Reheight
    <3>2. CASE C[m] = B[m] /\ v.red[m] = t.red[m]
      <4>1. C[m] = C[c] + (IF v.red[m] THEN 0 ELSE 1) + (IF m = q1 /\ e = s1 THEN 1 ELSE 0)
        BY <2>7, <2>8, <2>9, <3>2 DEF Good
      <4>2. v.red[m] /\ v.red[c] => Sentinel \in {m, c}
        BY <2>7, <2>8, <3>2 DEF Good
      <4> QED
        BY <2>1, <4>1, <4>2 DEF Good
    <3>3. CASE C[m] = B[m] + 1 /\ t.red[m] /\ ~v.red[m]
      <4>1. B[m] = B[c] + 0 + (IF m = q /\ e = s THEN 1 ELSE 0)
        BY <2>8, <3>3 DEF Good
      <4>2. C[m] = C[c] + 1 + (IF m = q1 /\ e = s1 THEN 1 ELSE 0)
        BY <2>7, <2>9, <2>10, <3>3, <4>1
      <4> QED
        BY <2>1, <3>3, <4>2 DEF Good
    <3> QED
      BY ZenonT(60), <3>1, <3>2, <3>3
  <2> QED
    BY <2>11, <2>12
<1>8. ASSUME n # t.root
      PROVE  Good(v.red, C, q1, s1, Sentinel, t.parent[n], SideOf(t, n), up)
  <2>1. IsChild(t, T, pos, b, t.parent[n], SideOf(t, n), n) /\ t.parent[n] \in T
    BY <1>5, <1>8, ParentFacts
  <2>2. PICK k \in T : k = t.parent[n] /\ k # n /\ k # up
    <3>1. v.parent[n] \in T \ {n, up}
      BY <1>1, <1>8 DEF BeforeTurn
    <3> QED
      BY ZenonT(60), <1>1, <3>1
  <2>3. PICK e \in Sides : e = SideOf(t, n)
    BY SideInSides
  <2>4. t.child[e][k] = n /\ IsChild(t, T, pos, b, k, e, n)
    BY <2>1, <2>2, <2>3 DEF IsChild
  <2>5. Good(t.red, B, q, s, Sentinel, k, e, n)
    BY <2>4 DEF Coloured
  <2>6. k # far
    <3>1. ASSUME k = far PROVE FALSE
      <4>1. far # Sentinel /\ IsChild(t, T, pos, b, up, o, far)
        BY ZenonT(60), <1>5, <1>6, <3>1, ChildFacts
      <4>2. Width(b, n) < Width(b, k) /\ Width(b, n) \in Int /\ Width(b, k) \in Int
        BY ZenonT(60), <1>5, <2>4, ChildIsNarrower
      <4>3. Width(b, far) < Width(b, up) /\ Width(b, up) \in Int
        BY ZenonT(60), <1>5, <4>1, ChildIsNarrower
      <4>4. IsChild(t, T, pos, b, n, o, up)
        BY ZenonT(60), <1>5, <1>6, ChildFacts
      <4>5. Width(b, up) < Width(b, n)
        BY ZenonT(60), <1>5, <4>4, ChildIsNarrower
      <4> QED
        BY SMTT(40), <3>1, <4>2, <4>3, <4>5
    <3> QED
      BY <3>1
  <2>7. C[k] = B[k] /\ v.red[k] = t.red[k] /\ B[k] \in Nat /\ k # Sentinel
    BY ZenonT(60), <1>4, <1>6, <2>2, <2>6 DEF Reheight
  <2>8. C[up] = B[n] /\ (v.red[up] => t.red[n])
    BY DEF Reheight
  <2>9. (k = q1 /\ e = s1) <=> (k = q /\ e = s)
    BY <2>2, <2>7 DEF Exempt
  <2>10. C[k] = C[up] + (IF v.red[k] THEN 0 ELSE 1) + (IF k = q1 /\ e = s1 THEN 1 ELSE 0)
    BY ZenonT(60), <2>5, <2>7, <2>8, <2>9 DEF Good
  <2>11. v.red[k] /\ v.red[up] => FALSE
    <3>1. t.red[k] /\ t.red[n] => Sentinel \in {k, n}
      BY <2>5 DEF Good
    <3> QED
      BY <1>5, <1>6, <2>7, <2>8, <3>1
  <2>12. Good(v.red, C, q1, s1, Sentinel, k, e, up)
    BY <2>10, <2>11 DEF Good
  <2> QED
    BY ZenonT(60), <2>2, <2>3, <2>12
<1>9. SideOf(v, n) = SideOf(t, n)
  BY <1>1 DEF SideOf
<1>10. \A m \in T, e \in Sides : m # n /\ m # up /\ v.child[e][m] # n =>
              Good(v.red, C, q1, s1, Sentinel, m, e, v.child[e][m])
  BY <1>1, <1>7
<1>11. n # v.root => Good(v.red, C, q1, s1, Sentinel, v.parent[n], SideOf(v, n), up)
  BY <1>1, <1>8, <1>9
<1>12. v.child[d][n] = t.child[d][n] /\ v.child[o][up] = far /\ inner = v.child[d][up]
  BY <1>1
<1>13. GoodTurn(v, T, C, q1, s1, Sentinel, n, d, up, o, inner)
  BY ZenonT(60), <1>3, <1>10, <1>11, <1>12 DEF GoodTurn
<1> QED
  BY ZenonT(60), <1>2, <1>12, <1>13, RotatedGood

\* The way down to x lacks a black node, unless x is the root.
Lacking(t, T, N, pos, b, B, x) ==
    /\ Shape(t, T, N, pos, b) /\ T # {} /\ ~t.red[t.root] /\ x \in T \cup {Sentinel}
    /\ IF x = t.root THEN Coloured(t, T, B, Sentinel, "left", x)
       ELSE /\ t.parent[x] \in T /\ t.child[SideOf(t, x)][t.parent[x]] = x
            /\ Coloured(t, T, B, t.parent[x], SideOf(t, x), x)

\* Where the loop ends: x only has to become black.
Done(t, x) == x = t.root \/ t.red[x]

UpIs(t, x, p) == t.parent[x] = p

\* What a round looks at.
Near(t, T, N, pos, b, B, x, p, d, o, w) ==
    /\ Shape(t, T, N, pos, b) /\ ~t.red[t.root] /\ ~t.red[x] /\ x \in T \cup {Sentinel}
    /\ p \in T /\ w \in T /\ d \in Sides /\ o \in Sides /\ o = Opposite[d] /\ d = Opposite[o]
    /\ x = t.child[d][p] /\ w = t.child[o][p] /\ x # w /\ p # w /\ x # p
    /\ UpIs(t, x, p) /\ d = SideOf(t, x)
    /\ Coloured(t, T, B, p, d, Sentinel) /\ B[w] = B[x] + 1

\* The sibling of an x that lacks a black node is a node.
LEMMA SiblingThere ==
    ASSUME NEW t, NEW T, NEW N, NEW pos, NEW b, Shape(t, T, N, pos, b), ~t.red[t.root],
           NEW x \in T \cup {Sentinel}, ~t.red[x], NEW p \in T, NEW d \in Sides, NEW B,
           x = t.child[d][p], UpIs(t, x, p), Coloured(t, T, B, p, d, Sentinel)
    PROVE  Near(t, T, N, pos, b, B, x, p, d, Opposite[d], t.child[Opposite[d]][p])
<1>1. PICK o \in Sides : o = Opposite[d] /\ d = Opposite[o] /\ o # d
  BY Opposites
<1>2. PICK w \in T \cup {Sentinel} : w = t.child[o][p]
  BY ChildOrNot
<1>3. B \in [Cells -> Nat] /\ B[Sentinel] = 0 /\ ~t.red[Sentinel]
  BY DEF Coloured
<1>4. p \in Cells /\ p # Sentinel /\ x \in Cells /\ w \in Cells
  BY <1>2, NodeFacts, CellFacts
<1>5. B[p] \in Nat /\ B[x] \in Nat /\ B[w] \in Nat
  BY <1>3, <1>4
<1>6. Good(t.red, B, p, d, Sentinel, p, d, x) /\ Good(t.red, B, p, d, Sentinel, p, o, w)
  BY <1>2 DEF Coloured
<1>7. B[w] = B[x] + 1
  <2>1. B[p] = B[x] + (IF t.red[p] THEN 0 ELSE 1) + 1
    BY <1>6 DEF Good
  <2>2. B[p] = B[w] + (IF t.red[p] THEN 0 ELSE 1) + 0
    BY <1>1, <1>6 DEF Good
  <2> QED
    BY <1>5, <2>1, <2>2
<1>8. x # w
  BY <1>5, <1>7
<1>9. w # Sentinel /\ w \in T
  BY <1>2, <1>3, <1>5, <1>7
<1>10. IsChild(t, T, pos, b, p, o, w)
  BY <1>2, <1>9, ChildFacts
<1>11. p # w
  BY <1>10 DEF IsChild
<1>12. x # p
  <2>1. x # Sentinel => IsChild(t, T, pos, b, p, d, x)
    BY ChildFacts
  <2> QED
    BY <1>4, <2>1 DEF IsChild
<1>13. d = SideOf(t, x)
  <2>1. t.parent[x] = p
    BY DEF UpIs
  <2>2. t.child[d][t.parent[x]] = x /\ t.child[o][t.parent[x]] = w
    BY <1>2, <2>1
  <2> QED
    BY ZenonT(60), <1>1, <1>8, <2>2, SideFacts DEF SideOf
<1> QED
  BY <1>1, <1>2, <1>7, <1>8, <1>9, <1>11, <1>12, <1>13 DEF Near

\* The node that lacks a black one has a sibling.
LEMMA LackingNear ==
    ASSUME NEW t, NEW T, NEW N, NEW pos, NEW b, NEW B, NEW x, Lacking(t, T, N, pos, b, B, x),
           ~Done(t, x), NEW p, UpIs(t, x, p), NEW d, d = SideOf(t, x)
    PROVE  Near(t, T, N, pos, b, B, x, p, d, Opposite[d], t.child[Opposite[d]][p])
<1>1. /\ Shape(t, T, N, pos, b) /\ ~t.red[t.root] /\ x \in T \cup {Sentinel}
      /\ x # t.root /\ ~t.red[x] /\ p \in T /\ t.child[d][p] = x /\ Coloured(t, T, B, p, d, x)
      /\ UpIs(t, x, p)
  BY DEF Lacking, Done, UpIs
<1>2. d \in Sides
  BY SideInSides
<1>3. B \in [Cells -> Nat] /\ B[Sentinel] = 0 /\ ~t.red[Sentinel]
  BY <1>1 DEF Coloured
<1>4. ASSUME NEW m \in T, NEW e \in Sides
      PROVE  Good(t.red, B, p, d, Sentinel, m, e, t.child[e][m])
  <2>1. Good(t.red, B, p, d, x, m, e, t.child[e][m])
    BY <1>1 DEF Coloured
  <2> QED
    BY <1>1, <2>1 DEF Good
<1>5. Coloured(t, T, B, p, d, Sentinel)
  BY <1>3, <1>4 DEF Coloured
<1> QED
  BY <1>1, <1>2, <1>5, SiblingThere

\* What is left of a round when x has a black sibling.
SiblingTurned(t, u, T, N, pos, x, p, d, o) ==
    /\ \E a, C, y : Near(u, T, N, pos, a, C, x, p, d, o, y) /\ ~u.red[y]
    /\ Elsewhere(t, u, T) /\ u.red[p] /\ UpIs(u, x, p)
\* With a red sibling, a rotation gives a black one.
LEMMA RedSibling ==
    ASSUME NEW t, NEW T, NEW N, NEW pos, NEW b, NEW B, NEW x, NEW p, NEW d, NEW o, NEW w,
           Near(t, T, N, pos, b, B, x, p, d, o, w), t.red[w],
           NEW v, v = RecolourTop(t, w, p), NEW u, u = Rotate(v, p, d)
    PROVE  SiblingTurned(t, u, T, N, pos, x, p, d, o)
<1>1. /\ Shape(t, T, N, pos, b) /\ ~t.red[t.root] /\ ~t.red[x] /\ x \in T \cup {Sentinel}
      /\ p \in T /\ w \in T /\ d \in Sides /\ o \in Sides
      /\ x = t.child[d][p] /\ w = t.child[o][p] /\ x # w /\ p # w /\ x # p
      /\ UpIs(t, x, p) /\ Coloured(t, T, B, p, d, Sentinel) /\ B[w] = B[x] + 1
  BY ZenonT(60) DEF Near
<1>38. o = Opposite[d]
  BY ZenonT(60) DEF Near
<1>2. o # d
  BY <1>1, <1>38, Opposites
<1>3. B \in [Cells -> Nat] /\ B[Sentinel] = 0 /\ ~t.red[Sentinel]
  BY <1>1 DEF Coloured
<1>4. \A m \in T : m \in Cells /\ m # Sentinel
  BY <1>1, NodeFacts
<1>5. TopRecoloured(t, v, T, w, p)
  <2>1. t \in Trees /\ T \subseteq Nodes
    BY <1>1 DEF Shape, Ordered
  <2> QED
    BY <1>1, <1>3, <2>1, RecolourTopFacts
<1>6. v.child = t.child /\ v.root = t.root /\ v.parent = t.parent /\ Recoloured(t, v)
  BY <1>5 DEF TopRecoloured, Recoloured
<1>7. Shape(v, T, N, pos, b)
  BY ZenonT(60), <1>1, <1>6, RecolouredShape
<1>8. BeforeTurn(v, T, pos, b, p, d, w)
  BY <1>1, <1>38, <1>4, <1>6, <1>7, BeforeTurnFacts
<1>9. PICK inner \in T \cup {Sentinel} : inner = t.child[d][w] /\ inner # w /\ inner # p
  <2>1. v.child[d][w] \in (T \cup {Sentinel}) \ {p, w}
    BY ZenonT(60), <1>8 DEF BeforeTurn
  <2> QED
    BY <1>6, <2>1
<1>10. PICK far \in T \cup {Sentinel} : far = t.child[o][w] /\ far # w
  <2>1. PICK far \in T \cup {Sentinel} : far = t.child[o][w]
    BY <1>1, ChildOrNot
  <2>2. far # Sentinel => IsChild(t, T, pos, b, w, o, far)
    BY <1>1, <2>1, ChildFacts
  <2> QED
    BY <1>1, <1>4, <2>1, <2>2 DEF IsChild
<1>11. far # p
  <2>1. far # Sentinel => IsChild(t, T, pos, b, w, o, far)
    BY <1>1, <1>10, ChildFacts
  <2>2. IsChild(t, T, pos, b, p, o, w)
    BY <1>1, <1>4, ChildFacts
  <2>3. t.parent[w] = p /\ p \in T /\ w \in T
    BY <1>1, <2>2 DEF IsChild
  <2>4. ASSUME far = p PROVE FALSE
    <3>1. IsChild(t, T, pos, b, w, o, p)
      BY <1>4, <1>1, <2>1, <2>4
    <3>2. Width(b, p) < Width(b, w) /\ Width(b, p) \in Int /\ Width(b, w) \in Int
      BY <1>1, <3>1, ChildIsNarrower
    <3>3. Width(b, w) < Width(b, p)
      BY <1>1, <2>2, ChildIsNarrower
    <3> QED
      BY <3>2, <3>3
  <2> QED
    BY <2>4
<1>12. /\ inner \in Cells /\ far \in Cells /\ x \in Cells /\ p \in Cells /\ w \in Cells
       /\ p # Sentinel /\ w # Sentinel
  BY <1>1, <1>4, <1>9, <1>10, CellFacts
<1>13. /\ B[inner] \in Nat /\ B[far] \in Nat /\ B[x] \in Nat /\ B[p] \in Nat /\ B[w] \in Nat
  BY <1>3, <1>12
<1>14. B[w] = B[inner] /\ ~t.red[inner]
  <2>1. Good(t.red, B, p, d, Sentinel, w, d, inner)
    BY <1>1, <1>9 DEF Coloured
  <2> QED
    BY <1>1, <1>3, <1>12, <1>13, <2>1 DEF Good
<1>15. B[w] = B[far] /\ ~t.red[far]
  <2>1. Good(t.red, B, p, d, Sentinel, w, o, far)
    BY <1>1, <1>10 DEF Coloured
  <2> QED
    BY <1>1, <1>3, <1>12, <1>13, <2>1 DEF Good
<1>16. B[p] = B[w] + 1 /\ ~t.red[p]
  <2>1. Good(t.red, B, p, d, Sentinel, p, o, w)
    BY <1>1 DEF Coloured
  <2>2. ~t.red[p]
    BY <1>12, <2>1 DEF Good
  <2> QED
    BY <1>2, <1>13, <2>1, <2>2 DEF Good
<1>17. PICK C : C = [B EXCEPT ![w] = B[p], ![p] = B[w]]
  OBVIOUS
<1>18. C \in [Cells -> Nat] /\ C[w] = B[p] /\ C[p] = B[w] /\ \A k \in Cells : k # w /\ k # p => C[k] = B[k]
  BY ZenonT(60), <1>1, <1>3, <1>12, <1>17
<1>19. C[x] = B[x] /\ C[inner] = B[inner] /\ C[far] = B[far] /\ C[Sentinel] = 0
  BY <1>1, <1>3, <1>9, <1>10, <1>11, <1>12, <1>18, CellFacts
<1>20. ~v.red[w] /\ v.red[p] /\ ~v.red[Sentinel] /\ \A k \in T : k # w /\ k # p => v.red[k] = t.red[k]
  BY ZenonT(60), <1>5 DEF TopRecoloured
<1>21. ~v.red[x] /\ ~v.red[inner] /\ ~v.red[far]
  BY <1>1, <1>9, <1>10, <1>11, <1>14, <1>15, <1>20
<1>22. Reheight(t, v, T, B, C, p, w, far)
  <2>1. far = Sentinel \/ (C[far] = B[far] /\ v.red[far] = t.red[far])
    BY ZenonT(60), <1>10, <1>11, <1>19, <1>20
  <2> QED
    BY <1>4, <1>6, <1>18, <1>19, <1>20, <2>1 DEF Reheight
<1>50. v.red[p] /\ ~v.red[w] /\ ~v.red[x] /\ ~v.red[inner] /\ ~v.red[far] /\ p # w /\ o # d
  BY ZenonT(60), <1>1, <1>2, <1>20, <1>21
<1>51. /\ C[w] = B[p] /\ C[p] = B[w] /\ C[x] = B[x] /\ C[inner] = B[inner] /\ C[far] = B[far]
       /\ B[p] = B[w] + 1 /\ B[w] = B[inner] /\ B[w] = B[far] /\ B[w] = B[x] + 1
  BY ZenonT(60), <1>1, <1>14, <1>15, <1>16, <1>18, <1>19
<1>23. Good(v.red, C, p, d, Sentinel, p, d, x)
  BY <1>13, <1>50, <1>51 DEF Good
<1>24. Good(v.red, C, p, d, Sentinel, p, o, inner)
  BY <1>13, <1>50, <1>51 DEF Good
<1>25. Good(v.red, C, p, d, Sentinel, w, d, p)
  BY <1>13, <1>50, <1>51 DEF Good
<1>26. Good(v.red, C, p, d, Sentinel, w, o, far)
  BY <1>13, <1>50, <1>51 DEF Good
<1>27. Coloured(u, T, C, p, d, Sentinel)
  <2>1. Exempt(p, p, d, p, d)
    BY DEF Exempt
  <2> QED
    BY ZenonT(60), <1>1, <1>38, <1>8, <1>9, <1>10, <1>22, <1>23, <1>24, <1>25, <1>26,
       <2>1, TurnColoured
<1>28. PICK a : a = TurnedBounds(pos, b, p, w, d)
  OBVIOUS
<1>29. Shape(u, T, N, pos, a)
  BY <1>1, <1>7, <1>8, <1>28, RotateShape
<1>30. Turned(v, u, p, d, w) /\ BoundsTurned(pos, b, a, p, w, d)
  BY ZenonT(60), <1>1, <1>7, <1>8, <1>28, RotateTurns
<1>31. TurnChanges(v, T, pos, b, a, u, p, d, o, w, inner)
  BY <1>1, <1>38, <1>6, <1>7, <1>8, <1>9, <1>30, TurnChangesFacts
<1>32. u.child[d][p] = x /\ u.child[o][p] = inner
  <2>1. u.child[d][p] = v.child[d][p] /\ u.child[o][p] = inner
    BY <1>31 DEF TurnChanges
  <2>2. x = t.child[d][p]
    BY ZenonT(60) DEF Near
  <2> QED
    BY <1>6, <2>1, <2>2
<1>33. u.red = v.red /\ u.root = (IF p = t.root THEN w ELSE t.root)
  BY <1>6, <1>30 DEF Turned
<1>34. ~u.red[u.root]
  <2>1. t.root \in T
    BY ZenonT(60), <1>1 DEF Shape, Rooted
  <2> QED
    BY <1>1, <1>20, <1>33, <2>1
<1>35. UpIs(u, x, p)
  <2>1. x # inner \/ x = Sentinel
    <3>1. B[inner] # B[x]
      BY <1>1, <1>13, <1>14
    <3> QED
      BY <3>1
  <2>2. u.parent[x] = ParentTurned(v, p, d, w, x)
    BY ZenonT(60), <1>12, <1>30 DEF Turned
  <2> QED
    BY <1>1, <1>6, <1>9, <2>1, <2>2 DEF ParentTurned, UpIs
<1>36. Near(u, T, N, pos, a, C, x, p, d, o, inner)
  BY ZenonT(60), <1>1, <1>38, <1>21, <1>27, <1>29, <1>32, <1>33, <1>34, <1>35, SiblingThere
<1>37. Elsewhere(t, u, T)
  <2>1. Elsewhere(v, u, T)
    BY <1>1, <1>7, <1>8, RotateElsewhere
  <2>2. Elsewhere(t, v, T)
    BY <1>6, RecolourElsewhere
  <2> QED
    BY <2>1, <2>2, ElsewhereTwice
<1> QED
  BY <1>20, <1>21, <1>33, <1>35, <1>36, <1>37 DEF SiblingTurned

\* The edge above p, if there is one.
EdgeAbove(t, T, p, q, s) ==
    /\ p = t.root => q = Sentinel /\ s = "left"
    /\ p # t.root => q = t.parent[p] /\ s = SideOf(t, p)
    /\ \A m \in T, e \in Sides : (m = q /\ e = s) <=> t.child[e][m] = p

\* The edge above a node.
LEMMA EdgeAboveFacts ==
    ASSUME NEW t, NEW T, NEW N, NEW pos, NEW b, Shape(t, T, N, pos, b), NEW p \in T,
           NEW q, q = (IF p = t.root THEN Sentinel ELSE t.parent[p]),
           NEW s, s = (IF p = t.root THEN "left" ELSE SideOf(t, p))
    PROVE  EdgeAbove(t, T, p, q, s)
<1>1. \A m \in T : m # Sentinel
  BY NodeFacts
<1>2. ASSUME NEW m \in T, NEW e \in Sides, t.child[e][m] = p PROVE m = q /\ e = s
  <2>1. IsChild(t, T, pos, b, m, e, p)
    BY <1>1, <1>2, ChildFacts
  <2>2. p # t.root /\ t.parent[p] = m /\ SideOf(t, p) = e
    BY <2>1 DEF IsChild
  <2> QED
    BY <2>2
<1>3. ASSUME NEW m \in T, NEW e \in Sides, m = q, e = s PROVE t.child[e][m] = p
  <2>1. p # t.root
    BY <1>1, <1>3
  <2>2. IsChild(t, T, pos, b, t.parent[p], SideOf(t, p), p)
    BY <2>1, ParentFacts
  <2>3. t.child[SideOf(t, p)][t.parent[p]] = p
    BY <2>2 DEF IsChild
  <2>4. q = t.parent[p] /\ s = SideOf(t, p)
    BY ZenonT(60), <2>1
  <2> QED
    BY <1>3, <2>3, <2>4
<1> QED
  BY <1>2, <1>3 DEF EdgeAbove

\* What a recolouring of the sibling leaves.
NephewsDone(t, u, T, N, pos, b, p) ==
    /\ \E C : Lacking(u, T, N, pos, b, C, p)
    /\ Elsewhere(t, u, T) /\ Recoloured(t, u) /\ u.red[p] = t.red[p]

\* With black nephews the lack moves up to the parent.
LEMMA BlackNephews ==
    ASSUME NEW t, NEW T, NEW N, NEW pos, NEW b, NEW B, NEW x, NEW p, NEW d, NEW o, NEW w,
           Near(t, T, N, pos, b, B, x, p, d, o, w), ~t.red[w],
           \A e \in Sides : ~t.red[t.child[e][w]], NEW u, u = WithRed(t, w, TRUE)
    PROVE  NephewsDone(t, u, T, N, pos, b, p)
<1>1. /\ Shape(t, T, N, pos, b) /\ ~t.red[t.root] /\ ~t.red[x] /\ x \in T \cup {Sentinel}
      /\ p \in T /\ w \in T /\ d \in Sides /\ o \in Sides
      /\ x = t.child[d][p] /\ w = t.child[o][p] /\ x # w /\ p # w /\ x # p
      /\ Coloured(t, T, B, p, d, Sentinel) /\ B[w] = B[x] + 1
  BY ZenonT(60) DEF Near
<1>2. o # d /\ \A e \in Sides : e = d \/ e = o
  <2>1. o = Opposite[d]
    BY ZenonT(60) DEF Near
  <2> QED
    BY ZenonT(60), <1>1, <2>1, Opposites
<1>3. B \in [Cells -> Nat] /\ B[Sentinel] = 0 /\ ~t.red[Sentinel]
  BY <1>1 DEF Coloured
<1>4. \A m \in T : m \in Cells /\ m # Sentinel
  BY <1>1, NodeFacts
<1>5. t \in Trees /\ w \in Cells /\ p \in Cells /\ x \in Cells /\ Sentinel \in Cells
  BY <1>1, <1>4, CellFacts DEF Shape
<1>6. OneRed(t, u, w, TRUE)
  BY <1>5, RecolourOne
<1>7. Recoloured(t, u) /\ u.child = t.child /\ u.root = t.root /\ u.parent = t.parent
  BY <1>6 DEF OneRed, Recoloured
<1>8. u.red[w] /\ \A k \in Cells : k # w => u.red[k] = t.red[k]
  BY <1>6 DEF OneRed
<1>9. Shape(u, T, N, pos, b) /\ Elsewhere(t, u, T)
  BY <1>1, <1>7, RecolouredShape, RecolourElsewhere
<1>10. PICK q : q = (IF p = t.root THEN Sentinel ELSE t.parent[p])
  OBVIOUS
<1>11. PICK s : s = (IF p = t.root THEN "left" ELSE SideOf(t, p))
  OBVIOUS
<1>12. EdgeAbove(t, T, p, q, s)
  BY <1>1, <1>10, <1>11, EdgeAboveFacts
<1>13. B[p] \in Nat /\ B[w] \in Nat /\ B[x] \in Nat
  BY <1>3, <1>5
<1>14. B[p] = B[x] + (IF t.red[p] THEN 0 ELSE 1) + 1
  <2>1. Good(t.red, B, p, d, Sentinel, p, d, x)
    BY <1>1 DEF Coloured
  <2> QED
    BY <2>1 DEF Good
<1>15. B[p] - 1 \in Nat /\ B[w] - 1 \in Nat
  BY SMTT(40), <1>1, <1>13, <1>14
<1>16. PICK C : C = [B EXCEPT ![w] = B[w] - 1, ![p] = B[p] - 1]
  OBVIOUS
<1>17. /\ C \in [Cells -> Nat] /\ C[w] = B[w] - 1 /\ C[p] = B[p] - 1
       /\ \A k \in Cells : k # w /\ k # p => C[k] = B[k]
  BY ZenonT(60), <1>1, <1>3, <1>5, <1>15, <1>16
<1>18. C[Sentinel] = 0 /\ ~u.red[Sentinel] /\ C[x] = B[x]
  BY <1>1, <1>3, <1>4, <1>5, <1>8, <1>17
<1>19. ASSUME NEW m \in T, NEW e \in Sides PROVE Good(u.red, C, q, s, p, m, e, u.child[e][m])
  <2>1. PICK c \in T \cup {Sentinel} : c = t.child[e][m] /\ c = u.child[e][m]
    BY <1>1, <1>7, ChildOrNot
  <2> SUFFICES Good(u.red, C, q, s, p, m, e, c)
    BY ZenonT(60), <2>1
  <2>2. Good(t.red, B, p, d, Sentinel, m, e, c)
    BY <1>1, <2>1 DEF Coloured
  <2>3. c \in Cells /\ m \in Cells /\ m # Sentinel /\ B[m] \in Nat /\ B[c] \in Nat
    BY <1>3, <1>4, <2>1, CellFacts
  <2>4. (m = q /\ e = s) <=> c = p
    BY <1>12, <2>1 DEF EdgeAbove
  <2>5. c # Sentinel => IsChild(t, T, pos, b, m, e, c)
    BY <1>1, <2>1, ChildFacts
  <2>6. c # m
    BY <2>3, <2>5 DEF IsChild
  <2>7. IsChild(t, T, pos, b, p, o, w)
    BY <1>1, <1>4, ChildFacts
  <2>8. c = w => m = p /\ e = o
    <3>1. ASSUME c = w PROVE m = p /\ e = o
      <4>1. t.parent[w] = m /\ SideOf(t, w) = e
        BY <1>4, <1>1, <2>5, <3>1 DEF IsChild
      <4>2. t.parent[w] = p /\ SideOf(t, w) = o
        BY <2>7 DEF IsChild
      <4> QED
        BY <4>1, <4>2
    <3> QED
      BY <3>1
  <2>12. PICK r \in {0, 1} : r = (IF t.red[m] THEN 0 ELSE 1)
    OBVIOUS
  <2>13. PICK z \in {0, 1} : z = (IF m = q /\ e = s THEN 1 ELSE 0) /\ z = (IF c = p THEN 1 ELSE 0)
    BY <2>4
  <2>9. CASE m = w
    <3>1. c # p
      <4>1. ASSUME c = p PROVE FALSE
        <5>1. IsChild(t, T, pos, b, w, e, p)
          BY <1>4, <1>1, <2>5, <2>9, <4>1
        <5>2. Width(b, p) < Width(b, w) /\ Width(b, p) \in Int /\ Width(b, w) \in Int
          BY <1>1, <5>1, ChildIsNarrower
        <5>3. Width(b, w) < Width(b, p)
          BY <1>1, <2>7, ChildIsNarrower
        <5> QED
          BY <5>2, <5>3
      <4> QED
        BY <4>1
    <3>2. C[c] = B[c] /\ C[m] = B[m] - 1 /\ c # w
      BY <1>17, <2>3, <2>6, <2>9, <3>1
    <3>3. ~t.red[c] /\ ~t.red[m]
      BY <2>1, <2>9
    <3>4. ~u.red[c] /\ u.red[m]
      BY <1>8, <2>3, <2>9, <3>2, <3>3
    <3>5. B[m] = B[c] + 1 + 0
      BY <1>1, <2>2, <2>9, <3>3 DEF Good
    <3>6. C[m] = C[c] + (IF u.red[m] THEN 0 ELSE 1) + (IF m = q /\ e = s THEN 1 ELSE 0)
      BY <2>3, <2>4, <3>1, <3>2, <3>4, <3>5
    <3> QED
      BY <3>4, <3>6 DEF Good
  <2>10. CASE m = p
    <3>1. u.red[m] = t.red[m] /\ C[m] = B[m] - 1 /\ c # p
      BY <1>1, <1>5, <1>8, <1>17, <2>6, <2>10
    <3>4. r = (IF u.red[m] THEN 0 ELSE 1) /\ z = 0
      BY <2>12, <2>13, <3>1
    <3>2. CASE e = o
      <4>1. c = w
        BY <1>1, <2>1, <2>10, <3>2
      <4>2. B[m] = B[c] + r + 0
        BY <1>2, <2>2, <2>12, <3>2 DEF Good
      <4>3. C[c] = B[c] - 1
        BY <1>17, <4>1
      <4>5. C[m] = C[c] + r + z
        BY <2>3, <3>1, <3>4, <4>2, <4>3
      <4>4. C[m] = C[c] + (IF u.red[m] THEN 0 ELSE 1) + (IF m = q /\ e = s THEN 1 ELSE 0)
        BY <2>13, <3>4, <4>5
      <4> QED
        BY <2>10, <4>4 DEF Good
    <3>3. CASE e = d
      <4>1. c = x
        BY <1>1, <2>1, <2>10, <3>3
      <4>2. B[m] = B[c] + r + 1
        BY <2>2, <2>10, <2>12, <3>3 DEF Good
      <4>3. C[c] = B[c]
        BY <1>18, <4>1
      <4>5. C[m] = C[c] + r + z
        BY <2>3, <3>1, <3>4, <4>2, <4>3
      <4>4. C[m] = C[c] + (IF u.red[m] THEN 0 ELSE 1) + (IF m = q /\ e = s THEN 1 ELSE 0)
        BY <2>13, <3>4, <4>5
      <4> QED
        BY <2>10, <4>4 DEF Good
    <3> QED
      BY ZenonT(60), <1>2, <3>2, <3>3
  <2>11. CASE m # w /\ m # p
    <3>1. c # w
      BY <2>8, <2>11
    <3>2. u.red[m] = t.red[m] /\ u.red[c] = t.red[c] /\ C[m] = B[m]
      BY <1>8, <1>17, <2>3, <2>11, <3>1
    <3>3. B[m] = B[c] + r + 0
      BY <2>2, <2>11, <2>12 DEF Good
    <3>4. C[c] = B[c] - z
      BY <1>17, <2>3, <2>13, <3>1
    <3>7. r = (IF u.red[m] THEN 0 ELSE 1)
      BY <2>12, <3>2
    <3>8. C[m] = C[c] + r + z
      BY <2>3, <3>2, <3>3, <3>4
    <3>5. C[m] = C[c] + (IF u.red[m] THEN 0 ELSE 1) + (IF m = q /\ e = s THEN 1 ELSE 0)
      BY <2>13, <3>7, <3>8
    <3>6. ~(u.red[m] /\ u.red[c])
      <4>1. t.red[m] /\ t.red[c] => Sentinel \in {m, c}
        BY <2>2 DEF Good
      <4> QED
        BY <1>3, <2>3, <3>2, <4>1
    <3> QED
      BY <3>5, <3>6 DEF Good
  <2> QED
    BY ZenonT(60), <2>9, <2>10, <2>11
<1>20. Coloured(u, T, C, q, s, p)
  BY ZenonT(60), <1>17, <1>18, <1>19 DEF Coloured
<1>21. ~u.red[u.root]
  <2>1. t.root \in T /\ t.root # w
    <3>1. IsChild(t, T, pos, b, p, o, w)
      BY <1>1, <1>4, ChildFacts
    <3> QED
      BY <1>1, <3>1 DEF Shape, Rooted, IsChild
  <2> QED
    BY <1>1, <1>4, <1>7, <1>8, <2>1
<1>22. SideOf(u, p) = SideOf(t, p)
  BY <1>7 DEF SideOf
<1>23. p # t.root => t.parent[p] \in T /\ t.child[SideOf(t, p)][t.parent[p]] = p
  <2>1. p # t.root => t.parent[p] \in T /\ IsChild(t, T, pos, b, t.parent[p], SideOf(t, p), p)
    BY <1>1, ParentFacts
  <2> QED
    BY <2>1 DEF IsChild
<1>24. Lacking(u, T, N, pos, b, C, p)
  <2>1. CASE p = t.root
    <3>1. q = Sentinel /\ s = "left"
      BY ZenonT(60), <1>10, <1>11, <2>1
    <3> QED
      BY ZenonT(60), <1>1, <1>7, <1>9, <1>20, <1>21, <2>1, <3>1 DEF Lacking
  <2>2. CASE p # t.root
    <3>1. q = t.parent[p] /\ s = SideOf(t, p)
      BY <1>10, <1>11, <2>2
    <3>2. u.child[SideOf(u, p)][u.parent[p]] = p /\ u.parent[p] \in T
      BY <1>7, <1>22, <1>23, <2>2
    <3>3. Coloured(u, T, C, u.parent[p], SideOf(u, p), p)
      BY <1>7, <1>20, <1>22, <3>1
    <3> QED
      BY <1>1, <1>7, <1>9, <1>21, <2>2, <3>2, <3>3 DEF Lacking
  <2> QED
    BY <2>1, <2>2
<1> QED
  BY <1>1, <1>5, <1>7, <1>8, <1>9, <1>24 DEF NephewsDone

\* No two generations are the other way round.
LEMMA Generations ==
    ASSUME NEW t, NEW T, NEW N, NEW pos, NEW b, Shape(t, T, N, pos, b),
           NEW p \in T, NEW w \in T, NEW c, NEW d \in Sides, NEW e \in Sides,
           w = t.child[d][p], c = t.child[e][w], c # Sentinel
    PROVE  c # p /\ c # w /\ c \in T
<1>0. w # Sentinel
  BY NodeFacts
<1>1. IsChild(t, T, pos, b, p, d, w) /\ IsChild(t, T, pos, b, w, e, c)
  BY <1>0, ChildFacts
<1>2. Width(b, w) < Width(b, p) /\ Width(b, w) \in Int /\ Width(b, p) \in Int
  BY <1>1, ChildIsNarrower
<1>3. Width(b, c) < Width(b, w) /\ Width(b, c) \in Int
  BY <1>1, ChildIsNarrower
<1>4. c \in T /\ c # w
  BY <1>1 DEF IsChild
<1> QED
  BY <1>2, <1>3, <1>4

\* The black nephew is the far one: w goes below the near one.
LEMMA FarNephewBlack ==
    ASSUME NEW t, NEW T, NEW N, NEW pos, NEW b, NEW B, NEW x, NEW p, NEW d, NEW o, NEW w,
           Near(t, T, N, pos, b, B, x, p, d, o, w), ~t.red[w],
           NEW near, t.child[d][w] = near, t.red[near], ~t.red[t.child[o][w]],
           NEW v, v = RecolourTop(t, near, w), NEW u, u = Rotate(v, w, o)
    PROVE  /\ \E a, C : Near(u, T, N, pos, a, C, x, p, d, o, near)
           /\ ~u.red[near] /\ u.red[u.child[o][near]] /\ Elsewhere(t, u, T)
<1>1. /\ Shape(t, T, N, pos, b) /\ ~t.red[t.root] /\ ~t.red[x] /\ x \in T \cup {Sentinel}
      /\ p \in T /\ w \in T /\ d \in Sides /\ o \in Sides
      /\ x = t.child[d][p] /\ w = t.child[o][p] /\ x # w /\ p # w /\ x # p
      /\ Coloured(t, T, B, p, d, Sentinel) /\ B[w] = B[x] + 1
  BY ZenonT(60) DEF Near
<1>44. /\ Shape(t, T, N, pos, b) /\ Coloured(t, T, B, p, d, Sentinel)
       /\ p \in T /\ w \in T /\ d \in Sides /\ o \in Sides /\ p # w
  BY ZenonT(60) DEF Near
<1>2. UpIs(t, x, p)
  BY ZenonT(60) DEF Near
<1>3. Opposite[o] = d
  BY ZenonT(60) DEF Near
<1>4. o # d /\ \A e \in Sides : e = d \/ e = o
  BY <1>1, <1>3, Opposites
<1>5. B \in [Cells -> Nat] /\ B[Sentinel] = 0 /\ ~t.red[Sentinel]
  BY <1>1 DEF Coloured
<1>6. \A m \in T : m \in Cells /\ m # Sentinel
  BY <1>1, NodeFacts
<1>7. near # Sentinel /\ near \in T /\ near # p /\ near # w
  <2>1. near # Sentinel
    BY <1>5
  <2> QED
    BY <1>1, <2>1, Generations
<1>8. TopRecoloured(t, v, T, near, w)
  <2>1. t \in Trees /\ T \subseteq Nodes
    BY <1>1 DEF Shape, Ordered
  <2> QED
    BY <1>1, <1>5, <1>7, <2>1, RecolourTopFacts
<1>9. v.child = t.child /\ v.root = t.root /\ v.parent = t.parent /\ Recoloured(t, v)
  BY <1>8 DEF TopRecoloured, Recoloured
<1>10. Shape(v, T, N, pos, b)
  BY <1>1, <1>9, RecolouredShape
<1>11. BeforeTurn(v, T, pos, b, w, o, near)
  BY <1>1, <1>3, <1>7, <1>9, <1>10, BeforeTurnFacts
<1>12. PICK inner \in T \cup {Sentinel} : inner = t.child[o][near] /\ inner # w /\ inner # near
  <2>1. v.child[o][near] \in (T \cup {Sentinel}) \ {w, near}
    BY <1>11 DEF BeforeTurn
  <2> QED
    BY ZenonT(60), <1>9, <2>1
<1>13. PICK far \in T \cup {Sentinel} : far = t.child[d][near] /\ far # w /\ far # near
  <2>1. PICK far \in T \cup {Sentinel} : far = t.child[d][near]
    BY <1>1, <1>7, ChildOrNot
  <2>2. far # Sentinel => far # w /\ far # near
    BY <1>1, <1>7, <2>1, Generations
  <2> QED
    BY <1>6, <1>1, <1>7, <2>1, <2>2
<1>14. PICK out \in T \cup {Sentinel} : out = t.child[o][w] /\ out # w /\ out # near
  <2>1. PICK out \in T \cup {Sentinel} : out = t.child[o][w]
    BY <1>1, ChildOrNot
  <2>2. out # Sentinel => out # w
    BY <1>1, <2>1, Generations
  <2>3. out # near
    BY <2>1
  <2> QED
    BY <1>6, <1>1, <2>1, <2>2, <2>3
<1>15. /\ inner \in Cells /\ far \in Cells /\ out \in Cells /\ w \in Cells /\ near \in Cells
       /\ x \in Cells /\ w # Sentinel /\ near # Sentinel
  BY <1>1, <1>6, <1>7, <1>12, <1>13, <1>14, CellFacts
<1>16. /\ B[inner] \in Nat /\ B[far] \in Nat /\ B[out] \in Nat /\ B[w] \in Nat /\ B[near] \in Nat
  BY <1>5, <1>15
<1>17. B[near] = B[inner] /\ ~t.red[inner]
  <2>1. Good(t.red, B, p, d, Sentinel, near, o, inner)
    BY <1>1, <1>7, <1>12 DEF Coloured
  <2> QED
    BY <1>5, <1>7, <1>15, <1>16, <2>1 DEF Good
<1>18. B[near] = B[far] /\ ~t.red[far]
  <2>1. Good(t.red, B, p, d, Sentinel, near, d, far)
    BY <1>1, <1>7, <1>13 DEF Coloured
  <2> QED
    BY <1>5, <1>7, <1>15, <1>16, <2>1 DEF Good
<1>19. B[w] = B[near] + 1
  <2>1. Good(t.red, B, p, d, Sentinel, w, d, near)
    BY <1>1 DEF Coloured
  <2> QED
    BY <1>1, <1>16, <2>1 DEF Good
<1>20. B[w] = B[out] + 1 /\ ~t.red[out]
  <2>1. Good(t.red, B, p, d, Sentinel, w, o, out)
    BY <1>1, <1>14 DEF Coloured
  <2>2. ~t.red[out]
    BY <1>14
  <2> QED
    BY <1>1, <1>16, <2>1, <2>2 DEF Good
<1>21. PICK C : C = [B EXCEPT ![near] = B[w], ![w] = B[near]]
  OBVIOUS
<1>22. /\ C \in [Cells -> Nat] /\ C[near] = B[w] /\ C[w] = B[near]
       /\ \A k \in Cells : k # w /\ k # near => C[k] = B[k]
  BY <1>5, <1>7, <1>15, <1>21
<1>23. C[inner] = B[inner] /\ C[far] = B[far] /\ C[out] = B[out] /\ C[Sentinel] = 0
  BY <1>5, <1>12, <1>13, <1>14, <1>15, <1>22, CellFacts
<1>24. /\ ~v.red[near] /\ v.red[w] /\ ~v.red[Sentinel]
       /\ \A k \in T : k # w /\ k # near => v.red[k] = t.red[k]
  BY <1>8 DEF TopRecoloured
<1>25. ~v.red[inner] /\ ~v.red[out]
  BY <1>12, <1>14, <1>17, <1>20, <1>24
<1>26. Reheight(t, v, T, B, C, w, near, far)
  <2>1. far = Sentinel \/ (C[far] = B[far] /\ v.red[far] = t.red[far])
    BY ZenonT(60), <1>13, <1>23, <1>24
  <2> QED
    BY <1>6, <1>9, <1>22, <1>23, <1>24, <2>1 DEF Reheight
<1>50. ~v.red[near] /\ v.red[w] /\ ~v.red[inner] /\ ~v.red[out] /\ near # w /\ w # p /\ o # d
  BY ZenonT(60), <1>1, <1>4, <1>7, <1>24, <1>25
<1>51. /\ C[near] = B[w] /\ C[w] = B[near] /\ C[inner] = B[inner] /\ C[far] = B[far]
       /\ C[out] = B[out] /\ B[near] = B[inner] /\ B[near] = B[far]
       /\ B[w] = B[near] + 1 /\ B[w] = B[out] + 1
  BY ZenonT(60), <1>17, <1>18, <1>19, <1>20, <1>22, <1>23
<1>27. Good(v.red, C, p, d, Sentinel, w, o, out)
  BY <1>16, <1>50, <1>51 DEF Good
<1>28. Good(v.red, C, p, d, Sentinel, w, d, inner)
  BY <1>16, <1>50, <1>51 DEF Good
<1>29. Good(v.red, C, p, d, Sentinel, near, o, w)
  BY <1>16, <1>50, <1>51 DEF Good
<1>30. Good(v.red, C, p, d, Sentinel, near, d, far)
  BY <1>7, <1>16, <1>18, <1>19, <1>22, <1>23, <1>24 DEF Good
<1>31. Coloured(u, T, C, p, d, Sentinel)
  <2>1. Exempt(w, p, d, p, d)
    BY ZenonT(60) DEF Exempt
  <2> QED
    BY ZenonT(60), <1>44, <1>3, <1>11, <1>12, <1>13, <1>14, <1>26, <1>27, <1>28, <1>29,
       <1>30, <2>1, TurnColoured
<1>32. PICK a : a = TurnedBounds(pos, b, w, near, o)
  OBVIOUS
<1>33. Shape(u, T, N, pos, a)
  BY <1>1, <1>10, <1>11, <1>32, RotateShape
<1>34. Turned(v, u, w, o, near) /\ BoundsTurned(pos, b, a, w, near, o)
  BY <1>1, <1>10, <1>11, <1>32, RotateTurns
<1>35. TurnChanges(v, T, pos, b, a, u, w, o, d, near, inner)
  BY <1>1, <1>3, <1>9, <1>10, <1>11, <1>12, <1>34, TurnChangesFacts
<1>36. IsChild(t, T, pos, b, p, o, w)
  BY <1>1, <1>6, ChildFacts
<1>37. w # t.root /\ t.parent[w] = p /\ SideOf(v, w) = o /\ v.parent[w] = p /\ w # v.root
  BY <1>9, <1>36 DEF IsChild, SideOf
<1>38. u.child[o][p] = near /\ u.child[d][p] = x /\ u.child[o][near] = w
  <2>1. /\ u.child[o][near] = w
        /\ \A i \in T, f \in Sides : i # w /\ i # near =>
             IF w # v.root /\ i = v.parent[w] /\ f = SideOf(v, w) THEN u.child[f][i] = near
             ELSE u.child[f][i] = v.child[f][i]
    BY <1>35 DEF TurnChanges
  <2>2. u.child[o][p] = near
    BY <1>44, <1>7, <1>37, <2>1
  <2>3. u.child[d][p] = v.child[d][p]
    BY <1>44, <1>4, <1>7, <1>37, <2>1
  <2> QED
    BY ZenonT(60), <1>1, <1>9, <2>1, <2>2, <2>3
<1>39. u.red = v.red /\ u.root = t.root
  BY ZenonT(60), <1>9, <1>34, <1>37 DEF Turned
<1>40. ~u.red[u.root] /\ ~u.red[x]
  <2>1. t.root \in T /\ t.root # w /\ t.root # near
    BY ZenonT(60), <1>1, <1>9, <1>11, <1>37 DEF Shape, Rooted, BeforeTurn
  <2>2. x # near
    BY <1>1
  <2> QED
    BY ZenonT(60), <1>1, <1>24, <1>39, <2>1, <2>2
<1>41. UpIs(u, x, p)
  <2>1. t.parent[x] = p
    BY <1>2 DEF UpIs
  <2>2. inner # Sentinel => IsChild(t, T, pos, b, near, o, inner)
    BY <1>1, <1>7, <1>12, ChildFacts
  <2>3. inner # Sentinel => t.parent[inner] = near
    BY <2>2 DEF IsChild
  <2>4. ~(x = inner /\ x # Sentinel)
    BY <1>7, <2>1, <2>3
  <2>5. u.parent[x] = ParentTurned(v, w, o, near, x)
    BY <1>15, <1>34 DEF Turned
  <2>6. x # near /\ x # w
    BY <1>1
  <2>7. u.parent[x] = v.parent[x]
    BY <1>9, <1>12, <2>4, <2>5, <2>6 DEF ParentTurned
  <2> QED
    BY <1>9, <2>1, <2>7 DEF UpIs
<1>42. Near(u, T, N, pos, a, C, x, p, d, o, near)
  <2>1. o = Opposite[d]
    BY ZenonT(60) DEF Near
  <2>2. x = u.child[d][p]
    BY ZenonT(60), <1>38
  <2>3. Near(u, T, N, pos, a, C, x, p, d, Opposite[d], u.child[Opposite[d]][p])
    BY <1>1, <1>31, <1>33, <1>40, <1>41, <2>2, SiblingThere
  <2> QED
    BY <1>38, <2>1, <2>3
<1>43. Elsewhere(t, u, T)
  <2>1. Elsewhere(v, u, T)
    BY <1>1, <1>10, <1>11, RotateElsewhere
  <2>2. Elsewhere(t, v, T)
    BY <1>9, RecolourElsewhere
  <2> QED
    BY <2>1, <2>2, ElsewhereTwice
<1> QED
  BY <1>24, <1>38, <1>39, <1>42, <1>43

\* w takes the colour of p, which becomes black like the far nephew.
RecolourFar(t, w, p, far) == [t EXCEPT !.red[w] = t.red[p], !.red[p] = FALSE, !.red[far] = FALSE]

FarRecoloured(t, u, T, w, p, far) ==
    /\ Recoloured(t, u) /\ u.red[w] = t.red[p] /\ ~u.red[p] /\ ~u.red[far] /\ ~u.red[Sentinel]
    /\ \A k \in T : k # w /\ k # p /\ k # far => u.red[k] = t.red[k]

\* The colours before the last rotation of a repair.
LEMMA RecolourFarFacts ==
    ASSUME NEW t \in Trees, NEW T, T \subseteq Nodes, NEW w \in T, NEW p \in T, NEW far \in T,
           w # p, w # far, p # far, ~t.red[Sentinel],
           NEW u, u = RecolourFar(t, w, p, far)
    PROVE  FarRecoloured(t, u, T, w, p, far)
<1>1. \A k \in T : k \in Cells /\ k # Sentinel
  BY CellFacts
<1>2. w \in Cells /\ p \in Cells /\ far \in Cells /\ t.red[p] \in BOOLEAN /\ Sentinel \in Cells
  <2>1. w \in Cells /\ p \in Cells /\ far \in Cells
    BY <1>1
  <2>2. t.red \in [Cells -> BOOLEAN]
    BY TreeFields
  <2> QED
    BY <2>1, <2>2, CellFacts
<1>3. PICK v : v = WithRed(t, w, t.red[p])
  OBVIOUS
<1>4. PICK v2 : v2 = WithRed(v, p, FALSE)
  OBVIOUS
<1>5. u = WithRed(v2, far, FALSE)
  BY <1>3, <1>4 DEF RecolourFar, WithRed
<1>6. OneRed(t, v, w, t.red[p])
  BY <1>2, <1>3, RecolourOne
<1>7. v \in Trees /\ FALSE \in BOOLEAN
  BY <1>6 DEF OneRed, Recoloured
<1>8. OneRed(v, v2, p, FALSE)
  BY <1>2, <1>4, <1>7, RecolourOne
<1>9. v2 \in Trees
  BY <1>8 DEF OneRed, Recoloured
<1>10. OneRed(v2, u, far, FALSE)
  BY <1>2, <1>5, <1>7, <1>9, RecolourOne
<1>11. Recoloured(t, u)
  BY <1>6, <1>8, <1>10, RecolourTwice DEF OneRed
<1>12. \A k \in Cells : k # w /\ k # p /\ k # far => u.red[k] = t.red[k]
  BY <1>6, <1>8, <1>10 DEF OneRed
<1>13. u.red[w] = t.red[p] /\ ~u.red[p] /\ ~u.red[far]
  BY <1>2, <1>6, <1>8, <1>10 DEF OneRed
<1>14. ~u.red[Sentinel]
  BY <1>1, <1>2, <1>12
<1> QED
  BY <1>1, <1>11, <1>12, <1>13, <1>14 DEF FarRecoloured

\* With a red outer nephew, a rotation repairs the tree.
LEMMA FarNephewRed ==
    ASSUME NEW t, NEW T, NEW N, NEW pos, NEW b, NEW B, NEW x, NEW p, NEW d, NEW o, NEW w,
           Near(t, T, N, pos, b, B, x, p, d, o, w), ~t.red[w],
           NEW far, t.child[o][w] = far, t.red[far],
           NEW v, v = RecolourFar(t, w, p, far), NEW u, u = Rotate(v, p, d)
    PROVE  (\E a, C : Lacking(u, T, N, pos, a, C, u.root)) /\ Elsewhere(t, u, T)
<1>1. /\ Shape(t, T, N, pos, b) /\ ~t.red[t.root] /\ ~t.red[x] /\ x \in T \cup {Sentinel}
      /\ p \in T /\ w \in T /\ d \in Sides /\ o \in Sides
      /\ t.child[d][p] = x /\ t.child[o][p] = w /\ x # w /\ p # w /\ x # p
      /\ Coloured(t, T, B, p, d, Sentinel) /\ B[w] = B[x] + 1
  BY ZenonT(60) DEF Near
<1>2. o = Opposite[d]
  BY ZenonT(60) DEF Near
<1>3. /\ Shape(t, T, N, pos, b) /\ Coloured(t, T, B, p, d, Sentinel)
      /\ p \in T /\ w \in T /\ d \in Sides /\ o \in Sides
  BY ZenonT(60) DEF Near
<1>4. o # d
  BY <1>1, <1>2, Opposites
<1>5. B \in [Cells -> Nat] /\ B[Sentinel] = 0 /\ ~t.red[Sentinel]
  BY <1>1 DEF Coloured
<1>6. \A m \in T : m \in Cells /\ m # Sentinel
  BY <1>1, NodeFacts
<1>7. far # Sentinel /\ far \in T /\ far # p /\ far # w
  <2>1. far # Sentinel
    BY <1>5
  <2> QED
    BY <1>1, <2>1, Generations
<1>8. FarRecoloured(t, v, T, w, p, far)
  <2>1. t \in Trees /\ T \subseteq Nodes
    BY <1>1 DEF Shape, Ordered
  <2> QED
    BY <1>1, <1>5, <1>7, <2>1, RecolourFarFacts
<1>9. v.child = t.child /\ v.root = t.root /\ v.parent = t.parent /\ Recoloured(t, v)
  BY <1>8 DEF FarRecoloured, Recoloured
<1>10. Shape(v, T, N, pos, b)
  BY ZenonT(60), <1>1, <1>9, RecolouredShape
<1>11. BeforeTurn(v, T, pos, b, p, d, w)
  <2>1. w = v.child[Opposite[d]][p] /\ w # Sentinel
    BY <1>1, <1>2, <1>6, <1>9
  <2> QED
    BY <1>3, <1>10, <2>1, BeforeTurnFacts
<1>12. PICK near \in T \cup {Sentinel} : near = t.child[d][w] /\ near # p /\ near # w
  <2>1. v.child[d][w] \in (T \cup {Sentinel}) \ {p, w}
    BY ZenonT(60), <1>11 DEF BeforeTurn
  <2> QED
    BY ZenonT(60), <1>9, <2>1
<1>13. near # far
  <2>1. IsChild(t, T, pos, b, w, o, far)
    BY <1>1, <1>7, ChildFacts
  <2>2. t.child[Opposite[o]][w] # far
    BY <2>1 DEF IsChild
  <2>3. d = Opposite[o]
    BY ZenonT(60) DEF Near
  <2> QED
    BY <1>12, <2>2, <2>3
<1>14. /\ near \in Cells /\ far \in Cells /\ w \in Cells /\ p \in Cells /\ x \in Cells
       /\ w # Sentinel /\ p # Sentinel
  BY <1>1, <1>6, <1>7, <1>12, CellFacts
<1>15. x # far
  <2>1. IsChild(t, T, pos, b, w, o, far)
    BY <1>1, <1>7, ChildFacts
  <2>2. t.parent[far] = w
    BY <2>1 DEF IsChild
  <2>3. UpIs(t, x, p)
    BY ZenonT(60) DEF Near
  <2> QED
    BY <1>1, <2>2, <2>3 DEF UpIs
<1>16. B[near] \in Nat /\ B[far] \in Nat /\ B[w] \in Nat /\ B[p] \in Nat /\ B[x] \in Nat
  BY <1>5, <1>14
<1>17. B[w] = B[near] + 1
  <2>1. Good(t.red, B, p, d, Sentinel, w, d, near)
    BY <1>3, <1>12 DEF Coloured
  <2> QED
    BY <1>1, <1>16, <2>1 DEF Good
<1>18. B[w] = B[far] + 1
  <2>1. Good(t.red, B, p, d, Sentinel, w, o, far)
    BY <1>1 DEF Coloured
  <2> QED
    BY <1>1, <1>16, <2>1 DEF Good
<1>19. PICK r \in {0, 1} : r = (IF t.red[p] THEN 0 ELSE 1)
  OBVIOUS
<1>20. B[p] = B[w] + r
  <2>1. Good(t.red, B, p, d, Sentinel, p, o, w)
    BY <1>1 DEF Coloured
  <2> QED
    BY <1>4, <1>16, <1>19, <2>1 DEF Good
<1>21. PICK C : C = [B EXCEPT ![w] = B[p], ![p] = B[w], ![far] = B[far] + 1]
  OBVIOUS
<1>22. /\ C \in [Cells -> Nat] /\ C[w] = B[p] /\ C[p] = B[w] /\ C[far] = B[far] + 1
       /\ \A k \in Cells : k # w /\ k # p /\ k # far => C[k] = B[k]
  BY <1>1, <1>5, <1>7, <1>14, <1>16, <1>21
<1>23. C[near] = B[near] /\ C[x] = B[x] /\ C[Sentinel] = 0
  BY <1>1, <1>5, <1>7, <1>12, <1>13, <1>14, <1>15, <1>22, CellFacts
<1>24. /\ v.red[w] = t.red[p] /\ ~v.red[p] /\ ~v.red[far] /\ ~v.red[Sentinel]
       /\ \A k \in T : k # w /\ k # p /\ k # far => v.red[k] = t.red[k]
  BY <1>8 DEF FarRecoloured
<1>25. Reheight(t, v, T, B, C, p, w, far)
  <2>1. v.red[w] => t.red[p]
    BY <1>24
  <2> QED
    BY <1>6, <1>9, <1>22, <1>23, <1>24, <2>1 DEF Reheight
<1>26. Good(v.red, C, Sentinel, "left", Sentinel, p, d, x)
  BY <1>1, <1>14, <1>16, <1>22, <1>23, <1>24 DEF Good
<1>27. Good(v.red, C, Sentinel, "left", Sentinel, p, o, near)
  BY <1>14, <1>16, <1>17, <1>22, <1>23, <1>24 DEF Good
<1>28. Good(v.red, C, Sentinel, "left", Sentinel, w, d, p)
  <2>1. r = (IF v.red[w] THEN 0 ELSE 1)
    BY <1>19, <1>24
  <2>2. C[w] = C[p] + r + 0
    BY <1>16, <1>20, <1>22
  <2> QED
    BY <1>14, <1>24, <2>1, <2>2 DEF Good
<1>29. Good(v.red, C, Sentinel, "left", Sentinel, w, o, far)
  <2>1. r = (IF v.red[w] THEN 0 ELSE 1)
    BY <1>19, <1>24
  <2>2. C[w] = C[far] + r + 0
    BY <1>16, <1>18, <1>20, <1>22
  <2> QED
    BY <1>14, <1>24, <2>1, <2>2 DEF Good
<1>30. Coloured(u, T, C, Sentinel, "left", Sentinel)
  <2>1. Exempt(p, p, d, Sentinel, "left")
    BY DEF Exempt
  <2>2. Good(v.red, C, Sentinel, "left", Sentinel, p, d, t.child[d][p])
    BY ZenonT(60), <1>1, <1>26
  <2> QED
    BY ZenonT(60), <1>2, <1>3, <1>11, <1>12, <1>25, <1>27, <1>28, <1>29, <2>1, <2>2, TurnColoured
<1>31. PICK a : a = TurnedBounds(pos, b, p, w, d)
  OBVIOUS
<1>32. Shape(u, T, N, pos, a)
  BY <1>3, <1>10, <1>11, <1>31, RotateShape
<1>33. Turned(v, u, p, d, w)
  BY <1>3, <1>10, <1>11, <1>31, RotateTurns
<1>34. u.red = v.red /\ u.root = (IF p = t.root THEN w ELSE t.root)
  BY <1>9, <1>33 DEF Turned
<1>35. ~u.red[u.root]
  <2>1. t.root \in T /\ t.root # w
    BY <1>1, <1>9, <1>11 DEF Shape, Rooted, BeforeTurn
  <2>2. CASE p = t.root
    BY <1>1, <1>24, <1>34, <2>2
  <2>3. CASE p # t.root
    BY <1>1, <1>24, <1>34, <2>1, <2>3
  <2> QED
    BY ZenonT(60), <2>2, <2>3
<1>36. Lacking(u, T, N, pos, a, C, u.root)
  <2>1. u.root \in T
    BY <1>3, <1>32 DEF Shape, Rooted
  <2>2. ASSUME NEW m \in T, NEW e \in Sides
        PROVE  Good(u.red, C, Sentinel, "left", u.root, m, e, u.child[e][m])
    <3>1. Good(u.red, C, Sentinel, "left", Sentinel, m, e, u.child[e][m])
      BY <1>30 DEF Coloured
    <3>2. PICK c \in T \cup {Sentinel} : c = u.child[e][m]
      BY <1>32, ChildOrNot
    <3>3. ~(u.red[m] /\ u.red[c])
      <4>1. m # Sentinel /\ ~u.red[Sentinel]
        BY <1>6, <1>30 DEF Coloured
      <4> QED
        BY <3>1, <3>2, <4>1 DEF Good
    <3> QED
      BY <3>1, <3>2, <3>3 DEF Good
  <2>3. Coloured(u, T, C, Sentinel, "left", u.root)
    BY <1>30, <2>2 DEF Coloured
  <2> QED
    BY <1>32, <1>35, <2>1, <2>3 DEF Lacking
<1>37. Elsewhere(t, u, T)
  <2>1. Elsewhere(v, u, T)
    BY <1>3, <1>10, <1>11, RotateElsewhere
  <2>2. Elsewhere(t, v, T)
    BY ZenonT(60), <1>9, RecolourElsewhere
  <2> QED
    BY <2>1, <2>2, ElsewhereTwice
<1> QED
  BY <1>36, <1>37

\* The steps of a round: x gets a black sibling, the sibling a red child on its
\* far side, and the rotation ends the repair.
First(t, p, d, o) == IF ~t.red[t.child[o][p]] THEN t
                     ELSE Rotate(RecolourTop(t, t.child[o][p], p), p, d)
Lifted(t, d, o, w) == IF t.red[t.child[o][w]] THEN t
                      ELSE Rotate(RecolourTop(t, t.child[d][w], w), w, o)
Turnover(t, x, d, o) ==
    Rotate(RecolourFar(t, t.child[o][t.parent[x]], t.parent[x],
                       t.child[o][t.child[o][t.parent[x]]]), t.parent[x], d)

\* A round from where x has a black sibling.
RestOfRound(t, x, d, o, w) ==
    IF \A e \in Sides : ~t.red[t.child[e][w]]
    THEN [tree |-> [t EXCEPT !.red[w] = TRUE], at |-> t.parent[x]]
    ELSE [tree |-> Turnover(Lifted(t, d, o, w), x, d, o),
          at |-> Turnover(Lifted(t, d, o, w), x, d, o).root]

\* A round from a tree, when its first step gave t1.
AfterFirst(t1, x, d, o) == RestOfRound(t1, x, d, o, t1.child[o][t1.parent[x]])

\* A round in its steps: a red sibling first, then the rest.
LEMMA RepairedSteps ==
    ASSUME NEW t, NEW x
    PROVE  Repaired(t, x) = AfterFirst(First(t, t.parent[x], SideOf(t, x), Opposite[SideOf(t, x)]),
                                         x, SideOf(t, x), Opposite[SideOf(t, x)])
<1>1. WithBlackSibling(t, x, SideOf(t, x)) = First(t, t.parent[x], SideOf(t, x), Opposite[SideOf(t, x)])
  BY ZenonT(60) DEF WithBlackSibling, First, RecolourTop
<1>2. ASSUME NEW t1, NEW d
      PROVE  WithRedOuter(t1, x, d) = Lifted(t1, d, Opposite[d], t1.child[Opposite[d]][t1.parent[x]])
  BY ZenonT(60) DEF WithRedOuter, Lifted, RecolourTop
<1>3. ASSUME NEW t1, NEW d
      PROVE  Balanced(t1, x, d) = Turnover(t1, x, d, Opposite[d])
  BY ZenonT(60) DEF Balanced, Turnover, RecolourFar
<1>4. PICK t1 : t1 = WithBlackSibling(t, x, SideOf(t, x))
  OBVIOUS
<1>5. PICK t3 : t3 = Balanced(WithRedOuter(t1, x, SideOf(t, x)), x, SideOf(t, x))
  OBVIOUS
<1>6. Repaired(t, x) = IF \A e \in Sides : ~t1.red[t1.child[e][t1.child[Opposite[SideOf(t, x)]][t1.parent[x]]]]
                       THEN [tree |-> [t1 EXCEPT !.red[t1.child[Opposite[SideOf(t, x)]][t1.parent[x]]] = TRUE],
                             at |-> t1.parent[x]]
                       ELSE [tree |-> t3, at |-> t3.root]
  BY ZenonT(60), <1>4, <1>5 DEF Repaired
<1>7. t3 = Turnover(Lifted(t1, SideOf(t, x), Opposite[SideOf(t, x)], t1.child[Opposite[SideOf(t, x)]][t1.parent[x]]),
                    x, SideOf(t, x), Opposite[SideOf(t, x)])
  BY ZenonT(60), <1>2, <1>3, <1>5
<1>8. Repaired(t, x) = AfterFirst(t1, x, SideOf(t, x), Opposite[SideOf(t, x)])
  BY ZenonT(60), <1>6, <1>7 DEF AfterFirst, RestOfRound
<1> QED
  BY ZenonT(60), <1>1, <1>4, <1>8

\* What the rest of a round leaves.
RestEnds(t, T, N, pos, b, p, r) ==
    /\ Elsewhere(t, r.tree, T) /\ r = [tree |-> r.tree, at |-> r.at]
    /\ \E a, C : /\ Lacking(r.tree, T, N, pos, a, C, r.at)
                 /\ \/ Done(r.tree, r.at)
                    \/ /\ a = b /\ r.at = p /\ ~t.red[p] /\ p # t.root
                       /\ r.tree.parent = t.parent

\* A round ends repaired or one level up.
LEMMA RestRound ==
    ASSUME NEW t, NEW T, NEW N, NEW pos, NEW b, NEW B, NEW x, NEW p, NEW d, NEW o, NEW w,
           Near(t, T, N, pos, b, B, x, p, d, o, w), ~t.red[w]
    PROVE  RestEnds(t, T, N, pos, b, p, RestOfRound(t, x, d, o, w))
<1>1. t.parent[x] = p /\ t.child[o][p] = w
  BY ZenonT(60) DEF Near, UpIs
<1>2. d \in Sides /\ o \in Sides /\ \A e \in Sides : e = d \/ e = o
  <2>1. d \in Sides /\ o \in Sides /\ o = Opposite[d]
    BY ZenonT(60) DEF Near
  <2> QED
    BY <2>1, Opposites
<1>3. PICK near : t.child[d][w] = near
  OBVIOUS
<1>4. PICK far : t.child[o][w] = far
  OBVIOUS
<1>5. PICK r : r = RestOfRound(t, x, d, o, w)
  OBVIOUS
<1>6. CASE ~t.red[near] /\ ~t.red[far]
  <2>1. PICK u : u = WithRed(t, w, TRUE)
    OBVIOUS
  <2>3. \A e \in Sides : ~t.red[t.child[e][w]]
    BY <1>2, <1>3, <1>4, <1>6
  <2>2. r = [tree |-> u, at |-> p]
    BY <1>1, <1>5, <2>1, <2>3 DEF RestOfRound, WithRed
  <2>9. NephewsDone(t, u, T, N, pos, b, p)
    BY <2>1, <2>3, BlackNephews
  <2>4. PICK C : Lacking(u, T, N, pos, b, C, p)
    BY <2>9 DEF NephewsDone
  <2>5. Elsewhere(t, u, T) /\ Recoloured(t, u) /\ u.red[p] = t.red[p]
    BY <2>9 DEF NephewsDone
  <2>6. r.tree = u /\ r.at = p /\ r = [tree |-> r.tree, at |-> r.at]
    BY <2>2
  <2>7. Done(u, p) \/ (~t.red[p] /\ p # t.root /\ u.parent = t.parent)
    BY <2>5 DEF Done, Recoloured
  <2>8. RestEnds(t, T, N, pos, b, p, r)
    BY <2>4, <2>5, <2>6, <2>7 DEF RestEnds
  <2> QED
    BY <1>5, <2>8
<1>7. CASE t.red[far]
  <2>1. PICK v : v = RecolourFar(t, w, p, far)
    OBVIOUS
  <2>2. PICK u : u = Rotate(v, p, d)
    OBVIOUS
  <2>3. r = [tree |-> u, at |-> u.root]
    <3>1. Lifted(t, d, o, w) = t
      BY <1>4, <1>7 DEF Lifted
    <3>2. Turnover(t, x, d, o) = u
      BY <1>1, <1>4, <2>1, <2>2 DEF Turnover
    <3> QED
      BY <1>2, <1>4, <1>5, <1>7, <3>1, <3>2 DEF RestOfRound
  <2>4. PICK a, C : Lacking(u, T, N, pos, a, C, u.root)
    BY <1>4, <1>7, <2>1, <2>2, FarNephewRed
  <2>5. Elsewhere(t, u, T)
    BY <1>4, <1>7, <2>1, <2>2, FarNephewRed
  <2>6. r.tree = u /\ r.at = u.root /\ r = [tree |-> r.tree, at |-> r.at]
    BY <2>3
  <2>7. RestEnds(t, T, N, pos, b, p, r)
    BY <2>4, <2>5, <2>6 DEF RestEnds, Done
  <2> QED
    BY <1>5, <2>7
<1>8. CASE t.red[near] /\ ~t.red[far]
  <2>1. PICK v1 : v1 = RecolourTop(t, near, w)
    OBVIOUS
  <2>2. PICK t2 : t2 = Rotate(v1, w, o)
    OBVIOUS
  <2>3. PICK a1, C1 : Near(t2, T, N, pos, a1, C1, x, p, d, o, near)
    BY <1>3, <1>4, <1>8, <2>1, <2>2, FarNephewBlack
  <2>4. ~t2.red[near] /\ t2.red[t2.child[o][near]] /\ Elsewhere(t, t2, T)
    BY <1>3, <1>4, <1>8, <2>1, <2>2, FarNephewBlack
  <2>5. t2.parent[x] = p /\ t2.child[o][p] = near
    BY ZenonT(60), <2>3 DEF Near, UpIs
  <2>6. PICK out : t2.child[o][near] = out
    OBVIOUS
  <2>7. PICK v : v = RecolourFar(t2, near, p, out)
    OBVIOUS
  <2>8. PICK u : u = Rotate(v, p, d)
    OBVIOUS
  <2>9. r = [tree |-> u, at |-> u.root]
    <3>1. Lifted(t, d, o, w) = t2
      BY <1>3, <1>4, <1>8, <2>1, <2>2 DEF Lifted
    <3>2. Turnover(t2, x, d, o) = u
      BY <2>5, <2>6, <2>7, <2>8 DEF Turnover
    <3> QED
      BY <1>2, <1>3, <1>5, <1>8, <3>1, <3>2 DEF RestOfRound
  <2>10. PICK a, C : Lacking(u, T, N, pos, a, C, u.root)
    BY <2>3, <2>4, <2>6, <2>7, <2>8, FarNephewRed
  <2>11. Elsewhere(t2, u, T)
    BY <2>3, <2>4, <2>6, <2>7, <2>8, FarNephewRed
  <2>12. Elsewhere(t, u, T)
    BY <2>4, <2>11, ElsewhereTwice
  <2>13. r.tree = u /\ r.at = u.root /\ r = [tree |-> r.tree, at |-> r.at]
    BY <2>9
  <2>14. RestEnds(t, T, N, pos, b, p, r)
    BY <2>10, <2>12, <2>13 DEF RestEnds, Done
  <2> QED
    BY <1>5, <2>14
<1> QED
  BY <1>6, <1>7, <1>8

\* What a round of the deletion makes of its state.
Mended(t, T, N, pos, b, x, r) ==
    /\ Elsewhere(t, r.tree, T) /\ r = [tree |-> r.tree, at |-> r.at]
    /\ \E a, C : /\ Lacking(r.tree, T, N, pos, a, C, r.at)
                 /\ \/ Done(r.tree, r.at)
                    \/ Width(a, r.tree.parent[r.at]) >= Width(b, t.parent[x]) + 1

\* Whatever the sibling, a round ends repaired or one level up.
LEMMA RepairedRound ==
    ASSUME NEW t, NEW T, NEW N, NEW pos, NEW b, NEW B, NEW x, Lacking(t, T, N, pos, b, B, x),
           ~Done(t, x)
    PROVE  Mended(t, T, N, pos, b, x, Repaired(t, x))
<1>1. PICK p : UpIs(t, x, p)
  BY DEF UpIs
<1>2. PICK d \in Sides : d = SideOf(t, x)
  BY SideInSides
<1>3. PICK o : o = Opposite[d]
  OBVIOUS
<1>4. PICK w : w = t.child[o][p]
  OBVIOUS
<1>5. Near(t, T, N, pos, b, B, x, p, d, o, w)
  BY <1>1, <1>2, <1>3, <1>4, LackingNear
<1>6. PICK r : r = Repaired(t, x)
  OBVIOUS
<1>7. t.parent[x] = p
  BY <1>1 DEF UpIs
<1>10. r = AfterFirst(First(t, p, d, o), x, d, o)
  <2>1. Repaired(t, x) = AfterFirst(First(t, t.parent[x], SideOf(t, x), Opposite[SideOf(t, x)]),
                                x, SideOf(t, x), Opposite[SideOf(t, x)])
    BY RepairedSteps
  <2> QED
    BY <1>2, <1>3, <1>6, <1>7, <2>1
<1>8. CASE ~t.red[w]
  <2>1. r = RestOfRound(t, x, d, o, w)
    <3>1. First(t, p, d, o) = t
      BY <1>4, <1>8 DEF First
    <3>2. AfterFirst(t, x, d, o) = RestOfRound(t, x, d, o, w)
      BY <1>4, <1>7 DEF AfterFirst
    <3> QED
      BY <1>10, <3>1, <3>2
  <2>2. RestEnds(t, T, N, pos, b, p, r)
    BY <1>5, <1>8, <2>1, RestRound
  <2>3. PICK a, C : /\ Lacking(r.tree, T, N, pos, a, C, r.at)
                    /\ \/ Done(r.tree, r.at)
                       \/ /\ a = b /\ r.at = p /\ ~t.red[p] /\ p # t.root
                          /\ r.tree.parent = t.parent
    BY <2>2 DEF RestEnds
  <2>4. ASSUME a = b, r.at = p, p # t.root, r.tree.parent = t.parent
        PROVE  Width(a, r.tree.parent[r.at]) >= Width(b, t.parent[x]) + 1
    <3>1. Shape(t, T, N, pos, b) /\ p \in T
      BY ZenonT(60), <1>5 DEF Near
    <3>2. t.parent[p] \in T /\ IsChild(t, T, pos, b, t.parent[p], SideOf(t, p), p)
      BY <2>4, <3>1, ParentFacts
    <3>3. SideOf(t, p) \in Sides
      BY SideInSides
    <3>4. Width(b, p) < Width(b, t.parent[p]) /\ Width(b, p) \in Int /\ Width(b, t.parent[p]) \in Int
      BY <3>1, <3>2, <3>3, ChildIsNarrower
    <3>5. Width(b, t.parent[p]) >= Width(b, p) + 1
      BY <3>4
    <3> QED
      BY <1>7, <2>4, <3>5
  <2>5. Done(r.tree, r.at) \/ Width(a, r.tree.parent[r.at]) >= Width(b, t.parent[x]) + 1
    BY <2>3, <2>4
  <2>6. Elsewhere(t, r.tree, T) /\ r = [tree |-> r.tree, at |-> r.at]
    BY <2>2 DEF RestEnds
  <2>7. Mended(t, T, N, pos, b, x, r)
    BY <2>3, <2>5, <2>6 DEF Mended
  <2> QED
    BY <1>6, <2>7
<1>9. CASE t.red[w]
  <2>1. PICK v : v = RecolourTop(t, w, p)
    OBVIOUS
  <2>2. PICK t1 : t1 = Rotate(v, p, d)
    OBVIOUS
  <2>13. SiblingTurned(t, t1, T, N, pos, x, p, d, o)
    BY <1>5, <1>9, <2>1, <2>2, RedSibling
  <2>3. PICK a1, C1, y : Near(t1, T, N, pos, a1, C1, x, p, d, o, y) /\ ~t1.red[y]
    BY <2>13 DEF SiblingTurned
  <2>4. Elsewhere(t, t1, T) /\ t1.red[p] /\ UpIs(t1, x, p)
    BY <2>13 DEF SiblingTurned
  <2>5. t1.parent[x] = p /\ t1.child[o][p] = y
    BY ZenonT(60), <2>3, <2>4 DEF Near, UpIs
  <2>6. r = RestOfRound(t1, x, d, o, y)
    <3>1. First(t, p, d, o) = t1
      BY <1>4, <1>9, <2>1, <2>2 DEF First
    <3>2. AfterFirst(t1, x, d, o) = RestOfRound(t1, x, d, o, y)
      BY <2>5 DEF AfterFirst
    <3> QED
      BY <1>10, <3>1, <3>2
  <2>7. RestEnds(t1, T, N, pos, a1, p, r)
    BY <2>3, <2>6, RestRound
  <2>8. PICK a, C : /\ Lacking(r.tree, T, N, pos, a, C, r.at)
                    /\ \/ Done(r.tree, r.at)
                       \/ /\ a = a1 /\ r.at = p /\ ~t1.red[p] /\ p # t1.root
                          /\ r.tree.parent = t1.parent
    BY <2>7 DEF RestEnds
  <2>9. Done(r.tree, r.at)
    BY <2>4, <2>8
  <2>10. Elsewhere(t1, r.tree, T) /\ r = [tree |-> r.tree, at |-> r.at]
    BY <2>7 DEF RestEnds
  <2>11. Elsewhere(t, r.tree, T)
    BY <2>4, <2>10, ElsewhereTwice
  <2>12. Mended(t, T, N, pos, b, x, r)
    BY <2>8, <2>9, <2>10, <2>11 DEF Mended
  <2> QED
    BY <1>6, <2>12
<1> QED
  BY <1>8, <1>9

-----------------------------------------------------------------------------
(* The rounds of the deletion come to an end.                              *)

\* After k rounds: x only has to become black, or lies below a wide node.
Repairing(t, T, N, pos, k, r) ==
    /\ r \in States /\ Elsewhere(t, r.tree, T)
    /\ \E b, B : /\ Lacking(r.tree, T, N, pos, b, B, r.at)
                 /\ Done(r.tree, r.at) \/ Width(b, r.tree.parent[r.at]) >= k + 2

\* A round of the loop, or none when it has ended.
AfterRepair(r) ==
    IF r.at = r.tree.root \/ r.tree.red[r.at] THEN r ELSE Repaired(r.tree, r.at)

\* A tree to repair is a state of the loop.
LEMMA LackingIsState ==
    ASSUME NEW t, NEW T, NEW N, NEW pos, NEW b, NEW B, NEW x, Lacking(t, T, N, pos, b, B, x)
    PROVE  t \in Trees /\ x \in Cells
BY CellFacts DEF Lacking, Shape, Ordered

\* The parent of what lacks a black node covers at least two positions.
LEMMA LackingWidth ==
    ASSUME NEW t, NEW T, NEW N, NEW pos, NEW b, NEW B, NEW x, Lacking(t, T, N, pos, b, B, x),
           ~Done(t, x)
    PROVE  /\ Width(b, t.parent[x]) \in Int /\ Width(b, t.parent[x]) >= 2
           /\ Width(b, t.parent[x]) <= N + 1 /\ N \in Nat
<1>1. PICK p \in T : p = t.parent[x]
  BY DEF Lacking, Done
<1>2. Shape(t, T, N, pos, b)
  BY DEF Lacking
<1>3. /\ b["left"][p] \in Int /\ b["right"][p] \in Int /\ pos[p] \in Int /\ N \in Nat
      /\ 0 <= b["left"][p] /\ b["left"][p] < pos[p]
      /\ pos[p] < b["right"][p] /\ b["right"][p] <= N + 1
  BY <1>2, NodeFacts
<1>4. Width(b, p) \in Int /\ Width(b, p) >= 2 /\ Width(b, p) <= N + 1
  BY <1>3 DEF Width
<1> QED
  BY <1>1, <1>3, <1>4

\* A round keeps what the loop relies on.
LEMMA RepairingOn ==
    ASSUME NEW t, NEW T, NEW N, NEW pos, NEW k \in Nat, NEW r, Repairing(t, T, N, pos, k, r)
    PROVE  Repairing(t, T, N, pos, k + 1, AfterRepair(r))
<1>1. PICK b, B : /\ Lacking(r.tree, T, N, pos, b, B, r.at)
                  /\ Done(r.tree, r.at) \/ Width(b, r.tree.parent[r.at]) >= k + 2
  BY DEF Repairing
<1>2. CASE Done(r.tree, r.at)
  <2>1. AfterRepair(r) = r
    BY <1>2 DEF AfterRepair, Done
  <2>2. Repairing(t, T, N, pos, k + 1, r)
    BY <1>1, <1>2 DEF Repairing
  <2> QED
    BY <2>1, <2>2
<1>3. CASE ~Done(r.tree, r.at)
  <2>1. AfterRepair(r) = Repaired(r.tree, r.at)
    BY <1>3 DEF AfterRepair, Done
  <2>2. PICK v : v = Repaired(r.tree, r.at)
    OBVIOUS
  <2>3. Mended(r.tree, T, N, pos, b, r.at, v)
    BY <1>1, <1>3, <2>2, RepairedRound
  <2>4. PICK a, C : /\ Lacking(v.tree, T, N, pos, a, C, v.at)
                    /\ \/ Done(v.tree, v.at)
                       \/ Width(a, v.tree.parent[v.at]) >= Width(b, r.tree.parent[r.at]) + 1
    BY <2>3 DEF Mended
  <2>5. Width(b, r.tree.parent[r.at]) >= k + 2 /\ Width(b, r.tree.parent[r.at]) \in Int
    BY <1>1, <1>3, LackingWidth
  <2>6. Done(v.tree, v.at) \/ Width(a, v.tree.parent[v.at]) >= (k + 1) + 2
    <3>1. Done(v.tree, v.at) \/ Width(a, v.tree.parent[v.at]) \in Int
      BY <2>4, LackingWidth
    <3> QED
      BY <2>4, <2>5, <3>1
  <2>7. Elsewhere(t, v.tree, T)
    <3>1. Elsewhere(t, r.tree, T)
      BY DEF Repairing
    <3>2. Elsewhere(r.tree, v.tree, T)
      BY <2>3 DEF Mended
    <3> QED
      BY <3>1, <3>2, ElsewhereTwice
  <2>8. v \in States
    <3>1. v = [tree |-> v.tree, at |-> v.at]
      BY <2>3 DEF Mended
    <3>2. v.tree \in Trees /\ v.at \in Cells
      BY <2>4, LackingIsState
    <3> QED
      BY <3>1, <3>2, StateRecord
  <2>9. Repairing(t, T, N, pos, k + 1, v)
    BY <2>4, <2>6, <2>7, <2>8 DEF Repairing
  <2> QED
    BY <2>1, <2>2, <2>9
<1> QED
  BY <1>2, <1>3

\* What the rounds lead to, and the node blackened.
Paid(t, T, N, pos, u, r) ==
    /\ Repairing(t, T, N, pos, Longest, r) /\ Done(r.tree, r.at)
    /\ u = WithRed(r.tree, r.at, FALSE)

\* The loop that repairs ends within Longest rounds.
LEMMA FixupEnds ==
    ASSUME NEW t, NEW T, NEW N, NEW pos, NEW b, NEW B, NEW x, Lacking(t, T, N, pos, b, B, x),
           N <= Longest, Longest \in Nat
    PROVE  \E r : Paid(t, T, N, pos, DeleteFixup(t, x), r)
<1> DEFINE first == [tree |-> t, at |-> x]
           Body(f) == [k \in 0..Longest |->
                         IF k = 0 THEN [tree |-> t, at |-> x]
                         ELSE LET r == f[k - 1] IN
                              IF r.at = r.tree.root \/ r.tree.red[r.at] THEN r
                              ELSE Repaired(r.tree, r.at)]
           round == CHOOSE f : f = Body(f)
           step == [r \in States |-> AfterRepair(r)]
           Fine == {k \in Nat : k <= Longest =>
                                  \A g : Iterates(g, Longest, first, step) =>
                                           Repairing(t, T, N, pos, k, g[k])}
<1>1. DeleteFixup(t, x) = WithRed(round[Longest].tree, round[Longest].at, FALSE)
  BY DEF DeleteFixup, WithRed
<1>2. \A f : Body(f) = [k \in 0..Longest |-> IF k = 0 THEN first ELSE AfterRepair(f[k - 1])]
  BY DEF AfterRepair
<1> HIDE DEF Body
<1>3. 0 \in Fine
  <2>1. Elsewhere(t, t, T)
    BY DEF Elsewhere
  <2>2. first \in States
    <3>1. t \in Trees /\ x \in Cells
      BY LackingIsState
    <3> QED
      BY <3>1 DEF States
  <2>3. Done(t, x) \/ Width(b, t.parent[x]) >= 0 + 2
    BY LackingWidth
  <2>4. first.tree = t /\ first.at = x
    OBVIOUS
  <2>5. Repairing(t, T, N, pos, 0, first)
    BY <2>1, <2>2, <2>3, <2>4 DEF Repairing
  <2>6. ASSUME NEW g, Iterates(g, Longest, first, step) PROVE g[0] = first
    BY <2>6 DEF Iterates
  <2> QED
    BY <2>5, <2>6
<1>4. ASSUME NEW k \in Nat, k \in Fine PROVE k + 1 \in Fine
  <2> SUFFICES ASSUME k + 1 <= Longest, NEW g, Iterates(g, Longest, first, step)
               PROVE  Repairing(t, T, N, pos, k + 1, g[k + 1])
    OBVIOUS
  <2>1. k <= Longest /\ k + 1 \in 1..Longest /\ (k + 1) - 1 = k
    OBVIOUS
  <2>2. Repairing(t, T, N, pos, k, g[k])
    BY <1>4, <2>1
  <2>3. g[k + 1] = step[g[k]]
    BY <2>1 DEF Iterates
  <2>4. g[k] \in States
    BY <2>2 DEF Repairing
  <2>5. g[k + 1] = AfterRepair(g[k])
    BY <2>3, <2>4
  <2> QED
    BY <2>2, <2>5, RepairingOn
<1>5. \A k \in Nat : k \in Fine
  <2> HIDE DEF Fine
  <2> QED
    BY <1>3, <1>4, EveryNumber
<1>6. PICK g : Iterates(g, Longest, first, step)
  BY IterationExists
<1>7. \A k \in 0..Longest : Repairing(t, T, N, pos, k, g[k])
  BY <1>5, <1>6
<1>8. /\ g = [k \in 0..Longest |-> g[k]] /\ g[0] = first
      /\ \A k \in 1..Longest : g[k] = step[g[k - 1]]
  BY <1>6 DEF Iterates
<1>9. \A k \in 1..Longest : g[k] = AfterRepair(g[k - 1])
  <2> SUFFICES ASSUME NEW k \in 1..Longest PROVE g[k] = AfterRepair(g[k - 1])
    OBVIOUS
  <2>1. k - 1 \in 0..Longest
    OBVIOUS
  <2>2. g[k - 1] \in States
    BY <1>7, <2>1 DEF Repairing
  <2> QED
    BY <1>8, <2>2
<1>10. g = Body(g)
  <2>1. \A k \in 0..Longest : g[k] = IF k = 0 THEN first ELSE AfterRepair(g[k - 1])
    <3>1. \A k \in 0..Longest : k = 0 \/ k \in 1..Longest
      OBVIOUS
    <3> QED
      BY <1>8, <1>9, <3>1
  <2> QED
    BY <1>2, <1>8, <2>1
<1>11. round = Body(round)
  BY <1>10
<1> HIDE DEF round
<1>12. round = g
  <2> DEFINE S == {k \in Nat : k <= Longest => round[k] = g[k]}
  <2>1. round = [k \in 0..Longest |-> IF k = 0 THEN first ELSE AfterRepair(round[k - 1])]
    BY <1>2, <1>11
  <2>2. \A k \in 0..Longest : round[k] = IF k = 0 THEN first ELSE AfterRepair(round[k - 1])
    BY <2>1
  <2>3. 0 \in S
    BY <1>8, <2>2
  <2>4. ASSUME NEW k \in Nat, k \in S PROVE k + 1 \in S
    <3> SUFFICES ASSUME k + 1 <= Longest PROVE round[k + 1] = g[k + 1]
      OBVIOUS
    <3>1. k + 1 \in 0..Longest /\ k + 1 \in 1..Longest /\ k + 1 # 0 /\ (k + 1) - 1 = k
      OBVIOUS
    <3>2. round[k] = g[k]
      BY <2>4
    <3> QED
      BY <1>9, <2>2, <3>1, <3>2
  <2> HIDE DEF S
  <2>5. \A k \in Nat : k \in S
    BY <2>3, <2>4, EveryNumber
  <2>6. \A k \in 0..Longest : round[k] = g[k]
    BY <2>5 DEF S
  <2>7. DOMAIN round = 0..Longest /\ round = [k \in 0..Longest |-> round[k]]
    BY <2>1
  <2>8. g = [k \in 0..Longest |-> g[k]]
    BY <1>8
  <2> HIDE DEF first, step
  <2> QED
    BY <2>6, <2>7, <2>8
<1>13. PICK r : r = round[Longest]
  OBVIOUS
<1>14. Repairing(t, T, N, pos, Longest, r)
  BY <1>7, <1>12, <1>13
<1>15. Done(r.tree, r.at)
  <2>1. PICK a, C : /\ Lacking(r.tree, T, N, pos, a, C, r.at)
                    /\ Done(r.tree, r.at) \/ Width(a, r.tree.parent[r.at]) >= Longest + 2
    BY <1>14 DEF Repairing
  <2>2. \/ Done(r.tree, r.at)
        \/ /\ Width(a, r.tree.parent[r.at]) \in Int /\ N \in Nat
           /\ Width(a, r.tree.parent[r.at]) <= N + 1
    BY <2>1, LackingWidth
  <2> QED
    BY <2>1, <2>2
<1>16. Paid(t, T, N, pos, DeleteFixup(t, x), r)
  BY <1>1, <1>13, <1>14, <1>15 DEF Paid
<1> QED
  BY <1>16


\* Blackening x pays for the black node that is missing above it.
LEMMA PaidSound ==
    ASSUME NEW t, NEW T, NEW N, NEW pos, NEW b, NEW B, NEW x, Lacking(t, T, N, pos, b, B, x),
           Done(t, x), NEW u, u = WithRed(t, x, FALSE)
    PROVE  (\E C : Sound(u, T, N, pos, b, C)) /\ Elsewhere(t, u, T)
<1>1. Shape(t, T, N, pos, b) /\ T # {} /\ ~t.red[t.root] /\ x \in T \cup {Sentinel}
  BY DEF Lacking
<1>2. t \in Trees /\ t.root \in T
  BY <1>1 DEF Shape, Rooted
<1>3. \E q, s : Coloured(t, T, B, q, s, x)
  BY DEF Lacking
<1>4. B \in [Cells -> Nat] /\ B[Sentinel] = 0 /\ ~t.red[Sentinel]
  BY <1>3 DEF Coloured
<1>5. x \in T
  BY <1>1, <1>2, <1>4 DEF Done
<1>6. x \in Cells /\ x # Sentinel /\ Sentinel \in Cells
  BY <1>1, <1>5, NodeFacts, CellFacts
<1>7. OneRed(t, u, x, FALSE)
  BY <1>2, <1>6, RecolourOne
<1>8. Recoloured(t, u) /\ u.child = t.child /\ u.root = t.root /\ u.parent = t.parent
  BY <1>7 DEF OneRed, Recoloured
<1>9. Shape(u, T, N, pos, b) /\ Elsewhere(t, u, T)
  BY <1>1, <1>8, RecolouredShape, RecolourElsewhere
<1>10. ~u.red[x] /\ ~u.red[Sentinel] /\ ~u.red[u.root]
  <2>1. t.root \in Cells
    BY <1>1, <1>2, NodeFacts
  <2> QED
    BY <1>1, <1>4, <1>6, <1>7, <1>8, <2>1 DEF OneRed
<1>11. CASE x = t.root
  <2>1. Coloured(t, T, B, Sentinel, "left", x) /\ ~t.red[x]
    BY <1>1, <1>11 DEF Lacking
  <2>2. ASSUME NEW m \in T, NEW e \in Sides
        PROVE  Good(u.red, B, Sentinel, "left", Sentinel, m, e, u.child[e][m])
    <3>1. PICK c \in Cells : c = t.child[e][m] /\ c = u.child[e][m]
      BY <1>1, <1>8, ChildOrNot
    <3> SUFFICES Good(u.red, B, Sentinel, "left", Sentinel, m, e, c)
      BY <3>1
    <3>2. Good(t.red, B, Sentinel, "left", x, m, e, c)
      BY <2>1, <3>1 DEF Coloured
    <3>3. m \in Cells
      BY <1>1, NodeFacts
    <3>4. \A k \in Cells : u.red[k] <=> t.red[k]
      <4>1. u.red \in [Cells -> BOOLEAN] /\ t.red \in [Cells -> BOOLEAN]
        BY <1>2, <1>8, TreeFields DEF Recoloured
      <4> QED
        BY <1>7, <1>10, <2>1, <4>1 DEF OneRed
    <3>5. B[m] = B[c] + (IF u.red[m] THEN 0 ELSE 1) + (IF m = Sentinel /\ e = "left" THEN 1 ELSE 0)
      <4>1. B[m] = B[c] + (IF t.red[m] THEN 0 ELSE 1) + (IF m = Sentinel /\ e = "left" THEN 1 ELSE 0)
        BY <3>2 DEF Good
      <4>2. (IF t.red[m] THEN 0 ELSE 1) = (IF u.red[m] THEN 0 ELSE 1)
        BY <3>3, <3>4
      <4> QED
        BY <4>1, <4>2
    <3>6. ~(u.red[m] /\ u.red[c])
      BY <2>1, <3>1, <3>2, <3>3, <3>4 DEF Good
    <3> QED
      BY <3>5, <3>6 DEF Good
  <2>3. Coloured(u, T, B, Sentinel, "left", Sentinel)
    BY <1>4, <1>10, <2>2 DEF Coloured
  <2> QED
    BY <1>9, <1>10, <2>3 DEF Sound
<1>12. CASE x # t.root
  <2>1. PICK q \in T, s \in Sides : q = t.parent[x] /\ s = SideOf(t, x)
    BY <1>12, SideInSides DEF Lacking
  <2>2. Coloured(t, T, B, q, s, x) /\ t.red[x]
    BY <1>12, <2>1 DEF Lacking, Done
  <2>3. EdgeAbove(t, T, x, q, s)
    BY <1>1, <1>5, <1>12, <2>1, EdgeAboveFacts
  <2>4. PICK C : C = [B EXCEPT ![x] = B[x] + 1]
    OBVIOUS
  <2>5. /\ C \in [Cells -> Nat] /\ C[x] = B[x] + 1 /\ B[x] \in Nat
        /\ \A k \in Cells : k # x => C[k] = B[k]
    BY <1>4, <1>6, <2>4
  <2>6. C[Sentinel] = 0
    BY <1>4, <1>6, <2>5
  <2>7. ASSUME NEW m \in T, NEW e \in Sides
        PROVE  Good(u.red, C, Sentinel, "left", Sentinel, m, e, u.child[e][m])
    <3>1. PICK c \in Cells : c = t.child[e][m] /\ c = u.child[e][m]
      BY <1>1, <1>8, ChildOrNot
    <3> SUFFICES Good(u.red, C, Sentinel, "left", Sentinel, m, e, c)
      BY <3>1
    <3>2. Good(t.red, B, q, s, x, m, e, c)
      BY <2>2, <3>1 DEF Coloured
    <3>3. m \in Cells /\ m # Sentinel
      BY <1>1, NodeFacts
    <3>4. B[m] \in Nat /\ B[c] \in Nat
      BY <1>4, <3>1, <3>3
    <3>5. (m = q /\ e = s) <=> c = x
      BY <2>3, <3>1 DEF EdgeAbove
    <3>6. ~(c = x /\ m = x)
      <4>1. IsChild(t, T, pos, b, q, s, x)
        BY <1>1, <1>5, <1>12, <2>1, ParentFacts
      <4> QED
        BY <3>5, <4>1 DEF IsChild
    <3>7. B[m] = B[c] + (IF t.red[m] THEN 0 ELSE 1) + (IF c = x THEN 1 ELSE 0)
      BY <3>2, <3>5 DEF Good
    <3>8. C[m] = C[c] + (IF u.red[m] THEN 0 ELSE 1) + 0
      <4>1. CASE c = x
        <5>1. C[m] = B[m] /\ C[c] = B[c] + 1 /\ u.red[m] = t.red[m]
          BY <1>7, <2>5, <3>3, <3>6, <4>1 DEF OneRed
        <5>2. B[m] = B[c] + (IF t.red[m] THEN 0 ELSE 1) + 1
          BY <3>7, <4>1
        <5>3. PICK r \in {0, 1} : r = (IF t.red[m] THEN 0 ELSE 1)
          OBVIOUS
        <5>4. B[m] = B[c] + r + 1 /\ r = (IF u.red[m] THEN 0 ELSE 1)
          BY <5>1, <5>2, <5>3
        <5>5. B[c] + r + 1 = (B[c] + 1) + r + 0
          BY <3>4
        <5> QED
          BY <5>1, <5>4, <5>5
      <4>2. CASE m = x
        <5>1. c # x /\ C[m] = B[m] + 1 /\ C[c] = B[c]
          BY <2>5, <3>1, <3>6, <4>2
        <5>2. B[m] = B[c]
          BY <2>2, <3>4, <3>7, <4>2, <5>1
        <5> QED
          BY <1>10, <3>4, <4>2, <5>1, <5>2
      <4>3. CASE c # x /\ m # x
        <5>1. C[m] = B[m] /\ C[c] = B[c] /\ u.red[m] = t.red[m]
          BY <1>7, <2>5, <3>1, <3>3, <4>3 DEF OneRed
        <5>2. B[m] = B[c] + (IF t.red[m] THEN 0 ELSE 1) + 0
          BY <3>7, <4>3
        <5> QED
          BY <5>1, <5>2
      <4> QED
        BY <4>1, <4>2, <4>3
    <3>9. ~(u.red[m] /\ u.red[c])
      <4>1. CASE m = x \/ c = x
        BY <1>10, <4>1
      <4>2. CASE m # x /\ c # x
        <5>1. u.red[m] = t.red[m] /\ u.red[c] = t.red[c]
          BY <1>7, <3>1, <3>3, <4>2 DEF OneRed
        <5>2. t.red[m] /\ t.red[c] => x \in {m, c}
          BY <3>2 DEF Good
        <5> QED
          BY <4>2, <5>1, <5>2
      <4> QED
        BY <4>1, <4>2
    <3> QED
      BY <3>3, <3>8, <3>9 DEF Good
  <2>8. Coloured(u, T, C, Sentinel, "left", Sentinel)
    BY <1>10, <2>5, <2>6, <2>7 DEF Coloured
  <2> QED
    BY <1>9, <1>10, <2>8 DEF Sound
<1> QED
  BY <1>11, <1>12

\* ngx_rbtree_delete's repair makes the tree red-black and keeps positions.
LEMMA FixupSound ==
    ASSUME NEW t, NEW T, NEW N, NEW pos, NEW b, NEW B, NEW x, Lacking(t, T, N, pos, b, B, x),
           N <= Longest, Longest \in Nat, NEW u, u = DeleteFixup(t, x)
    PROVE  (\E a, C : Sound(u, T, N, pos, a, C)) /\ Elsewhere(t, u, T)
<1>1. PICK r : Paid(t, T, N, pos, u, r)
  BY FixupEnds
<1>2. /\ Repairing(t, T, N, pos, Longest, r) /\ Done(r.tree, r.at)
      /\ u = WithRed(r.tree, r.at, FALSE)
  BY <1>1 DEF Paid
<1>3. PICK a, A : Lacking(r.tree, T, N, pos, a, A, r.at)
  BY <1>2 DEF Repairing
<1>4. PICK C : Sound(u, T, N, pos, a, C)
  BY <1>2, <1>3, PaidSound
<1>5. Elsewhere(r.tree, u, T)
  BY <1>2, <1>3, PaidSound
<1>6. Elsewhere(t, r.tree, T)
  BY <1>2 DEF Repairing
<1> QED
  BY <1>4, <1>5, <1>6, ElsewhereTwice

-----------------------------------------------------------------------------
(* A node with an empty side leaves the tree.                              *)

\* Everything above i moves down by one.
Down(i, k) == IF k > i THEN k - 1 ELSE k

\* The order without s, whose side d is empty: the bound on that side and the
\* position of s become one number.
Emptied(pos, d, s) == IF d = "left" THEN pos[s] - 1 ELSE pos[s]

\* p and c number what pos and b number, without the room at i.
Closed(T, pos, b, i, p, c) ==
    /\ p \in [Nodes -> Int] /\ c \in [Sides -> [Nodes -> Int]]
    /\ \A m \in T : /\ p[m] = Down(i, pos[m])
                    /\ \A f \in Sides : c[f][m] = Down(i, b[f][m])

ClosedPos(pos, i) == [m \in Nodes |-> Down(i, pos[m])]
ClosedBounds(b, i) == [f \in Sides |-> [m \in Nodes |-> Down(i, b[f][m])]]

\* There are positions and bounds without the room at i.
LEMMA ClosedExists ==
    ASSUME NEW T, NEW N, NEW pos, NEW b, Ordered(T, N, pos, b), NEW i \in Int
    PROVE  Closed(T, pos, b, i, ClosedPos(pos, i), ClosedBounds(b, i))
<1>1. PICK p : p = ClosedPos(pos, i)
  OBVIOUS
<1>2. PICK c : c = ClosedBounds(b, i)
  OBVIOUS
<1>3. pos \in [Nodes -> Int] /\ b \in [Sides -> [Nodes -> Int]] /\ T \subseteq Nodes
  BY DEF Ordered
<1>4. p \in [Nodes -> Int] /\ \A m \in T : p[m] = Down(i, pos[m])
  BY <1>1, <1>3 DEF ClosedPos, Down
<1>5. \A f \in Sides, m \in Nodes : Down(i, b[f][m]) \in Int
  BY <1>3 DEF Down
<1>6. c \in [Sides -> [Nodes -> Int]] /\ \A m \in T : \A f \in Sides : c[f][m] = Down(i, b[f][m])
  <2>1. \A f \in Sides : [m \in Nodes |-> Down(i, b[f][m])] \in [Nodes -> Int]
    BY <1>5
  <2>2. c = [f \in Sides |-> [m \in Nodes |-> Down(i, b[f][m])]]
    BY <1>2 DEF ClosedBounds
  <2>3. c \in [Sides -> [Nodes -> Int]]
    BY <2>1, <2>2
  <2>4. \A m \in Nodes : \A f \in Sides : c[f][m] = Down(i, b[f][m])
    BY <2>2
  <2> QED
    BY <1>3, <2>3, <2>4
<1> QED
  BY <1>1, <1>2, <1>4, <1>6 DEF Closed

\* Positions and bounds stay in order when a node without one child is gone.
LEMMA ClosedOrdered ==
    ASSUME NEW T, NEW N, NEW pos, NEW b, Ordered(T, N, pos, b),
           NEW s \in T, NEW d \in Sides, b[d][s] = Next(d, pos[s]),
           NEW i, i = Emptied(pos, d, s), NEW p, NEW c, Closed(T, pos, b, i, p, c)
    PROVE  Ordered(T \ {s}, N - 1, p, c) /\ N - 1 \in Nat
<1>1. /\ pos[s] \in Int /\ b["left"][s] \in Int /\ b["right"][s] \in Int /\ N \in Nat
      /\ 0 <= b["left"][s] /\ b["left"][s] < pos[s]
      /\ pos[s] < b["right"][s] /\ b["right"][s] <= N + 1
  BY OrderedNumbers
<1>2. \/ d = "left" /\ i = pos[s] - 1 /\ b["left"][s] = pos[s] - 1
      \/ d = "right" /\ i = pos[s] /\ b["right"][s] = pos[s] + 1
  BY SideFacts DEF Emptied, Next
<1>3. i \in Int /\ 0 <= i /\ i <= N /\ N - 1 \in Nat
  BY <1>1, <1>2
<1>4. ASSUME NEW m \in T
      PROVE  /\ p[m] = Down(i, pos[m]) /\ c["left"][m] = Down(i, b["left"][m])
             /\ c["right"][m] = Down(i, b["right"][m])
  BY SideFacts DEF Closed
<1>5. ASSUME NEW m \in T
      PROVE  /\ pos[m] \in Int /\ b["left"][m] \in Int /\ b["right"][m] \in Int
             /\ 0 <= b["left"][m] /\ b["left"][m] < pos[m]
             /\ pos[m] < b["right"][m] /\ b["right"][m] <= N + 1
  BY OrderedNumbers
<1>6. ASSUME NEW m \in T \ {s}
      PROVE  /\ 0 <= c["left"][m] /\ c["left"][m] < p[m]
             /\ p[m] < c["right"][m] /\ c["right"][m] <= (N - 1) + 1
  <2>1. pos[m] # pos[s]
    BY DEF Ordered
  <2>2. pos[m] < pos[s] => Laminar(T, pos, b, m, s)
    BY DEF Ordered, Laminar
  <2>3. pos[s] < pos[m] => Laminar(T, pos, b, s, m)
    BY DEF Ordered, Laminar
  <2>4. /\ pos[m] \in Int /\ b["left"][m] \in Int /\ b["right"][m] \in Int
        /\ 0 <= b["left"][m] /\ b["left"][m] < pos[m]
        /\ pos[m] < b["right"][m] /\ b["right"][m] <= N + 1
    BY <1>5
  <2>5. /\ p[m] = Down(i, pos[m]) /\ c["left"][m] = Down(i, b["left"][m])
        /\ c["right"][m] = Down(i, b["right"][m])
    BY <1>4
  <2>6. ~(b["left"][m] = i /\ pos[m] = i + 1)
    BY <1>1, <1>2, <2>1, <2>3, <2>4 DEF Laminar
  <2>7. ~(pos[m] = i /\ b["right"][m] = i + 1)
    BY <1>1, <1>2, <2>1, <2>2, <2>4 DEF Laminar
  <2>8. 0 <= c["left"][m] /\ c["left"][m] < p[m]
    BY <1>3, <2>4, <2>5, <2>6 DEF Down
  <2>9. p[m] < c["right"][m] /\ c["right"][m] <= (N - 1) + 1
    BY <1>1, <1>3, <2>4, <2>5, <2>7 DEF Down
  <2> QED
    BY <2>8, <2>9
<1>7. ASSUME NEW m \in T \ {s}, NEW k \in T \ {s}
      PROVE  /\ p[m] = p[k] => m = k
             /\ p[m] < p[k] => Laminar(T \ {s}, p, c, m, k)
  <2>1. pos[m] # pos[s] /\ pos[k] # pos[s] /\ (pos[m] = pos[k] => m = k)
    BY DEF Ordered
  <2>2. pos[m] < pos[k] => Laminar(T, pos, b, m, k)
    BY DEF Ordered, Laminar
  <2>3. pos[m] \in Int /\ pos[k] \in Int /\ p[m] = Down(i, pos[m]) /\ p[k] = Down(i, pos[k])
    BY <1>4, <1>5
  <2>4. p[m] = p[k] => pos[m] = pos[k]
    BY <1>1, <1>2, <2>1, <2>3 DEF Down
  <2>5. p[m] < p[k] => pos[m] < pos[k]
    BY <1>3, <2>3 DEF Down
  <2>6. \A x, y \in Int : x <= y => Down(i, x) <= Down(i, y)
    BY <1>3 DEF Down
  <2>7. /\ b["left"][m] \in Int /\ b["right"][m] \in Int /\ b["left"][k] \in Int /\ b["right"][k] \in Int
        /\ c["left"][m] = Down(i, b["left"][m]) /\ c["right"][m] = Down(i, b["right"][m])
        /\ c["left"][k] = Down(i, b["left"][k]) /\ c["right"][k] = Down(i, b["right"][k])
    BY <1>4, <1>5
  <2>8. Laminar(T, pos, b, m, k) => Laminar(T \ {s}, p, c, m, k)
    BY <2>3, <2>6, <2>7 DEF Laminar
  <2> QED
    BY <2>1, <2>2, <2>4, <2>5, <2>8
<1>8. T \ {s} \in SUBSET Nodes
  BY DEF Ordered
<1>9. p \in [Nodes -> Int] /\ c \in [Sides -> [Nodes -> Int]]
  BY DEF Closed
<1>10. Ordered(T \ {s}, N - 1, p, c)
  BY <1>3, <1>6, <1>7, <1>8, <1>9 DEF Ordered, Laminar
<1> QED
  BY <1>3, <1>10

\* temp has taken the place of s.
Spliced(t, v, T, s, temp) ==
    /\ v \in Trees /\ v.root = (IF s = t.root THEN temp ELSE t.root)
    /\ \A f \in Sides, k \in Cells : v.child[f][k] = PlaceTaken(t, s, temp, f, k)
    /\ \A k \in T : v.parent[k] = IF k = temp /\ s # t.root THEN t.parent[s] ELSE t.parent[k]

\* s has nothing on side d, and temp or the sentinel on the other.
Cut(t, T, pos, b, s, d, o, temp) ==
    /\ s \in T /\ d \in Sides /\ o \in Sides /\ o # d
    /\ t.child[d][s] = Sentinel /\ b[d][s] = Next(d, pos[s])
    /\ temp \in T \cup {Sentinel} /\ temp # s /\ t.child[o][s] = temp
    /\ temp # Sentinel => IsChild(t, T, pos, b, s, o, temp)
    /\ temp = Sentinel => b[o][s] = Next(o, pos[s])

\* A node without one child can be cut out: its other child takes its place.
LEMMA CutFacts ==
    ASSUME NEW t, NEW T, NEW N, NEW pos, NEW b, Shape(t, T, N, pos, b),
           NEW s \in T, NEW d \in Sides, t.child[d][s] = Sentinel,
           NEW temp, temp = t.child[Opposite[d]][s]
    PROVE  Cut(t, T, pos, b, s, d, Opposite[d], temp)
<1>1. PICK o \in Sides : o = Opposite[d] /\ o # d
  BY Opposites
<1>2. b[d][s] = Next(d, pos[s]) /\ temp \in T \cup {Sentinel} /\ (temp = Sentinel => b[o][s] = Next(o, pos[s]))
  BY <1>1, ChildOrNot
<1>3. temp # Sentinel => IsChild(t, T, pos, b, s, o, temp)
  BY <1>1, ChildFacts
<1>4. s # Sentinel
  BY NodeFacts
<1>5. temp # s
  BY <1>3, <1>4 DEF IsChild
<1> QED
  BY <1>1, <1>2, <1>3, <1>5 DEF Cut

\* What remains next to a node that s was not next to.
LEMMA SpliceOtherChild ==
    ASSUME NEW t, NEW T, NEW N, NEW pos, NEW b, Shape(t, T, N, pos, b),
           NEW s, NEW d, NEW o, NEW temp, Cut(t, T, pos, b, s, d, o, temp),
           NEW v, Spliced(t, v, T, s, temp), NEW i, NEW p, NEW c, Closed(T, pos, b, i, p, c),
           i = Emptied(pos, d, s), Ordered(T \ {s}, N - 1, p, c),
           NEW m \in T \ {s}, NEW f \in Sides, t.child[f][m] # s
    PROVE  HasChild(v, T \ {s}, p, c, m, f)
<1>1. s \in T /\ s # Sentinel /\ m \in Cells /\ m # Sentinel /\ pos[s] \in Int
  BY NodeFacts DEF Cut
<1>2. i \in Int
  BY <1>1 DEF Emptied
<1>3. PICK k \in T \cup {Sentinel} : t.child[f][m] = k
  BY ChildOrNot
<1>4. v.child[f][m] = k
  <2>1. v.child[f][m] = PlaceTaken(t, s, temp, f, m)
    BY <1>1 DEF Spliced
  <2>2. ~(s # t.root /\ m = t.parent[s] /\ f = SideOf(t, s))
    <3>1. s # t.root => t.child[SideOf(t, s)][t.parent[s]] = s
      BY <1>1, ParentFacts DEF IsChild
    <3> QED
      BY <3>1
  <2> QED
    BY <1>3, <2>1, <2>2 DEF PlaceTaken
<1>5. /\ p[m] = Down(i, pos[m]) /\ c["left"][m] = Down(i, b["left"][m])
      /\ c["right"][m] = Down(i, b["right"][m])
  BY SideFacts DEF Closed
<1>6. /\ pos[m] \in Int /\ b["left"][m] \in Int /\ b["right"][m] \in Int
      /\ b["left"][m] < pos[m] /\ pos[m] < b["right"][m]
  BY NodeFacts
<1>7. c["left"][m] < p[m] /\ p[m] < c["right"][m]
  BY OrderedNumbers
<1>8. CASE k = Sentinel
  <2>1. b[f][m] = Next(f, pos[m])
    BY <1>3, <1>8, ChildOrNot
  <2>2. c[f][m] = Next(f, p[m])
    <3>1. CASE f = "left"
      BY <1>2, <1>5, <1>6, <1>7, <2>1, <3>1 DEF Next, Down
    <3>2. CASE f = "right"
      BY <1>2, <1>5, <1>6, <1>7, <2>1, <3>2, SideFacts DEF Next, Down
    <3> QED
      BY <3>1, <3>2, SideFacts
  <2> QED
    BY <1>4, <1>8, <2>2 DEF HasChild
<1>9. CASE k # Sentinel
  <2>1. IsChild(t, T, pos, b, m, f, k)
    BY <1>3, <1>9, ChildFacts
  <2>2. k \in T \ {s} /\ t.parent[k] = m /\ b[f][k] = b[f][m] /\ b[Opposite[f]][k] = pos[m]
    BY <1>3, <2>1 DEF IsChild
  <2>3. v.parent[k] = m
    <3>1. k # temp
      <4>1. temp # Sentinel => t.parent[temp] = s
        BY DEF Cut, IsChild
      <4> QED
        BY <1>9, <2>2, <4>1
    <3> QED
      BY <2>2, <3>1 DEF Spliced
  <2>4. /\ p[k] = Down(i, pos[k]) /\ c[f][k] = Down(i, b[f][k]) /\ c[f][m] = Down(i, b[f][m])
        /\ c[Opposite[f]][k] = Down(i, b[Opposite[f]][k])
    BY <2>2, Opposites DEF Closed
  <2>5. c[f][k] = c[f][m] /\ c[Opposite[f]][k] = p[m]
    BY <1>5, <2>2, <2>4
  <2>6. c[f][m] # Next(f, p[m])
    <3>1. /\ c["left"][k] < p[k] /\ p[k] < c["right"][k]
          /\ p[k] \in Int /\ p[m] \in Int /\ c["left"][k] \in Int /\ c["right"][k] \in Int
      BY <2>2, OrderedNumbers
    <3>2. CASE f = "left"
      BY <2>5, <3>1, <3>2, SideFacts DEF Next
    <3>3. CASE f = "right"
      BY <2>5, <3>1, <3>3, SideFacts DEF Next
    <3> QED
      BY <3>2, <3>3, SideFacts
  <2> QED
    BY <1>4, <2>2, <2>3, <2>5, <2>6 DEF HasChild
<1> QED
  BY <1>8, <1>9

\* What s leaves to the node above it.
LEMMA SpliceChildAbove ==
    ASSUME NEW t, NEW T, NEW N, NEW pos, NEW b, Shape(t, T, N, pos, b),
           NEW s, NEW d, NEW o, NEW temp, Cut(t, T, pos, b, s, d, o, temp),
           NEW v, Spliced(t, v, T, s, temp), NEW i, NEW p, NEW c, Closed(T, pos, b, i, p, c),
           i = Emptied(pos, d, s), Ordered(T \ {s}, N - 1, p, c),
           NEW m, NEW e \in Sides, IsChild(t, T, pos, b, m, e, s), m \in T \ {s}
    PROVE  HasChild(v, T \ {s}, p, c, m, e)
<1>1. /\ s \in T /\ d \in Sides /\ o \in Sides /\ o # d /\ s # t.root
      /\ t.parent[s] = m /\ SideOf(t, s) = e /\ b[d][s] = Next(d, pos[s])
      /\ b[e][s] = b[e][m] /\ b[Opposite[e]][s] = pos[m]
  BY DEF Cut, IsChild
<1>2. /\ pos[s] \in Int /\ b["left"][s] \in Int /\ b["right"][s] \in Int
      /\ b["left"][s] < pos[s] /\ pos[s] < b["right"][s]
  BY <1>1, NodeFacts
<1>3. /\ pos[m] \in Int /\ b["left"][m] \in Int /\ b["right"][m] \in Int
      /\ b["left"][m] < pos[m] /\ pos[m] < b["right"][m]
  BY NodeFacts
<1>4. m \in Cells
  BY NodeFacts
<1>5. v.child[e][m] = temp
  <2>1. v.child[e][m] = PlaceTaken(t, s, temp, e, m)
    BY <1>4 DEF Spliced
  <2> QED
    BY <1>1, <2>1 DEF PlaceTaken
<1>6. /\ p[m] = Down(i, pos[m]) /\ c["left"][m] = Down(i, b["left"][m])
      /\ c["right"][m] = Down(i, b["right"][m])
  BY SideFacts DEF Closed
<1>7. \/ d = "left" /\ o = "right" /\ i = pos[s] - 1 /\ b["left"][s] = pos[s] - 1
      \/ d = "right" /\ o = "left" /\ i = pos[s] /\ b["right"][s] = pos[s] + 1
  BY <1>1, SideFacts DEF Emptied, Next
<1>8. \/ e = "left" /\ b["left"][s] = b["left"][m] /\ b["right"][s] = pos[m]
      \/ e = "right" /\ b["right"][s] = b["right"][m] /\ b["left"][s] = pos[m]
  BY <1>1, SideFacts
<1>9. CASE temp = Sentinel
  <2>1. b["left"][s] = pos[s] - 1 /\ b["right"][s] = pos[s] + 1
    <3>1. b[o][s] = Next(o, pos[s])
      BY <1>9 DEF Cut
    <3> QED
      BY <1>1, <1>7, <3>1, SideFacts DEF Next
  <2>2. c[e][m] = Next(e, p[m])
    <3>1. CASE e = "left"
      <4>1. pos[m] = pos[s] + 1 /\ b["left"][m] = pos[s] - 1
        BY <1>8, <2>1, <3>1, SideFacts
      <4>2. p[m] = pos[s] /\ c["left"][m] = pos[s] - 1
        BY <1>2, <1>6, <1>7, <4>1 DEF Down
      <4> QED
        BY <3>1, <4>2 DEF Next
    <3>2. CASE e = "right"
      <4>1. pos[m] = pos[s] - 1 /\ b["right"][m] = pos[s] + 1
        BY <1>2, <1>8, <2>1, <3>2, SideFacts
      <4>2. p[m] = pos[s] - 1 /\ c["right"][m] = pos[s]
        BY <1>2, <1>6, <1>7, <4>1 DEF Down
      <4> QED
        BY <1>2, <3>2, <4>2, SideFacts DEF Next
    <3> QED
      BY <3>1, <3>2, SideFacts
  <2> QED
    BY <1>5, <1>9, <2>2 DEF HasChild
<1>10. CASE temp # Sentinel
  <2>1. IsChild(t, T, pos, b, s, o, temp)
    BY <1>10 DEF Cut
  <2>2. temp \in T \ {s}
    BY <2>1 DEF IsChild
  <2>3. v.parent[temp] = m
    BY <1>1, <2>2 DEF Spliced
  <2>4. \/ d = "left" /\ b["right"][temp] = b["right"][s] /\ b["left"][temp] = pos[s]
        \/ d = "right" /\ b["left"][temp] = b["left"][s] /\ b["right"][temp] = pos[s]
    BY <1>7, <2>1, SideFacts DEF IsChild
  <2>5. c["left"][temp] = Down(i, b["left"][temp]) /\ c["right"][temp] = Down(i, b["right"][temp])
    BY <2>2, SideFacts DEF Closed
  <2>6. Down(i, pos[s]) = Down(i, b[d][s])
    <3>1. CASE d = "left"
      BY <1>2, <1>7, <3>1, SideFacts DEF Down
    <3>2. CASE d = "right"
      BY <1>2, <1>7, <3>2, SideFacts DEF Down
    <3> QED
      BY <1>7, <3>1, <3>2
  <2>7. c["left"][temp] = Down(i, b["left"][s]) /\ c["right"][temp] = Down(i, b["right"][s])
    <3>1. CASE d = "left"
      BY <1>7, <2>4, <2>5, <2>6, <3>1, SideFacts
    <3>2. CASE d = "right"
      BY <1>7, <2>4, <2>5, <2>6, <3>2, SideFacts
    <3> QED
      BY <1>7, <3>1, <3>2
  <2>8. c[e][temp] = c[e][m] /\ c[Opposite[e]][temp] = p[m]
    <3>1. CASE e = "left"
      BY <1>6, <1>8, <2>7, <3>1, SideFacts
    <3>2. CASE e = "right"
      BY <1>6, <1>8, <2>7, <3>2, SideFacts
    <3> QED
      BY <1>8, <3>1, <3>2
  <2>9. c[e][m] # Next(e, p[m])
    <3>1. /\ c["left"][temp] < p[temp] /\ p[temp] < c["right"][temp]
          /\ p[temp] \in Int /\ p[m] \in Int /\ c["left"][temp] \in Int /\ c["right"][temp] \in Int
      BY <2>2, OrderedNumbers
    <3>2. CASE e = "left"
      BY <2>8, <3>1, <3>2, SideFacts DEF Next
    <3>3. CASE e = "right"
      BY <2>8, <3>1, <3>3, SideFacts DEF Next
    <3> QED
      BY <3>2, <3>3, SideFacts
  <2> QED
    BY <1>5, <2>2, <2>3, <2>8, <2>9 DEF HasChild
<1> QED
  BY <1>9, <1>10

\* After a cut, the links up match the links down.
LEMMA SpliceParent ==
    ASSUME NEW t, NEW T, NEW N, NEW pos, NEW b, Shape(t, T, N, pos, b),
           NEW s, NEW d, NEW o, NEW temp, Cut(t, T, pos, b, s, d, o, temp),
           NEW v, Spliced(t, v, T, s, temp), NEW m \in T \ {s}
    PROVE  HasParent(v, T \ {s}, m)
<1>1. SUFFICES ASSUME m # v.root
               PROVE  v.parent[m] \in T \ {s} /\ \E e \in Sides : v.child[e][v.parent[m]] = m
  BY DEF HasParent
<1>2. s \in T /\ m # Sentinel
  BY NodeFacts DEF Cut
<1>3. CASE m = temp
  <2>1. s # t.root
    BY <1>1, <1>3 DEF Spliced
  <2>2. PICK q \in T : q = t.parent[s]
    BY <1>2, <2>1, ParentFacts
  <2>3. IsChild(t, T, pos, b, q, SideOf(t, s), s)
    BY <1>2, <2>1, <2>2, ParentFacts
  <2>4. q # s /\ q \in Cells /\ SideOf(t, s) \in Sides
    BY <2>3, NodeFacts, SideInSides DEF IsChild
  <2>5. v.parent[m] = q
    BY <1>3, <2>1, <2>2 DEF Spliced
  <2>6. v.child[SideOf(t, s)][q] = m
    <3>1. v.child[SideOf(t, s)][q] = PlaceTaken(t, s, temp, SideOf(t, s), q)
      BY <2>4 DEF Spliced
    <3> QED
      BY <1>3, <2>1, <2>2, <3>1 DEF PlaceTaken
  <2> QED
    BY <2>4, <2>5, <2>6
<1>4. CASE m # temp
  <2>1. m # t.root
    BY <1>1, <1>4 DEF Spliced
  <2>2. PICK q \in T : q = t.parent[m]
    BY <2>1, ParentFacts
  <2>3. PICK e \in Sides : e = SideOf(t, m)
    BY SideInSides
  <2>4. IsChild(t, T, pos, b, q, e, m)
    BY <2>1, <2>2, <2>3, ParentFacts
  <2>5. t.child[e][q] = m /\ q \in Cells
    BY <2>4, NodeFacts DEF IsChild
  <2>6. q # s
    <3>1. t.child[d][s] = Sentinel /\ t.child[o][s] = temp /\ d \in Sides /\ o \in Sides /\ o # d
      BY DEF Cut
    <3> QED
      BY <1>2, <1>4, <2>5, <3>1, SideFacts
  <2>7. v.parent[m] = q
    BY <1>4, <2>2 DEF Spliced
  <2>8. v.child[e][q] = m
    <3>1. v.child[e][q] = PlaceTaken(t, s, temp, e, q)
      BY <2>5 DEF Spliced
    <3>2. ~(s # t.root /\ q = t.parent[s] /\ e = SideOf(t, s))
      <4>1. s # t.root => t.child[SideOf(t, s)][t.parent[s]] = s
        BY <1>2, ParentFacts DEF IsChild
      <4> QED
        BY <2>5, <4>1
    <3> QED
      BY <2>5, <3>1, <3>2 DEF PlaceTaken
  <2> QED
    BY <2>6, <2>7, <2>8
<1> QED
  BY <1>3, <1>4

\* The only node of a tree is its root, with nothing below it.
LEMMA OnlyRoot ==
    ASSUME NEW t, NEW T, NEW N, NEW pos, NEW b, Shape(t, T, N, pos, b), NEW s \in T, s = t.root,
           \A f \in Sides : t.child[f][s] = Sentinel
    PROVE  T = {s}
<1>1. b["left"][s] = Next("left", pos[s]) /\ b["right"][s] = Next("right", pos[s])
  BY ChildOrNot, SideFacts
<1>2. b["left"][s] = 0 /\ b["right"][s] = N + 1
  BY DEF Shape, Rooted
<1>3. pos[s] \in Int /\ N \in Nat
  BY NodeFacts
<1>4. pos[s] = 1 /\ N = 1
  BY <1>1, <1>2, <1>3, SideFacts DEF Next
<1>5. ASSUME NEW m \in T PROVE m = s
  <2>1. pos[m] = 1
    BY <1>4, NodeFacts
  <2> QED
    BY <1>4, <2>1 DEF Shape, Ordered
<1> QED
  BY <1>5

\* After a cut, the root is right.
LEMMA SpliceRooted ==
    ASSUME NEW t, NEW T, NEW N, NEW pos, NEW b, Shape(t, T, N, pos, b),
           NEW s, NEW d, NEW o, NEW temp, Cut(t, T, pos, b, s, d, o, temp),
           NEW v, Spliced(t, v, T, s, temp), NEW i, NEW p, NEW c, Closed(T, pos, b, i, p, c),
           i = Emptied(pos, d, s)
    PROVE  Rooted(v, T \ {s}, N - 1, c)
<1>1. /\ s \in T /\ d \in Sides /\ o \in Sides /\ o # d /\ b[d][s] = Next(d, pos[s])
      /\ t.child[d][s] = Sentinel /\ t.child[o][s] = temp
  BY DEF Cut
<1>2. /\ pos[s] \in Int /\ b["left"][s] \in Int /\ b["right"][s] \in Int /\ N \in Nat
      /\ 0 <= b["left"][s] /\ b["left"][s] < pos[s]
      /\ pos[s] < b["right"][s] /\ b["right"][s] <= N + 1
  BY <1>1, NodeFacts
<1>3. /\ t.root \in T /\ b["left"][t.root] = 0 /\ b["right"][t.root] = N + 1
  BY <1>1 DEF Shape, Rooted
<1>4. \/ d = "left" /\ o = "right" /\ i = pos[s] - 1 /\ b["left"][s] = pos[s] - 1
      \/ d = "right" /\ o = "left" /\ i = pos[s] /\ b["right"][s] = pos[s] + 1
  BY <1>1, SideFacts DEF Emptied, Next
<1>5. i \in Int /\ 0 <= i /\ i <= N
  BY <1>2, <1>4
<1>6. Down(i, 0) = 0 /\ Down(i, N + 1) = (N - 1) + 1
  BY <1>2, <1>5 DEF Down
<1>7. CASE s # t.root
  <2>1. v.root = t.root
    BY <1>7 DEF Spliced
  <2>2. c["left"][t.root] = 0 /\ c["right"][t.root] = (N - 1) + 1
    BY <1>3, <1>6, SideFacts DEF Closed
  <2> QED
    BY <1>3, <1>7, <2>1, <2>2 DEF Rooted
<1>8. CASE s = t.root /\ temp = Sentinel
  <2>1. \A f \in Sides : t.child[f][s] = Sentinel
    BY <1>1, <1>8, SideFacts
  <2>2. T = {s}
    BY <1>1, <1>8, <2>1, OnlyRoot
  <2>3. v.root = Sentinel
    BY <1>8 DEF Spliced
  <2> QED
    BY <2>2, <2>3 DEF Rooted
<1>9. CASE s = t.root /\ temp # Sentinel
  <2>1. IsChild(t, T, pos, b, s, o, temp)
    BY <1>9 DEF Cut
  <2>2. temp \in T \ {s} /\ v.root = temp
    BY <1>9, <2>1 DEF IsChild, Spliced
  <2>3. c["left"][temp] = Down(i, b["left"][temp]) /\ c["right"][temp] = Down(i, b["right"][temp])
    BY <2>2, SideFacts DEF Closed
  <2>4. c["left"][temp] = 0 /\ c["right"][temp] = (N - 1) + 1
    <3>1. CASE d = "left"
      <4>1. b["right"][temp] = N + 1 /\ b["left"][temp] = pos[s] /\ pos[s] = 1 /\ i = 0
        BY <1>2, <1>3, <1>4, <1>9, <2>1, <3>1, SideFacts DEF IsChild
      <4>2. Down(i, 1) = 0
        BY <4>1 DEF Down
      <4> QED
        BY <1>6, <2>3, <4>1, <4>2
    <3>2. CASE d = "right"
      <4>1. b["left"][temp] = 0 /\ b["right"][temp] = pos[s] /\ pos[s] = N /\ i = N
        BY <1>2, <1>3, <1>4, <1>9, <2>1, <3>2, SideFacts DEF IsChild
      <4>2. Down(i, N) = N /\ (N - 1) + 1 = N
        BY <1>2, <4>1 DEF Down
      <4> QED
        BY <1>6, <2>3, <4>1, <4>2
    <3> QED
      BY <1>4, <3>1, <3>2
  <2> QED
    BY <2>2, <2>4 DEF Rooted
<1> QED
  BY <1>7, <1>8, <1>9

\* A tree with a node cut out has a shape.
LEMMA SpliceShape ==
    ASSUME NEW t, NEW T, NEW N, NEW pos, NEW b, Shape(t, T, N, pos, b),
           NEW s, NEW d, NEW o, NEW temp, Cut(t, T, pos, b, s, d, o, temp),
           NEW v, Spliced(t, v, T, s, temp), NEW i, NEW p, NEW c, Closed(T, pos, b, i, p, c),
           i = Emptied(pos, d, s)
    PROVE  Shape(v, T \ {s}, N - 1, p, c)
<1>1. Ordered(T, N, pos, b) /\ s \in T /\ d \in Sides /\ b[d][s] = Next(d, pos[s])
  BY DEF Shape, Cut
<1>2. Ordered(T \ {s}, N - 1, p, c)
  BY <1>1, ClosedOrdered
<1>3. Rooted(v, T \ {s}, N - 1, c)
  BY SpliceRooted
<1>4. ASSUME NEW m \in T \ {s}, NEW f \in Sides PROVE HasChild(v, T \ {s}, p, c, m, f)
  <2>1. CASE t.child[f][m] = s
    <3>1. s # Sentinel
      BY <1>1, NodeFacts
    <3>2. IsChild(t, T, pos, b, m, f, s)
      BY <2>1, <3>1, ChildFacts
    <3> QED
      BY <1>2, <3>2, SpliceChildAbove
  <2>2. CASE t.child[f][m] # s
    BY <1>2, <2>2, SpliceOtherChild
  <2> QED
    BY <2>1, <2>2
<1>5. \A m \in T \ {s} : HasParent(v, T \ {s}, m)
  BY SpliceParent
<1>6. v \in Trees
  BY DEF Spliced
<1> QED
  BY <1>2, <1>3, <1>4, <1>5, <1>6 DEF Shape

\* Edges that s is not at are as they were.
LEMMA SpliceEdge ==
    ASSUME NEW t, NEW T, NEW N, NEW pos, NEW b, NEW B, Sound(t, T, N, pos, b, B),
           NEW s, NEW d, NEW o, NEW temp, Cut(t, T, pos, b, s, d, o, temp),
           NEW v, Spliced(t, v, T, s, temp), v.red = t.red,
           NEW m \in T \ {s}, NEW f \in Sides, t.child[f][m] # s
    PROVE  /\ v.child[f][m] = t.child[f][m]
           /\ B[m] = B[v.child[f][m]] + (IF t.red[m] THEN 0 ELSE 1) + 0
           /\ ~(t.red[m] /\ t.red[v.child[f][m]])
<1>1. Shape(t, T, N, pos, b) /\ Coloured(t, T, B, Sentinel, "left", Sentinel)
  BY DEF Sound
<1>2. s \in T /\ m \in Cells /\ m # Sentinel /\ ~t.red[Sentinel]
  BY <1>1, NodeFacts DEF Cut, Coloured
<1>3. v.child[f][m] = t.child[f][m]
  <2>1. v.child[f][m] = PlaceTaken(t, s, temp, f, m)
    BY <1>2 DEF Spliced
  <2>2. ~(s # t.root /\ m = t.parent[s] /\ f = SideOf(t, s))
    <3>1. s # t.root => t.child[SideOf(t, s)][t.parent[s]] = s
      BY <1>1, <1>2, ParentFacts DEF IsChild
    <3> QED
      BY <3>1
  <2> QED
    BY <2>1, <2>2 DEF PlaceTaken
<1>4. PICK k : k = t.child[f][m]
  OBVIOUS
<1>5. Good(t.red, B, Sentinel, "left", Sentinel, m, f, k)
  BY <1>1, <1>4 DEF Coloured
<1>6. B[m] = B[k] + (IF t.red[m] THEN 0 ELSE 1) + 0
  BY <1>2, <1>5 DEF Good
<1>7. ~(t.red[m] /\ t.red[k])
  BY <1>2, <1>5 DEF Good
<1> QED
  BY <1>3, <1>4, <1>6, <1>7

\* The edges at s: one from above, if s is not the root, and one to temp.
LEMMA CutColours ==
    ASSUME NEW t, NEW T, NEW N, NEW pos, NEW b, NEW B, Sound(t, T, N, pos, b, B),
           NEW s, NEW d, NEW o, NEW temp, Cut(t, T, pos, b, s, d, o, temp)
    PROVE  /\ B[s] \in Nat /\ B[temp] \in Nat
           /\ B[s] = B[temp] + (IF t.red[s] THEN 0 ELSE 1) /\ ~(t.red[s] /\ t.red[temp])
           /\ \A m \in T, f \in Sides : t.child[f][m] = s =>
                /\ B[m] = B[s] + (IF t.red[m] THEN 0 ELSE 1) /\ ~(t.red[m] /\ t.red[s])
<1>1. Shape(t, T, N, pos, b) /\ Coloured(t, T, B, Sentinel, "left", Sentinel)
  BY DEF Sound
<1>2. B \in [Cells -> Nat] /\ ~t.red[Sentinel]
  BY <1>1 DEF Coloured
<1>3. s \in T /\ s \in Cells /\ s # Sentinel /\ o \in Sides /\ t.child[o][s] = temp
  BY <1>1, NodeFacts DEF Cut
<1>4. temp \in Cells
  BY <1>1, <1>3, ChildOrNot
<1>5. B[s] \in Nat /\ B[temp] \in Nat
  BY <1>2, <1>3, <1>4
<1>6. Good(t.red, B, Sentinel, "left", Sentinel, s, o, temp)
  BY <1>1, <1>3 DEF Coloured
<1>7. B[s] = B[temp] + (IF t.red[s] THEN 0 ELSE 1) /\ ~(t.red[s] /\ t.red[temp])
  <2>1. B[s] = B[temp] + (IF t.red[s] THEN 0 ELSE 1) + 0
    BY <1>3, <1>6 DEF Good
  <2>2. PICK r \in {0, 1} : r = (IF t.red[s] THEN 0 ELSE 1)
    OBVIOUS
  <2>3. ~(t.red[s] /\ t.red[temp])
    BY <1>2, <1>3, <1>6 DEF Good
  <2> QED
    BY <1>5, <2>1, <2>2, <2>3
<1>8. ASSUME NEW m \in T, NEW f \in Sides, t.child[f][m] = s
      PROVE  B[m] = B[s] + (IF t.red[m] THEN 0 ELSE 1) /\ ~(t.red[m] /\ t.red[s])
  <2>1. Good(t.red, B, Sentinel, "left", Sentinel, m, f, s)
    BY <1>1, <1>8 DEF Coloured
  <2>2. m # Sentinel
    BY <1>1, NodeFacts
  <2>3. B[m] = B[s] + (IF t.red[m] THEN 0 ELSE 1) + 0
    BY <2>1, <2>2 DEF Good
  <2>4. PICK r \in {0, 1} : r = (IF t.red[m] THEN 0 ELSE 1)
    OBVIOUS
  <2>5. ~(t.red[m] /\ t.red[s])
    BY <1>2, <1>3, <2>1, <2>2 DEF Good
  <2> QED
    BY <1>5, <2>3, <2>4, <2>5
<1> QED
  BY <1>5, <1>7, <1>8

\* Nothing is missing when a red node goes, or the root.
LEMMA SpliceSound ==
    ASSUME NEW t, NEW T, NEW N, NEW pos, NEW b, NEW B, Sound(t, T, N, pos, b, B),
           NEW s, NEW d, NEW o, NEW temp, Cut(t, T, pos, b, s, d, o, temp),
           NEW v, Spliced(t, v, T, s, temp), v.red = t.red, s = t.root \/ t.red[s]
    PROVE  Coloured(v, T \ {s}, B, Sentinel, "left", Sentinel)
<1>1. Shape(t, T, N, pos, b) /\ Coloured(t, T, B, Sentinel, "left", Sentinel)
  BY DEF Sound
<1>2. B \in [Cells -> Nat] /\ B[Sentinel] = 0 /\ ~t.red[Sentinel]
  BY <1>1 DEF Coloured
<1>3. s \in T /\ s # Sentinel
  BY <1>1, NodeFacts DEF Cut
<1>4. ASSUME NEW m \in T \ {s}, NEW f \in Sides
      PROVE  Good(v.red, B, Sentinel, "left", Sentinel, m, f, v.child[f][m])
  <2>1. m # Sentinel /\ m \in Cells
    BY <1>1, NodeFacts
  <2>2. CASE t.child[f][m] # s
    <3>1. PICK k : k = v.child[f][m]
      OBVIOUS
    <3>2. B[m] = B[k] + (IF t.red[m] THEN 0 ELSE 1) + 0 /\ ~(t.red[m] /\ t.red[k])
      BY <2>2, <3>1, SpliceEdge
    <3>3. Good(v.red, B, Sentinel, "left", Sentinel, m, f, k)
      BY <2>1, <3>2 DEF Good
    <3> QED
      BY <3>1, <3>3
  <2>3. CASE t.child[f][m] = s
    <3>1. IsChild(t, T, pos, b, m, f, s)
      BY <1>1, <1>3, <2>3, ChildFacts
    <3>2. s # t.root /\ t.parent[s] = m /\ SideOf(t, s) = f /\ t.red[s]
      BY <3>1 DEF IsChild
    <3>3. v.child[f][m] = temp
      <4>1. v.child[f][m] = PlaceTaken(t, s, temp, f, m)
        BY <2>1 DEF Spliced
      <4> QED
        BY <3>2, <4>1 DEF PlaceTaken
    <3>4. B[m] = B[s] + (IF t.red[m] THEN 0 ELSE 1) /\ ~t.red[m]
      BY <2>3, <3>2, CutColours
    <3>5. B[s] = B[temp] /\ B[temp] \in Nat
      <4>1. B[s] = B[temp] + (IF t.red[s] THEN 0 ELSE 1) /\ B[temp] \in Nat
        BY CutColours
      <4> QED
        BY <3>2, <4>1
    <3>6. B[m] = B[temp] + (IF t.red[m] THEN 0 ELSE 1) + 0
      BY <3>4, <3>5
    <3>7. Good(v.red, B, Sentinel, "left", Sentinel, m, f, temp)
      BY <2>1, <3>4, <3>6 DEF Good
    <3> QED
      BY <3>3, <3>7
  <2> QED
    BY <2>2, <2>3
<1>5. ~v.red[Sentinel]
  BY <1>2
<1> QED
  BY <1>2, <1>4, <1>5 DEF Coloured

\* Without a black node, the edge to temp lacks one.
LEMMA SpliceLacking ==
    ASSUME NEW t, NEW T, NEW N, NEW pos, NEW b, NEW B, Sound(t, T, N, pos, b, B),
           NEW s, NEW d, NEW o, NEW temp, Cut(t, T, pos, b, s, d, o, temp),
           NEW v, Spliced(t, v, T, s, temp), v.red = t.red, s # t.root, ~t.red[s],
           v.parent[temp] = t.parent[s], NEW p, NEW c, Shape(v, T \ {s}, N - 1, p, c)
    PROVE  Lacking(v, T \ {s}, N - 1, p, c, B, temp)
<1>1. Shape(t, T, N, pos, b) /\ Coloured(t, T, B, Sentinel, "left", Sentinel) /\ ~t.red[t.root]
  BY DEF Sound
<1>2. B \in [Cells -> Nat] /\ B[Sentinel] = 0 /\ ~t.red[Sentinel]
  BY <1>1 DEF Coloured
<1>3. s \in T /\ s # Sentinel /\ temp \in T \cup {Sentinel} /\ temp # s
  BY <1>1, NodeFacts DEF Cut
<1>4. PICK q \in T : q = t.parent[s]
  BY <1>1, <1>3, ParentFacts
<1>5. PICK e \in Sides : e = SideOf(t, s)
  BY SideInSides
<1>6. IsChild(t, T, pos, b, q, e, s)
  BY <1>1, <1>3, <1>4, <1>5, ParentFacts
<1>7. q # s /\ q \in Cells /\ q # Sentinel /\ t.child[e][q] = s /\ t.child[Opposite[e]][q] # s
  BY <1>1, <1>6, NodeFacts DEF IsChild
<1>8. v.child[e][q] = temp
  <2>1. v.child[e][q] = PlaceTaken(t, s, temp, e, q)
    BY <1>7 DEF Spliced
  <2> QED
    BY <1>4, <1>5, <2>1 DEF PlaceTaken
<1>9. B[s] = B[temp] + 1 /\ B[temp] \in Nat /\ B[q] \in Nat
  <2>1. B[s] = B[temp] + (IF t.red[s] THEN 0 ELSE 1) /\ B[temp] \in Nat
    BY CutColours
  <2> QED
    BY <1>2, <1>7, <2>1
<1>10. B[q] = (B[temp] + 1) + (IF t.red[q] THEN 0 ELSE 1)
  <2>1. B[q] = B[s] + (IF t.red[q] THEN 0 ELSE 1)
    BY <1>7, CutColours
  <2> QED
    BY <1>9, <2>1
<1>11. v.child[Opposite[e]][q] # temp
  <2>1. PICK f \in Sides : f = Opposite[e]
    BY Opposites
  <2>2. PICK k \in Cells : k = v.child[f][q]
    BY <1>7, ChildOrNot
  <2>3. B[q] = B[k] + (IF t.red[q] THEN 0 ELSE 1) + 0
    BY <1>7, <2>1, <2>2, SpliceEdge
  <2>4. B[k] \in Nat
    BY <1>2
  <2>5. PICK r \in {0, 1} : r = (IF t.red[q] THEN 0 ELSE 1)
    OBVIOUS
  <2>6. B[k] = B[temp] + 1
    BY <1>9, <1>10, <2>3, <2>4, <2>5
  <2> QED
    BY <1>9, <2>1, <2>2, <2>6
<1>12. v.parent[temp] = q
  BY <1>4
<1>13. SideOf(v, temp) = e
  BY <1>8, <1>11, <1>12, SideFacts DEF SideOf
<1>14. ASSUME NEW m \in T \ {s}, NEW f \in Sides
       PROVE  Good(v.red, B, q, e, temp, m, f, v.child[f][m])
  <2>1. m # Sentinel /\ m \in Cells
    BY <1>1, NodeFacts
  <2>2. CASE t.child[f][m] # s
    <3>1. PICK k : k = v.child[f][m]
      OBVIOUS
    <3>2. B[m] = B[k] + (IF t.red[m] THEN 0 ELSE 1) + 0 /\ ~(t.red[m] /\ t.red[k])
      BY <2>2, <3>1, SpliceEdge
    <3>3. ~(m = q /\ f = e)
      BY <1>7, <2>2
    <3>4. Good(v.red, B, q, e, temp, m, f, k)
      BY <3>2, <3>3 DEF Good
    <3> QED
      BY <3>1, <3>4
  <2>3. CASE t.child[f][m] = s
    <3>1. m = q /\ f = e
      <4>1. IsChild(t, T, pos, b, m, f, s)
        BY <1>1, <1>3, <2>3, ChildFacts
      <4> QED
        BY <1>4, <1>5, <4>1 DEF IsChild
    <3>2. PICK r \in {0, 1} : r = (IF t.red[q] THEN 0 ELSE 1)
      OBVIOUS
    <3>3. B[q] = B[temp] + r + 1
      BY <1>9, <1>10, <3>2
    <3>4. B[q] = B[temp] + (IF v.red[q] THEN 0 ELSE 1) + 1
      BY <3>2, <3>3
    <3>5. Good(v.red, B, q, e, temp, q, e, temp)
      BY <3>4 DEF Good
    <3> QED
      BY <1>8, <3>1, <3>5
  <2> QED
    BY <2>2, <2>3
<1>15. Coloured(v, T \ {s}, B, q, e, temp)
  <2>1. ~v.red[Sentinel]
    BY <1>2
  <2> QED
    BY <1>2, <1>14, <2>1 DEF Coloured
<1>16. v.root = t.root /\ t.root \in T \ {s} /\ ~v.red[v.root]
  <2>1. v.root = t.root
    BY DEF Spliced
  <2>2. t.root \in T
    BY <1>1, <1>3 DEF Shape, Rooted
  <2> QED
    BY <1>1, <2>1, <2>2
<1>17. temp # v.root
  <2>1. CASE temp = Sentinel
    <3>1. t.root # Sentinel
      BY <1>1, <1>16, NodeFacts
    <3> QED
      BY <1>16, <2>1, <3>1
  <2>2. CASE temp # Sentinel
    <3>1. IsChild(t, T, pos, b, s, o, temp)
      BY <2>2 DEF Cut
    <3> QED
      BY <1>16, <3>1 DEF IsChild
  <2> QED
    BY <2>1, <2>2
<1>18. temp \in (T \ {s}) \cup {Sentinel} /\ q \in T \ {s} /\ T \ {s} # {}
  BY <1>3, <1>7
<1> QED
  BY <1>8, <1>12, <1>13, <1>15, <1>16, <1>17, <1>18 DEF Lacking

\* The root may always become black.
LEMMA RootBlackened ==
    ASSUME NEW t, NEW T, NEW N, NEW pos, NEW b, NEW B, Shape(t, T, N, pos, b), T # {},
           Coloured(t, T, B, Sentinel, "left", Sentinel), NEW u, u = WithRed(t, t.root, FALSE)
    PROVE  \E C : Sound(u, T, N, pos, b, C)
<1>1. PICK x \in T : x = t.root
  BY DEF Shape, Rooted
<1>2. t \in Trees /\ x \in Cells /\ x # Sentinel /\ Sentinel \in Cells
  BY <1>1, NodeFacts, CellFacts DEF Shape
<1>3. B \in [Cells -> Nat] /\ B[Sentinel] = 0 /\ ~t.red[Sentinel]
  BY DEF Coloured
<1>4. OneRed(t, u, x, FALSE)
  BY <1>1, <1>2, RecolourOne
<1>5. Recoloured(t, u) /\ u.child = t.child /\ u.root = x
  BY <1>1, <1>4 DEF OneRed, Recoloured
<1>6. Shape(u, T, N, pos, b)
  BY <1>5, RecolouredShape
<1>7. ~u.red[x] /\ ~u.red[Sentinel] /\ ~u.red[u.root]
  BY <1>2, <1>3, <1>4, <1>5 DEF OneRed
<1>8. PICK r \in {0, 1} : r = (IF t.red[x] THEN 0 ELSE 1)
  OBVIOUS
<1>9. PICK C : C = [B EXCEPT ![x] = B[x] + (1 - r)]
  OBVIOUS
<1>10. B[x] \in Nat /\ B[x] + (1 - r) \in Nat
  BY <1>2, <1>3
<1>11. /\ C \in [Cells -> Nat] /\ C[x] = B[x] + (1 - r) /\ C[Sentinel] = 0
       /\ \A k \in Cells : k # x => C[k] = B[k]
  BY <1>2, <1>3, <1>9, <1>10
<1>12. ASSUME NEW m \in T, NEW e \in Sides
       PROVE  Good(u.red, C, Sentinel, "left", Sentinel, m, e, u.child[e][m])
  <2>1. PICK c \in Cells : c = t.child[e][m] /\ c = u.child[e][m]
    BY <1>5, ChildOrNot
  <2> SUFFICES Good(u.red, C, Sentinel, "left", Sentinel, m, e, c)
    BY <2>1
  <2>2. Good(t.red, B, Sentinel, "left", Sentinel, m, e, c)
    BY <2>1 DEF Coloured
  <2>3. m \in Cells /\ m # Sentinel
    BY NodeFacts
  <2>4. c # x
    <3>1. c # Sentinel => IsChild(t, T, pos, b, m, e, c)
      BY <2>1, ChildFacts
    <3> QED
      BY <1>1, <1>2, <3>1 DEF IsChild
  <2>5. B[m] \in Nat /\ B[c] \in Nat /\ C[c] = B[c] /\ u.red[c] = t.red[c]
    BY <1>3, <1>4, <1>11, <2>1, <2>3, <2>4 DEF OneRed
  <2>6. B[m] = B[c] + (IF t.red[m] THEN 0 ELSE 1) + 0
    BY <2>2, <2>3 DEF Good
  <2>7. ~(t.red[m] /\ t.red[c])
    BY <1>3, <2>2, <2>3 DEF Good
  <2>8. CASE m = x
    <3>1. B[m] = B[c] + r
      BY <1>8, <2>5, <2>6, <2>8
    <3>2. C[m] = C[c] + 1 + 0
      BY <1>11, <2>5, <2>8, <3>1
    <3>3. C[m] = C[c] + (IF u.red[m] THEN 0 ELSE 1) + 0
      BY <1>7, <2>8, <3>2
    <3> QED
      BY <1>7, <2>3, <2>8, <3>3 DEF Good
  <2>9. CASE m # x
    <3>1. C[m] = B[m] /\ u.red[m] = t.red[m]
      BY <1>4, <1>11, <2>3, <2>9 DEF OneRed
    <3>2. C[m] = C[c] + (IF u.red[m] THEN 0 ELSE 1) + 0
      BY <2>5, <2>6, <3>1
    <3>3. ~(u.red[m] /\ u.red[c])
      BY <2>5, <2>7, <3>1
    <3> QED
      BY <2>3, <3>2, <3>3 DEF Good
  <2> QED
    BY <2>8, <2>9
<1>13. Coloured(u, T, C, Sentinel, "left", Sentinel)
  BY <1>7, <1>11, <1>12 DEF Coloured
<1> QED
  BY <1>6, <1>7, <1>13 DEF Sound

-----------------------------------------------------------------------------
(* A node that is not in the tree is cleared.                              *)

\* u is t as far as the nodes of T and the sentinel go.
Alike(t, u, T) ==
    /\ u \in Trees /\ u.root = t.root
    /\ \A f \in Sides, k \in T : u.child[f][k] = t.child[f][k]
    /\ \A k \in T \cup {Sentinel} : u.parent[k] = t.parent[k] /\ u.red[k] = t.red[k]

\* Trees alike have the same shape.
LEMMA AlikeShape ==
    ASSUME NEW t, NEW T, NEW N, NEW pos, NEW b, Shape(t, T, N, pos, b), NEW u, Alike(t, u, T)
    PROVE  Shape(u, T, N, pos, b)
<1>1. ASSUME NEW m \in T, NEW f \in Sides PROVE HasChild(u, T, pos, b, m, f)
  <2>1. HasChild(t, T, pos, b, m, f)
    BY DEF Shape
  <2>2. PICK k : k = t.child[f][m]
    OBVIOUS
  <2>3. u.child[f][m] = k
    BY <2>2 DEF Alike
  <2>4. k \in T => u.parent[k] = t.parent[k]
    BY DEF Alike
  <2> QED
    BY <2>1, <2>2, <2>3, <2>4 DEF HasChild
<1>2. ASSUME NEW m \in T PROVE HasParent(u, T, m)
  <2>1. m # t.root => /\ t.parent[m] \in T /\ u.parent[m] = t.parent[m]
                      /\ \E d \in Sides : t.child[d][t.parent[m]] = m
    BY DEF Shape, HasParent, Alike
  <2>2. u.root = t.root
    BY DEF Alike
  <2>3. \A k \in T, d \in Sides : u.child[d][k] = t.child[d][k]
    BY DEF Alike
  <2> QED
    BY <2>1, <2>2, <2>3 DEF HasParent
<1>3. Ordered(T, N, pos, b) /\ Rooted(u, T, N, b) /\ u \in Trees
  BY DEF Shape, Rooted, Alike
<1> QED
  BY <1>1, <1>2, <1>3 DEF Shape

\* Trees alike are coloured alike.
LEMMA AlikeColoured ==
    ASSUME NEW t, NEW T, NEW N, NEW pos, NEW b, Shape(t, T, N, pos, b), NEW u, Alike(t, u, T),
           NEW B, NEW q, NEW s, NEW x, Coloured(t, T, B, q, s, x)
    PROVE  Coloured(u, T, B, q, s, x)
<1>1. B \in [Cells -> Nat] /\ B[Sentinel] = 0 /\ ~t.red[Sentinel]
  BY DEF Coloured
<1>2. ~u.red[Sentinel]
  BY <1>1 DEF Alike
<1>3. ASSUME NEW m \in T, NEW e \in Sides PROVE Good(u.red, B, q, s, x, m, e, u.child[e][m])
  <2>1. PICK c \in T \cup {Sentinel} : c = t.child[e][m]
    BY ChildOrNot
  <2>2. u.child[e][m] = c /\ u.red[c] = t.red[c] /\ u.red[m] = t.red[m]
    BY <2>1 DEF Alike
  <2>3. Good(t.red, B, q, s, x, m, e, c)
    BY <2>1 DEF Coloured
  <2>4. Good(u.red, B, q, s, x, m, e, c)
    BY <2>2, <2>3 DEF Good
  <2> QED
    BY <2>2, <2>4
<1> QED
  BY <1>1, <1>2, <1>3 DEF Coloured

\* Trees alike have one root and its colour.
LEMMA AlikeRoot ==
    ASSUME NEW t, NEW T, NEW N, NEW pos, NEW b, Shape(t, T, N, pos, b), NEW u, Alike(t, u, T)
    PROVE  u.root = t.root /\ u.red[u.root] = t.red[t.root] /\ t.root \in T \cup {Sentinel}
<1>1. t.root \in T \cup {Sentinel}
  BY DEF Shape, Rooted
<1> QED
  BY <1>1 DEF Alike

\* A tree like a red-black one is red-black.
LEMMA AlikeSound ==
    ASSUME NEW t, NEW T, NEW N, NEW pos, NEW b, NEW B, Sound(t, T, N, pos, b, B),
           NEW u, Alike(t, u, T)
    PROVE  Sound(u, T, N, pos, b, B)
<1>1. /\ Shape(t, T, N, pos, b) /\ Coloured(t, T, B, Sentinel, "left", Sentinel) /\ ~t.red[t.root]
  BY DEF Sound
<1>2. Shape(u, T, N, pos, b)
  BY <1>1, AlikeShape
<1>3. Coloured(u, T, B, Sentinel, "left", Sentinel)
  BY <1>1, AlikeColoured
<1>4. ~u.red[u.root]
  BY <1>1, AlikeRoot
<1> QED
  BY <1>2, <1>3, <1>4 DEF Sound

\* Trees alike lack the same.
LEMMA AlikeLacking ==
    ASSUME NEW t, NEW T, NEW N, NEW pos, NEW b, NEW B, NEW x, Lacking(t, T, N, pos, b, B, x),
           NEW u, Alike(t, u, T)
    PROVE  Lacking(u, T, N, pos, b, B, x)
<1>1. Shape(t, T, N, pos, b) /\ T # {} /\ ~t.red[t.root] /\ x \in T \cup {Sentinel}
  BY DEF Lacking
<1>2. Shape(u, T, N, pos, b) /\ ~u.red[u.root] /\ u.root = t.root
  BY <1>1, AlikeShape, AlikeRoot
<1>3. CASE x = t.root
  <2>1. Coloured(t, T, B, Sentinel, "left", x)
    BY <1>3 DEF Lacking
  <2>2. Coloured(u, T, B, Sentinel, "left", x)
    BY <1>1, <2>1, AlikeColoured
  <2> QED
    BY <1>1, <1>2, <1>3, <2>2 DEF Lacking
<1>4. CASE x # t.root
  <2>1. PICK q \in T : q = t.parent[x]
    BY <1>4 DEF Lacking
  <2>2. PICK s \in Sides : s = SideOf(t, x)
    BY SideInSides
  <2>3. t.child[s][q] = x /\ Coloured(t, T, B, q, s, x)
    BY <1>4, <2>1, <2>2 DEF Lacking
  <2>4. u.parent[x] = q
    BY <1>1, <2>1 DEF Alike
  <2>5. u.child["left"][q] = t.child["left"][q] /\ u.child[s][q] = x
    BY ZenonT(60), <2>3, SideFacts DEF Alike
  <2>6. SideOf(u, x) = s
    BY <2>1, <2>2, <2>4, <2>5 DEF SideOf
  <2>7. Coloured(u, T, B, q, s, x)
    BY <1>1, <2>3, AlikeColoured
  <2> QED
    BY <1>1, <1>2, <1>4, <2>4, <2>5, <2>6, <2>7 DEF Lacking
<1> QED
  BY <1>3, <1>4

-----------------------------------------------------------------------------
(* A node takes the place of another.                                      *)

Ren(n, y, k) == IF k = n THEN y ELSE k

\* y, which is not in the tree v, is in u what n is in v.
Moved(v, u, S, n, y) ==
    /\ n \in S /\ y \in Nodes \ S
    /\ u \in Trees /\ u.root = Ren(n, y, v.root)
    /\ \A f \in Sides, k \in S : u.child[f][Ren(n, y, k)] = Ren(n, y, v.child[f][k])
    /\ \A k \in S : k # v.root => u.parent[Ren(n, y, k)] = Ren(n, y, v.parent[k])
    /\ \A k \in S \cup {Sentinel} : u.red[Ren(n, y, k)] = v.red[k]

\* y instead of n.
Instead(S, n, y) == (S \ {n}) \cup {y}

Renumbered(S, n, y, p, c, p1, c1) ==
    /\ p1 \in [Nodes -> Int] /\ c1 \in [Sides -> [Nodes -> Int]]
    /\ \A k \in S : /\ p1[Ren(n, y, k)] = p[k]
                    /\ \A f \in Sides : c1[f][Ren(n, y, k)] = c[f][k]

RenamedPos(p, n, y) == [k \in Nodes |-> IF k = y THEN p[n] ELSE p[k]]
RenamedBounds(c, n, y) == [f \in Sides |-> [k \in Nodes |-> IF k = y THEN c[f][n] ELSE c[f][k]]]

\* There are positions and bounds with y for n.
LEMMA RenumberedExists ==
    ASSUME NEW S, NEW N, NEW p, NEW c, Ordered(S, N, p, c), NEW n \in S, NEW y \in Nodes \ S
    PROVE  Renumbered(S, n, y, p, c, RenamedPos(p, n, y), RenamedBounds(c, n, y))
<1>1. PICK p1 : p1 = RenamedPos(p, n, y)
  OBVIOUS
<1>2. PICK c1 : c1 = RenamedBounds(c, n, y)
  OBVIOUS
<1>3. p \in [Nodes -> Int] /\ c \in [Sides -> [Nodes -> Int]] /\ S \subseteq Nodes
  BY DEF Ordered
<1>4. p1 \in [Nodes -> Int] /\ \A k \in S : p1[Ren(n, y, k)] = p[k]
  BY <1>1, <1>3 DEF RenamedPos, Ren
<1>5. \A f \in Sides : [k \in Nodes |-> IF k = y THEN c[f][n] ELSE c[f][k]] \in [Nodes -> Int]
  BY <1>3
<1>6. c1 \in [Sides -> [Nodes -> Int]]
  BY <1>2, <1>5 DEF RenamedBounds
<1>7. ASSUME NEW f \in Sides, NEW k \in S PROVE c1[f][Ren(n, y, k)] = c[f][k]
  <2>1. \A m \in Nodes : c1[f][m] = IF m = y THEN c[f][n] ELSE c[f][m]
    BY <1>2 DEF RenamedBounds
  <2> QED
    BY <1>3, <2>1 DEF Ren
<1> QED
  BY <1>1, <1>2, <1>4, <1>6, <1>7 DEF Renumbered

Renames(S, n, y, T) ==
    /\ T \in SUBSET Nodes
    /\ \A k \in S : Ren(n, y, k) \in T
    /\ \A m \in T : \E k \in S : m = Ren(n, y, k)
    /\ \A k, l \in S \cup {Sentinel} : Ren(n, y, k) = Ren(n, y, l) => k = l
    /\ Ren(n, y, Sentinel) = Sentinel

\* Renaming n to y is one to one.
LEMMA RenFacts ==
    ASSUME NEW S \in SUBSET Nodes, NEW n \in S, NEW y \in Nodes \ S
    PROVE  Renames(S, n, y, Instead(S, n, y))
<1>1. \A k \in S : Ren(n, y, k) \in Instead(S, n, y)
  BY DEF Ren, Instead
<1>2. \A m \in Instead(S, n, y) : \E k \in S : m = Ren(n, y, k)
  BY DEF Ren, Instead
<1>3. \A k, l \in S \cup {Sentinel} : Ren(n, y, k) = Ren(n, y, l) => k = l
  BY CellFacts DEF Ren
<1>4. Ren(n, y, Sentinel) = Sentinel
  BY CellFacts DEF Ren
<1>5. Instead(S, n, y) \in SUBSET Nodes
  BY DEF Instead
<1> QED
  BY <1>1, <1>2, <1>3, <1>4, <1>5 DEF Renames

\* They are in order.
LEMMA RenumberedOrdered ==
    ASSUME NEW S, NEW N, NEW p, NEW c, Ordered(S, N, p, c), NEW n \in S, NEW y \in Nodes \ S,
           NEW p1, NEW c1, Renumbered(S, n, y, p, c, p1, c1)
    PROVE  Ordered(Instead(S, n, y), N, p1, c1)
<1>1. S \in SUBSET Nodes /\ N \in Nat
  BY DEF Ordered
<1>2. PICK T : T = Instead(S, n, y)
  OBVIOUS
<1>3. T \in SUBSET Nodes /\ \A m \in T : \E k \in S : m = Ren(n, y, k)
  <2>1. Renames(S, n, y, T)
    BY <1>1, <1>2, RenFacts
  <2> QED
    BY <2>1 DEF Renames
<1>4. ASSUME NEW k \in S
      PROVE  /\ p1[Ren(n, y, k)] = p[k] /\ c1["left"][Ren(n, y, k)] = c["left"][k]
             /\ c1["right"][Ren(n, y, k)] = c["right"][k]
  BY SideFacts DEF Renumbered
<1>5. ASSUME NEW m \in T
      PROVE  /\ 0 <= c1["left"][m] /\ c1["left"][m] < p1[m]
             /\ p1[m] < c1["right"][m] /\ c1["right"][m] <= N + 1
  <2>1. PICK k \in S : m = Ren(n, y, k)
    BY <1>3
  <2>2. /\ 0 <= c["left"][k] /\ c["left"][k] < p[k]
        /\ p[k] < c["right"][k] /\ c["right"][k] <= N + 1
    BY OrderedNumbers
  <2> QED
    BY <1>4, <2>1, <2>2
<1>6. ASSUME NEW m \in T, NEW l \in T
      PROVE  (p1[m] = p1[l] => m = l) /\ (p1[m] < p1[l] => Laminar(T, p1, c1, m, l))
  <2>1. PICK k \in S : m = Ren(n, y, k)
    BY <1>3
  <2>2. PICK j \in S : l = Ren(n, y, j)
    BY <1>3
  <2>3. p[k] = p[j] => k = j
    BY DEF Ordered
  <2>4. p[k] < p[j] => Laminar(S, p, c, k, j)
    BY DEF Ordered, Laminar
  <2>5. p1[m] = p[k] /\ c1["left"][m] = c["left"][k] /\ c1["right"][m] = c["right"][k]
    BY <1>4, <2>1
  <2>6. p1[l] = p[j] /\ c1["left"][l] = c["left"][j] /\ c1["right"][l] = c["right"][j]
    BY <1>4, <2>2
  <2>7. Laminar(S, p, c, k, j) => Laminar(T, p1, c1, m, l)
    BY <2>5, <2>6 DEF Laminar
  <2> QED
    BY <2>1, <2>2, <2>3, <2>4, <2>5, <2>6, <2>7
<1>7. p1 \in [Nodes -> Int] /\ c1 \in [Sides -> [Nodes -> Int]]
  BY DEF Renumbered
<1>8. Ordered(T, N, p1, c1)
  BY <1>1, <1>3, <1>5, <1>6, <1>7 DEF Ordered, Laminar
<1> QED
  BY <1>2, <1>8

\* A tree in which y is where n was has the same shape.
LEMMA MovedShape ==
    ASSUME NEW v, NEW S, NEW N, NEW p, NEW c, Shape(v, S, N, p, c),
           NEW n, NEW y, NEW u, Moved(v, u, S, n, y),
           NEW p1, NEW c1, Renumbered(S, n, y, p, c, p1, c1)
    PROVE  Shape(u, Instead(S, n, y), N, p1, c1)
<1>1. n \in S /\ y \in Nodes \ S /\ S \in SUBSET Nodes /\ Ordered(S, N, p, c) /\ u \in Trees
  BY DEF Moved, Shape, Ordered
<1>2. PICK T : T = Instead(S, n, y)
  OBVIOUS
<1>3. /\ \A k \in S : Ren(n, y, k) \in T
      /\ \A m \in T : \E k \in S : m = Ren(n, y, k)
      /\ \A k, l \in S \cup {Sentinel} : Ren(n, y, k) = Ren(n, y, l) => k = l
      /\ Ren(n, y, Sentinel) = Sentinel
  <2>1. Renames(S, n, y, T)
    BY <1>1, <1>2, RenFacts
  <2> QED
    BY <2>1 DEF Renames
<1>4. Ordered(T, N, p1, c1)
  BY <1>1, <1>2, RenumberedOrdered
<1>5. Rooted(u, T, N, c1)
  <2>1. v.root \in S /\ c["left"][v.root] = 0 /\ c["right"][v.root] = N + 1
    BY <1>1 DEF Shape, Rooted
  <2>2. u.root = Ren(n, y, v.root) /\ u.root \in T
    BY <1>3, <2>1 DEF Moved
  <2>3. c1["left"][u.root] = 0 /\ c1["right"][u.root] = N + 1
    BY <2>1, <2>2, SideFacts DEF Renumbered
  <2> QED
    BY <2>2, <2>3 DEF Rooted
<1>6. ASSUME NEW m \in T, NEW f \in Sides PROVE HasChild(u, T, p1, c1, m, f)
  <2>1. PICK k \in S : m = Ren(n, y, k)
    BY <1>3
  <2>2. PICK j \in S \cup {Sentinel} : j = v.child[f][k]
    BY ChildOrNot
  <2>3. u.child[f][m] = Ren(n, y, j)
    BY <2>1, <2>2 DEF Moved
  <2>4. p1[m] = p[k] /\ c1[f][m] = c[f][k]
    BY <2>1 DEF Renumbered
  <2>5. CASE j = Sentinel
    <3>1. c[f][k] = Next(f, p[k])
      <4>1. v.child[f][k] = Sentinel <=> c[f][k] = Next(f, p[k])
        BY ChildOrNot
      <4> QED
        BY <2>2, <2>5, <4>1
    <3> QED
      BY <1>3, <2>3, <2>4, <2>5, <3>1 DEF HasChild
  <2>6. CASE j # Sentinel
    <3>1. IsChild(v, S, p, c, k, f, j)
      BY <2>2, <2>6, ChildFacts
    <3>2. /\ j \in S /\ j # v.root /\ v.parent[j] = k /\ c[f][j] = c[f][k]
          /\ c[Opposite[f]][j] = p[k] /\ c[f][k] # Next(f, p[k])
      BY <3>1 DEF IsChild
    <3>3. u.parent[Ren(n, y, j)] = m
      BY <2>1, <3>2 DEF Moved
    <3>4. c1[f][Ren(n, y, j)] = c[f][j] /\ c1[Opposite[f]][Ren(n, y, j)] = c[Opposite[f]][j]
      BY <3>2, Opposites DEF Renumbered
    <3>5. Ren(n, y, j) \in T
      BY <1>3, <3>2
    <3> QED
      BY <2>3, <2>4, <3>2, <3>3, <3>4, <3>5 DEF HasChild
  <2> QED
    BY <2>5, <2>6
<1>7. ASSUME NEW m \in T PROVE HasParent(u, T, m)
  <2> SUFFICES ASSUME m # u.root
               PROVE  u.parent[m] \in T /\ \E d \in Sides : u.child[d][u.parent[m]] = m
    BY DEF HasParent
  <2>1. PICK k \in S : m = Ren(n, y, k)
    BY <1>3
  <2>2. k # v.root
    BY <2>1 DEF Moved
  <2>3. PICK q \in S : q = v.parent[k]
    BY <2>2, ParentFacts
  <2>4. PICK d \in Sides : v.child[d][q] = k
    BY <2>2, <2>3 DEF Shape, HasParent
  <2>5. u.parent[m] = Ren(n, y, q) /\ u.child[d][Ren(n, y, q)] = m
    BY <2>1, <2>2, <2>3, <2>4 DEF Moved
  <2> QED
    BY <1>3, <2>5
<1>8. Shape(u, T, N, p1, c1)
  BY <1>1, <1>4, <1>5, <1>6, <1>7 DEF Shape
<1> QED
  BY <1>2, <1>8

\* A tree in which y is where n was has the same colours.
LEMMA MovedColoured ==
    ASSUME NEW v, NEW S, NEW N, NEW p, NEW c, Shape(v, S, N, p, c),
           NEW n, NEW y, NEW u, Moved(v, u, S, n, y),
           NEW B, NEW q \in S \cup {Sentinel}, NEW s, NEW x \in S \cup {Sentinel},
           Coloured(v, S, B, q, s, x)
    PROVE  Coloured(u, Instead(S, n, y), [B EXCEPT ![y] = B[n]], Ren(n, y, q), s, Ren(n, y, x))
<1>1. n \in S /\ y \in Nodes \ S /\ S \in SUBSET Nodes
  BY DEF Moved, Shape, Ordered
<1>2. PICK T : T = Instead(S, n, y)
  OBVIOUS
<1>3. /\ \A m \in T : \E k \in S : m = Ren(n, y, k)
      /\ \A k, l \in S \cup {Sentinel} : Ren(n, y, k) = Ren(n, y, l) => k = l
      /\ Ren(n, y, Sentinel) = Sentinel
  <2>1. Renames(S, n, y, T)
    BY <1>1, <1>2, RenFacts
  <2> QED
    BY <2>1 DEF Renames
<1>4. PICK C : C = [B EXCEPT ![y] = B[n]]
  OBVIOUS
<1>5. B \in [Cells -> Nat] /\ B[Sentinel] = 0 /\ ~v.red[Sentinel]
  BY DEF Coloured
<1>6. n \in Cells /\ y \in Cells /\ y # Sentinel /\ Sentinel \in Cells /\ S \subseteq Cells
  BY <1>1, CellFacts
<1>7. C \in [Cells -> Nat] /\ C[Sentinel] = 0 /\ \A k \in S \cup {Sentinel} : C[Ren(n, y, k)] = B[k]
  <2>1. B[n] \in Nat
    BY <1>5, <1>6
  <2>2. C \in [Cells -> Nat] /\ C[y] = B[n] /\ \A k \in Cells : k # y => C[k] = B[k]
    BY <1>4, <1>5, <1>6, <2>1
  <2>3. C[Sentinel] = 0
    BY <1>5, <1>6, <2>2
  <2>4. ASSUME NEW k \in S \cup {Sentinel} PROVE C[Ren(n, y, k)] = B[k]
    BY <1>1, <1>6, <2>2 DEF Ren
  <2> QED
    BY <2>2, <2>3, <2>4
<1>8. ~u.red[Sentinel] /\ \A k \in S \cup {Sentinel} : u.red[Ren(n, y, k)] = v.red[k]
  BY <1>3, <1>5 DEF Moved
<1>9. ASSUME NEW m \in T, NEW e \in Sides
      PROVE  Good(u.red, C, Ren(n, y, q), s, Ren(n, y, x), m, e, u.child[e][m])
  <2>1. PICK k \in S : m = Ren(n, y, k)
    BY <1>3
  <2>2. PICK j \in S \cup {Sentinel} : j = v.child[e][k]
    BY ChildOrNot
  <2>3. PICK h : h = Ren(n, y, j)
    OBVIOUS
  <2>4. u.child[e][m] = h
    BY <2>1, <2>2, <2>3 DEF Moved
  <2>5. Good(v.red, B, q, s, x, k, e, j)
    BY <2>2 DEF Coloured
  <2>6. C[m] = B[k] /\ C[h] = B[j] /\ u.red[m] = v.red[k] /\ u.red[h] = v.red[j]
    BY <1>7, <1>8, <2>1, <2>3
  <2>7. (m = Ren(n, y, q) <=> k = q)
    BY <1>3, <2>1
  <2>8. x \in {k, j} => Ren(n, y, x) \in {m, h}
    BY <2>1, <2>3
  <2>9. C[m] = C[h] + (IF u.red[m] THEN 0 ELSE 1) + (IF m = Ren(n, y, q) /\ e = s THEN 1 ELSE 0)
    <3>1. B[k] = B[j] + (IF v.red[k] THEN 0 ELSE 1) + (IF k = q /\ e = s THEN 1 ELSE 0)
      BY <2>5 DEF Good
    <3>2. PICK r \in {0, 1} : r = (IF v.red[k] THEN 0 ELSE 1)
      OBVIOUS
    <3>3. PICK z \in {0, 1} : z = (IF k = q /\ e = s THEN 1 ELSE 0)
      OBVIOUS
    <3>4. r = (IF u.red[m] THEN 0 ELSE 1) /\ z = (IF m = Ren(n, y, q) /\ e = s THEN 1 ELSE 0)
      BY <2>6, <2>7, <3>2, <3>3
    <3>5. C[m] = C[h] + r + z
      BY <2>6, <3>1, <3>2, <3>3
    <3> QED
      BY <3>4, <3>5
  <2>10. u.red[m] /\ u.red[h] => Ren(n, y, x) \in {m, h}
    BY <2>5, <2>6, <2>8 DEF Good
  <2>11. Good(u.red, C, Ren(n, y, q), s, Ren(n, y, x), m, e, h)
    BY <2>9, <2>10 DEF Good
  <2> QED
    BY <2>4, <2>11
<1>10. Coloured(u, T, C, Ren(n, y, q), s, Ren(n, y, x))
  BY <1>7, <1>8, <1>9 DEF Coloured
<1> QED
  BY <1>2, <1>4, <1>10

\* A tree in which y is where n was is red-black too.
LEMMA MovedSound ==
    ASSUME NEW v, NEW S, NEW N, NEW p, NEW c, NEW B, Sound(v, S, N, p, c, B),
           NEW n, NEW y, NEW u, Moved(v, u, S, n, y)
    PROVE  \E p1, c1, C : Sound(u, Instead(S, n, y), N, p1, c1, C)
<1>1. Shape(v, S, N, p, c) /\ Coloured(v, S, B, Sentinel, "left", Sentinel) /\ ~v.red[v.root]
  BY DEF Sound
<1>2. n \in S /\ y \in Nodes \ S /\ Ordered(S, N, p, c)
  BY <1>1 DEF Moved, Shape
<1>3. PICK p1, c1 : Renumbered(S, n, y, p, c, p1, c1)
  BY <1>2, RenumberedExists
<1>4. Shape(u, Instead(S, n, y), N, p1, c1)
  BY <1>1, <1>3, MovedShape
<1>5. Ren(n, y, Sentinel) = Sentinel
  BY <1>2, CellFacts DEF Ren, Ordered
<1>6. \E C : Coloured(u, Instead(S, n, y), C, Sentinel, "left", Sentinel)
  <2>1. PICK z \in S \cup {Sentinel} : z = Sentinel
    OBVIOUS
  <2>2. Coloured(u, Instead(S, n, y), [B EXCEPT ![y] = B[n]], Ren(n, y, z), "left", Ren(n, y, z))
    BY <1>1, <2>1, MovedColoured
  <2> QED
    BY <1>5, <2>1, <2>2
<1>7. ~u.red[u.root]
  <2>1. v.root \in S
    BY <1>1, <1>2 DEF Shape, Rooted
  <2>2. u.root = Ren(n, y, v.root) /\ u.red[Ren(n, y, v.root)] = v.red[v.root]
    BY <2>1 DEF Moved
  <2> QED
    BY <1>1, <2>2
<1> QED
  BY <1>4, <1>6, <1>7 DEF Sound

\* A tree in which y is where n was lacks what it lacked.
LEMMA MovedLacking ==
    ASSUME NEW v, NEW S, NEW N, NEW p, NEW c, NEW B, NEW x, Lacking(v, S, N, p, c, B, x),
           NEW n, NEW y, NEW u, Moved(v, u, S, n, y), x # n, x # v.root,
           u.parent[x] = Ren(n, y, v.parent[x])
    PROVE  \E p1, c1, C : Lacking(u, Instead(S, n, y), N, p1, c1, C, x)
<1>1. Shape(v, S, N, p, c) /\ ~v.red[v.root] /\ x \in S \cup {Sentinel}
  BY DEF Lacking
<1>2. n \in S /\ y \in Nodes \ S /\ Ordered(S, N, p, c) /\ S \in SUBSET Nodes
  BY <1>1 DEF Moved, Shape, Ordered
<1>3. PICK p1, c1 : Renumbered(S, n, y, p, c, p1, c1)
  BY <1>2, RenumberedExists
<1>4. PICK T : T = Instead(S, n, y)
  OBVIOUS
<1>5. Shape(u, T, N, p1, c1)
  BY <1>1, <1>3, <1>4, MovedShape
<1>6. /\ \A k \in S : Ren(n, y, k) \in T
      /\ \A k, l \in S \cup {Sentinel} : Ren(n, y, k) = Ren(n, y, l) => k = l
  <2>1. Renames(S, n, y, T)
    BY <1>2, <1>4, RenFacts
  <2> QED
    BY <2>1 DEF Renames
<1>7. Ren(n, y, x) = x
  BY DEF Ren
<1>8. PICK q \in S : q = v.parent[x]
  BY DEF Lacking
<1>9. PICK s \in Sides : s = SideOf(v, x)
  BY SideInSides
<1>10. v.child[s][q] = x /\ Coloured(v, S, B, q, s, x)
  BY <1>8, <1>9 DEF Lacking
<1>11. PICK q1 \in T : q1 = Ren(n, y, q)
  BY <1>6
<1>12. u.parent[x] = q1
  BY <1>8, <1>11
<1>13. u.child[s][q1] = x
  BY <1>7, <1>10, <1>11 DEF Moved
<1>14. SideOf(u, x) = s
  <2>1. PICK l \in S \cup {Sentinel} : l = v.child["left"][q]
    BY <1>1, ChildOrNot, SideFacts
  <2>2. u.child["left"][q1] = Ren(n, y, l)
    BY <1>11, <2>1, SideFacts DEF Moved
  <2>3. x = u.child["left"][q1] <=> x = l
    BY <1>1, <1>6, <1>7, <2>2
  <2> QED
    BY <1>8, <1>9, <1>12, <2>1, <2>3 DEF SideOf
<1>15. \E C : Coloured(u, T, C, q1, s, x)
  <2>1. Coloured(u, T, [B EXCEPT ![y] = B[n]], Ren(n, y, q), s, Ren(n, y, x))
    BY <1>1, <1>4, <1>10, MovedColoured
  <2> QED
    BY <1>7, <1>11, <2>1
<1>16. v.root \in S /\ u.root = Ren(n, y, v.root)
  BY <1>1, <1>2 DEF Shape, Rooted, Moved
<1>17. ~u.red[u.root]
  <2>1. u.red[Ren(n, y, v.root)] = v.red[v.root]
    BY <1>16 DEF Moved
  <2> QED
    BY <1>1, <1>16, <2>1
<1>18. x # u.root
  BY <1>1, <1>6, <1>7, <1>16
<1>19. x \in T \cup {Sentinel} /\ T # {}
  BY <1>1, <1>6, <1>7, <1>11
<1>20. \E C : Lacking(u, T, N, p1, c1, C, x)
  BY <1>5, <1>12, <1>13, <1>14, <1>15, <1>17, <1>18, <1>19 DEF Lacking
<1> QED
  BY <1>4, <1>20

-----------------------------------------------------------------------------
(* The assignments of a deletion.                                          *)

WithKey(t, m, c) == [t EXCEPT !.key[m] = c]

KeySet(t, u, m, c) ==
    /\ u \in Trees /\ u.root = t.root /\ u.child = t.child /\ u.parent = t.parent
    /\ u.red = t.red /\ u.insert = t.insert
    /\ \A k \in Cells : u.key[k] = IF k = m THEN c ELSE t.key[k]

\* Assigning a key changes nothing else.
LEMMA SetKey ==
    ASSUME NEW t \in Trees, NEW m \in Cells, NEW c \in Int
    PROVE  KeySet(t, WithKey(t, m, c), m, c)
<1>0. PICK u : u = WithKey(t, m, c)
  OBVIOUS
<1>1. /\ u.child = t.child /\ u.root = t.root /\ u.parent = t.parent
      /\ u.key = [t.key EXCEPT ![m] = c] /\ u.red = t.red /\ u.insert = t.insert
  BY <1>0 DEF Trees, WithKey
<1>2. /\ u = [root |-> u.root, insert |-> u.insert, child |-> u.child,
              parent |-> u.parent, key |-> u.key, red |-> u.red]
  BY <1>0 DEF Trees, WithKey
<1>3. u.key \in [Cells -> Int]
  BY <1>1, TreeFields
<1>4. u \in Trees
  BY <1>1, <1>2, <1>3, TreeFields DEF Trees
<1>5. ASSUME NEW k \in Cells PROVE u.key[k] = IF k = m THEN c ELSE t.key[k]
  BY <1>1, TreeFields
<1>6. KeySet(t, u, m, c)
  BY <1>1, <1>4, <1>5 DEF KeySet
<1> QED
  BY <1>0, <1>6

\* u is t after the DEBUG stuff.
Cleared(t, u, n) ==
    /\ u \in Trees /\ u.root = t.root /\ u.insert = t.insert
    /\ \A f \in Sides, k \in Cells : u.child[f][k] = IF k = n THEN NULL ELSE t.child[f][k]
    /\ \A k \in Cells : /\ u.parent[k] = IF k = n THEN NULL ELSE t.parent[k]
                        /\ u.key[k] = IF k = n THEN 0 ELSE t.key[k]
                        /\ k # n => u.red[k] = t.red[k]

\* What is left of a node after the DEBUG stuff.
LEMMA ClearFields ==
    ASSUME NEW t \in Trees, NEW n \in Nodes
    PROVE  Cleared(t, Clear(t, n), n)
<1>1. PICK t1 : t1 = WithChild(t, "left", n, NULL)
  OBVIOUS
<1>2. PICK t2 : t2 = WithChild(t1, "right", n, NULL)
  OBVIOUS
<1>3. PICK t3 : t3 = WithParent(t2, n, NULL)
  OBVIOUS
<1>4. PICK t4 : t4 = WithKey(t3, n, 0)
  OBVIOUS
<1>5. PICK u : u = WithRed(t4, n, FALSE)
  OBVIOUS
<1>6. u = Clear(t, n)
  BY <1>1, <1>2, <1>3, <1>4, <1>5 DEF Clear, WithRed, WithChild, WithParent, WithKey
<1>7. n \in Cells /\ NULL \in Cells \cup {NULL} /\ "left" \in Sides /\ "right" \in Sides
  BY CellFacts, SideFacts
<1>8. ChildSet(t, t1, "left", n, NULL)
  BY <1>1, <1>7, SetChild
<1>9. ChildSet(t1, t2, "right", n, NULL)
  <2>1. t1 \in Trees
    BY <1>8 DEF ChildSet
  <2> QED
    BY <1>2, <1>7, <2>1, SetChild
<1>10. ParentSet(t2, t3, n, NULL)
  <2>1. t2 \in Trees
    BY <1>9 DEF ChildSet
  <2> QED
    BY <1>3, <1>7, <2>1, SetParent
<1>11. KeySet(t3, t4, n, 0)
  <2>1. t3 \in Trees
    BY <1>10 DEF ParentSet
  <2> QED
    BY <1>4, <1>7, <2>1, SetKey
<1>12. RedSet(t4, u, n, FALSE)
  <2>1. t4 \in Trees
    BY <1>11 DEF KeySet
  <2> QED
    BY <1>5, <1>7, <2>1, SetRed
<1>13. ASSUME NEW f \in Sides, NEW k \in Cells
       PROVE  u.child[f][k] = IF k = n THEN NULL ELSE t.child[f][k]
  <2>1. u.child = t2.child
    BY <1>10, <1>11, <1>12 DEF ParentSet, KeySet, RedSet
  <2>2. t2.child[f][k] = IF f = "right" /\ k = n THEN NULL ELSE t1.child[f][k]
    BY <1>9 DEF ChildSet
  <2>3. t1.child[f][k] = IF f = "left" /\ k = n THEN NULL ELSE t.child[f][k]
    BY <1>8 DEF ChildSet
  <2> QED
    BY <2>1, <2>2, <2>3, SideFacts
<1>14. ASSUME NEW k \in Cells PROVE u.parent[k] = IF k = n THEN NULL ELSE t.parent[k]
  <2>1. u.parent = t3.parent
    BY <1>11, <1>12 DEF KeySet, RedSet
  <2>2. t3.parent[k] = IF k = n THEN NULL ELSE t2.parent[k]
    BY <1>10 DEF ParentSet
  <2>3. t2.parent = t.parent
    BY <1>8, <1>9 DEF ChildSet
  <2> QED
    BY <2>1, <2>2, <2>3
<1>15. ASSUME NEW k \in Cells PROVE u.key[k] = IF k = n THEN 0 ELSE t.key[k]
  <2>1. t4.key[k] = IF k = n THEN 0 ELSE t3.key[k]
    BY <1>11 DEF KeySet
  <2>2. t3.key = t.key
    BY <1>8, <1>9, <1>10 DEF ChildSet, ParentSet
  <2>3. u.key = t4.key
    BY <1>12 DEF RedSet
  <2> QED
    BY <2>1, <2>2, <2>3
<1>16. ASSUME NEW k \in Cells, k # n PROVE u.red[k] = t.red[k]
  <2>1. t4.red = t.red
    BY <1>8, <1>9, <1>10, <1>11 DEF ChildSet, ParentSet, KeySet
  <2>2. u.red[k] = t4.red[k]
    BY <1>12, <1>16 DEF RedSet
  <2> QED
    BY <2>1, <2>2
<1>17. u.root = t.root /\ u.insert = t.insert /\ u \in Trees
  <2>1. t2.root = t.root /\ t2.insert = t.insert
    BY <1>8, <1>9 DEF ChildSet
  <2>2. t4.root = t2.root /\ t4.insert = t2.insert
    BY <1>10, <1>11 DEF ParentSet, KeySet
  <2> QED
    BY <1>12, <2>1, <2>2 DEF RedSet
<1>18. Cleared(t, u, n)
  BY <1>13, <1>14, <1>15, <1>16, <1>17 DEF Cleared
<1> QED
  BY <1>6, <1>18

\* temp takes the place of s, whose parent is not always what temp gets.
Joined(t, s, temp, up) ==
    [t EXCEPT !.child[SideOf(t, s)][t.parent[s]] = temp, !.parent[temp] = up]

\* u is t with temp joined to the parent of s.
Joins(t, u, s, temp, up) ==
    /\ u \in Trees /\ u.root = t.root /\ u.red = t.red /\ u.key = t.key /\ u.insert = t.insert
    /\ \A f \in Sides, k \in Cells :
         u.child[f][k] = IF f = SideOf(t, s) /\ k = t.parent[s] THEN temp ELSE t.child[f][k]
    /\ \A k \in Cells : u.parent[k] = IF k = temp THEN up ELSE t.parent[k]

\* Joining temp to the parent of the node that goes, in its fields.
LEMMA JoinedFields ==
    ASSUME NEW t \in Trees, NEW s, t.parent[s] \in Cells, NEW temp \in Cells, NEW up \in Cells
    PROVE  Joins(t, Joined(t, s, temp, up), s, temp, up)
<1>1. PICK q \in Cells : q = t.parent[s]
  OBVIOUS
<1>2. PICK e \in Sides : e = SideOf(t, s)
  BY SideInSides
<1>3. PICK t1 : t1 = WithChild(t, e, q, temp)
  OBVIOUS
<1>4. PICK u : u = WithParent(t1, temp, up)
  OBVIOUS
<1>5. u = Joined(t, s, temp, up)
  BY <1>1, <1>2, <1>3, <1>4 DEF Joined, WithChild, WithParent
<1>6. ChildSet(t, t1, e, q, temp)
  BY <1>3, SetChild
<1>7. ParentSet(t1, u, temp, up)
  <2>1. t1 \in Trees
    BY <1>6 DEF ChildSet
  <2> QED
    BY <1>4, <2>1, SetParent
<1>8. ASSUME NEW f \in Sides, NEW k \in Cells
      PROVE  u.child[f][k] = IF f = SideOf(t, s) /\ k = t.parent[s] THEN temp ELSE t.child[f][k]
  BY <1>1, <1>2, <1>6, <1>7 DEF ChildSet, ParentSet
<1>9. \A k \in Cells : u.parent[k] = IF k = temp THEN up ELSE t.parent[k]
  BY <1>6, <1>7 DEF ChildSet, ParentSet
<1>10. u \in Trees /\ u.root = t.root /\ u.red = t.red /\ u.key = t.key /\ u.insert = t.insert
  BY <1>6, <1>7 DEF ChildSet, ParentSet
<1>11. Joins(t, u, s, temp, up)
  BY <1>8, <1>9, <1>10 DEF Joins
<1> QED
  BY <1>5, <1>11

\* Before subst takes the place of n: it has the children, parent and colour.
Prepared(t, n, y) ==
    [t EXCEPT !.child["left"][y] = t.child["left"][n], !.child["right"][y] = t.child["right"][n],
              !.parent[y] = t.parent[n], !.red[y] = t.red[n]]

IsPrepared(t, u, n, y) ==
    /\ u \in Trees /\ u.root = t.root /\ u.key = t.key /\ u.insert = t.insert
    /\ \A f \in Sides, k \in Cells : u.child[f][k] = IF k = y THEN t.child[f][n] ELSE t.child[f][k]
    /\ \A k \in Cells : /\ u.parent[k] = IF k = y THEN t.parent[n] ELSE t.parent[k]
                        /\ u.red[k] = IF k = y THEN t.red[n] ELSE t.red[k]

\* Subst with the links and colour of n, in its fields.
LEMMA PreparedFields ==
    ASSUME NEW t \in Trees, NEW n \in Nodes, NEW y \in Nodes
    PROVE  IsPrepared(t, Prepared(t, n, y), n, y)
<1>1. PICK l \in Cells \cup {NULL} : l = t.child["left"][n]
  BY TreeFields, SideFacts, CellFacts
<1>2. PICK r \in Cells \cup {NULL} : r = t.child["right"][n]
  BY TreeFields, SideFacts, CellFacts
<1>3. PICK q \in Cells \cup {NULL} : q = t.parent[n]
  BY TreeFields, CellFacts
<1>4. PICK z \in BOOLEAN : z = t.red[n]
  BY TreeFields, CellFacts
<1>5. PICK t1 : t1 = WithChild(t, "left", y, l)
  OBVIOUS
<1>6. PICK t2 : t2 = WithChild(t1, "right", y, r)
  OBVIOUS
<1>7. PICK t3 : t3 = WithParent(t2, y, q)
  OBVIOUS
<1>8. PICK u : u = WithRed(t3, y, z)
  OBVIOUS
<1>9. u = Prepared(t, n, y)
  BY <1>1, <1>2, <1>3, <1>4, <1>5, <1>6, <1>7, <1>8 DEF Prepared, WithRed, WithChild, WithParent
<1>10. y \in Cells /\ "left" \in Sides /\ "right" \in Sides
  BY CellFacts, SideFacts
<1>11. ChildSet(t, t1, "left", y, l)
  BY <1>5, <1>10, SetChild
<1>12. ChildSet(t1, t2, "right", y, r)
  <2>1. t1 \in Trees
    BY <1>11 DEF ChildSet
  <2> QED
    BY <1>6, <1>10, <2>1, SetChild
<1>13. ParentSet(t2, t3, y, q)
  <2>1. t2 \in Trees
    BY <1>12 DEF ChildSet
  <2> QED
    BY <1>7, <1>10, <2>1, SetParent
<1>14. RedSet(t3, u, y, z)
  <2>1. t3 \in Trees
    BY <1>13 DEF ParentSet
  <2> QED
    BY <1>8, <1>10, <2>1, SetRed
<1>15. ASSUME NEW f \in Sides, NEW k \in Cells
       PROVE  u.child[f][k] = IF k = y THEN t.child[f][n] ELSE t.child[f][k]
  <2>1. u.child = t2.child
    BY <1>13, <1>14 DEF ParentSet, RedSet
  <2>2. t2.child[f][k] = IF f = "right" /\ k = y THEN r ELSE t1.child[f][k]
    BY <1>12 DEF ChildSet
  <2>3. t1.child[f][k] = IF f = "left" /\ k = y THEN l ELSE t.child[f][k]
    BY <1>11 DEF ChildSet
  <2> QED
    BY <1>1, <1>2, <2>1, <2>2, <2>3, SideFacts
<1>16. ASSUME NEW k \in Cells PROVE u.parent[k] = IF k = y THEN t.parent[n] ELSE t.parent[k]
  <2>1. u.parent = t3.parent
    BY <1>14 DEF RedSet
  <2>2. t3.parent[k] = IF k = y THEN q ELSE t2.parent[k]
    BY <1>13 DEF ParentSet
  <2>3. t2.parent = t.parent
    BY <1>11, <1>12 DEF ChildSet
  <2> QED
    BY <1>3, <2>1, <2>2, <2>3
<1>17. ASSUME NEW k \in Cells PROVE u.red[k] = IF k = y THEN t.red[n] ELSE t.red[k]
  <2>1. t3.red = t.red
    BY <1>11, <1>12, <1>13 DEF ChildSet, ParentSet
  <2>2. u.red[k] = IF k = y THEN z ELSE t3.red[k]
    BY <1>14 DEF RedSet
  <2> QED
    BY <1>4, <2>1, <2>2
<1>18. u.root = t.root /\ u.key = t.key /\ u.insert = t.insert /\ u \in Trees
  <2>1. t2.root = t.root /\ t2.key = t.key /\ t2.insert = t.insert
    BY <1>11, <1>12 DEF ChildSet
  <2> QED
    BY <1>13, <1>14, <2>1 DEF ParentSet, RedSet
<1>19. IsPrepared(t, u, n, y)
  BY <1>15, <1>16, <1>17, <1>18 DEF IsPrepared
<1> QED
  BY <1>9, <1>19

\* y is where n was.
TakenOver(t, u, n, y) ==
    /\ u \in Trees /\ u.root = (IF n = t.root THEN y ELSE t.root)
    /\ u.key = t.key /\ u.insert = t.insert
    /\ \A f \in Sides, k \in Cells :
         u.child[f][k] = IF n # t.root /\ k = t.parent[n] /\ f = SideOf(t, n) THEN y
                         ELSE IF k = y THEN t.child[f][n] ELSE t.child[f][k]
    /\ \A k \in Cells :
         /\ u.parent[k] = IF k # Sentinel /\ (k = t.child["left"][n] \/ k = t.child["right"][n]) THEN y
                          ELSE IF k = y THEN t.parent[n] ELSE t.parent[k]
         /\ u.red[k] = IF k = y THEN t.red[n] ELSE t.red[k]

\* Transplant in its fields.
LEMMA TransplantFields ==
    ASSUME NEW t \in Trees, NEW n \in Nodes, NEW y \in Nodes, n # y,
           \A f \in Sides : t.child[f][n] \in Cells,
           n # t.root => t.parent[n] \in Cells \ {y}
    PROVE  TakenOver(t, Transplant(t, n, y), n, y)
<1>1. PICK t0 : t0 = Prepared(t, n, y)
  OBVIOUS
<1>2. PICK t1 : t1 = Replace(t0, n, y)
  OBVIOUS
<1>3. PICK t2 : t2 = Adopt(t1, t1.child["left"][y], y)
  BY ZenonT(60)
<1>4. PICK u : u = Adopt(t2, t1.child["right"][y], y)
  OBVIOUS
<1>5. u = Transplant(t, n, y)
  BY ZenonT(60), <1>1, <1>2, <1>3, <1>4 DEF Transplant, Prepared
<1>6. IsPrepared(t, t0, n, y)
  BY <1>1, PreparedFields
<1>7. n \in Cells /\ y \in Cells /\ y # Sentinel /\ "left" \in Sides /\ "right" \in Sides
  BY CellFacts, SideFacts
<1>8. t0 \in Trees /\ t0.root = t.root /\ t0.parent[n] = t.parent[n]
  BY <1>6, <1>7 DEF IsPrepared
<1>9. Replaced(t0, t1, n, y)
  BY <1>2, <1>7, <1>8, ReplaceFields
<1>10. n # t.root => SideOf(t0, n) = SideOf(t, n)
  <2> SUFFICES ASSUME n # t.root PROVE SideOf(t0, n) = SideOf(t, n)
    OBVIOUS
  <2>1. PICK q \in Cells : q = t.parent[n] /\ q # y
    OBVIOUS
  <2>2. t0.child["left"][q] = t.child["left"][q]
    BY <1>6, <1>7, <2>1 DEF IsPrepared
  <2> QED
    BY <1>8, <2>1, <2>2 DEF SideOf
<1>11. ASSUME NEW f \in Sides, NEW k \in Cells
       PROVE  t1.child[f][k] = IF n # t.root /\ k = t.parent[n] /\ f = SideOf(t, n) THEN y
                               ELSE IF k = y THEN t.child[f][n] ELSE t.child[f][k]
  <2>1. t1.child[f][k] = PlaceTaken(t0, n, y, f, k)
    BY <1>9 DEF Replaced
  <2>2. t0.child[f][k] = IF k = y THEN t.child[f][n] ELSE t.child[f][k]
    BY <1>6 DEF IsPrepared
  <2>3. PlaceTaken(t0, n, y, f, k) = IF n # t.root /\ k = t.parent[n] /\ f = SideOf(t, n) THEN y
                                     ELSE t0.child[f][k]
    BY <1>8, <1>10 DEF PlaceTaken
  <2> QED
    BY <2>1, <2>2, <2>3
<1>12. PICK l \in Cells : l = t.child["left"][n] /\ l = t1.child["left"][y]
  <2>1. t1.child["left"][y] = t.child["left"][n]
    BY <1>7, <1>11
  <2> QED
    BY <1>7, <2>1
<1>13. PICK r \in Cells : r = t.child["right"][n] /\ r = t1.child["right"][y]
  <2>1. t1.child["right"][y] = t.child["right"][n]
    BY <1>7, <1>11
  <2> QED
    BY <1>7, <2>1
<1>14. t1 \in Trees
  BY <1>9 DEF Replaced
<1>15. Adopted(t1, t2, l, y)
  BY <1>3, <1>12, <1>14, AdoptFields
<1>16. Adopted(t2, u, r, y)
  <2>1. t2 \in Trees
    BY <1>15 DEF Adopted
  <2> QED
    BY <1>4, <1>13, <2>1, AdoptFields
<1>17. u.child = t1.child /\ u.red = t1.red /\ u.root = t1.root
  BY <1>15, <1>16 DEF Adopted
<1>18. ASSUME NEW k \in Cells
       PROVE  u.parent[k] = IF k # Sentinel /\ (k = l \/ k = r) THEN y
                            ELSE IF k = y THEN t.parent[n] ELSE t.parent[k]
  <2>1. u.parent[k] = IF k = r /\ k # Sentinel THEN y ELSE t2.parent[k]
    BY <1>16 DEF Adopted
  <2>2. t2.parent[k] = IF k = l /\ k # Sentinel THEN y ELSE t1.parent[k]
    BY <1>15 DEF Adopted
  <2>3. t1.parent[k] = IF k = y THEN t.parent[n] ELSE t.parent[k]
    BY <1>6, <1>9 DEF Replaced, IsPrepared
  <2> QED
    BY <2>1, <2>2, <2>3
<1>19. ASSUME NEW k \in Cells PROVE u.red[k] = IF k = y THEN t.red[n] ELSE t.red[k]
  BY <1>6, <1>9, <1>17 DEF Replaced, IsPrepared
<1>20. u \in Trees /\ u.key = t.key /\ u.insert = t.insert
  BY <1>6, <1>9, <1>15, <1>16 DEF Adopted, Replaced, IsPrepared
<1>21. u.root = (IF n = t.root THEN y ELSE t.root)
  BY <1>8, <1>9, <1>17 DEF Replaced
<1>22. ASSUME NEW f \in Sides, NEW k \in Cells
       PROVE  u.child[f][k] = IF n # t.root /\ k = t.parent[n] /\ f = SideOf(t, n) THEN y
                              ELSE IF k = y THEN t.child[f][n] ELSE t.child[f][k]
  BY <1>11, <1>17
<1>23. TakenOver(t, u, n, y)
  BY <1>12, <1>13, <1>18, <1>19, <1>20, <1>21, <1>22 DEF TakenOver
<1> QED
  BY <1>5, <1>23

\* t1 is v, but for the parent of temp, which is renamed already.
Ahead(v, t1, n, y, temp) ==
    /\ t1 \in Trees /\ t1.root = v.root /\ t1.child = v.child /\ t1.red = v.red
    /\ \A k \in Cells : t1.parent[k] = IF k = temp THEN Ren(n, y, v.parent[k]) ELSE v.parent[k]

\* What n, which has left a tree, and the nodes outside of it look like.
Gone(t, u, S, n) ==
    /\ u.insert = t.insert /\ \A k \in Cells : k # n => u.key[k] = t.key[k]
    /\ \A m \in Nodes \ S, d \in Sides : u.child[d][m] = IF m = n THEN NULL ELSE t.child[d][m]

\* After the transplant and the clearing, subst is where n was.
LEMMA TransplantMoves ==
    ASSUME NEW v, NEW S, NEW N, NEW p, NEW c, Shape(v, S, N, p, c), NEW n \in S, NEW y \in Nodes \ S,
           NEW temp \in S \cup {Sentinel}, temp # n, NEW t1, Ahead(v, t1, n, y, temp),
           NEW w, w = Transplant(t1, n, y), NEW u, u = Clear(w, n)
    PROVE  /\ Moved(v, u, S, n, y) /\ u.parent[temp] = Ren(n, y, v.parent[temp])
           /\ Gone(t1, u, Instead(S, n, y), n)
<1>1. /\ S \in SUBSET Nodes /\ n \in Nodes /\ n \in Cells /\ y \in Cells /\ n # y
      /\ y # Sentinel /\ n # Sentinel /\ Sentinel \in Cells /\ S \subseteq Cells
  BY CellFacts DEF Shape, Ordered
<1>2. t1 \in Trees /\ t1.root = v.root /\ t1.child = v.child /\ t1.red = v.red
  BY DEF Ahead
<1>3. t1.parent[n] = v.parent[n]
  BY <1>1 DEF Ahead
<1>4. n # v.root => v.parent[n] \in S
  BY ParentFacts
<1>5. SideOf(t1, n) = SideOf(v, n)
  BY <1>2, <1>3 DEF SideOf
<1>6. PICK q : q = (IF n = v.root THEN Sentinel ELSE v.parent[n])
  OBVIOUS
<1>7. PICK s : s = (IF n = v.root THEN "left" ELSE SideOf(v, n))
  OBVIOUS
<1>8. EdgeAbove(v, S, n, q, s)
  BY <1>6, <1>7, EdgeAboveFacts
<1>9. \A f \in Sides : v.child[f][n] \in S \cup {Sentinel} /\ v.child[f][n] # n
  <2>1. ASSUME NEW f \in Sides PROVE v.child[f][n] \in S \cup {Sentinel} /\ v.child[f][n] # n
    <3>1. v.child[f][n] \in S \cup {Sentinel}
      BY ChildOrNot
    <3>2. v.child[f][n] # Sentinel => IsChild(v, S, p, c, n, f, v.child[f][n])
      BY ChildFacts
    <3> QED
      BY <1>1, <3>1, <3>2 DEF IsChild
  <2> QED
    BY <2>1
<1>10. TakenOver(t1, w, n, y)
  <2>1. \A f \in Sides : t1.child[f][n] \in Cells
    BY <1>1, <1>2, <1>9
  <2>2. n # t1.root => t1.parent[n] \in Cells \ {y}
    BY <1>1, <1>2, <1>3, <1>4
  <2> QED
    BY <1>1, <1>2, <2>1, <2>2, TransplantFields
<1>23. Cleared(w, u, n)
  <2>1. w \in Trees
    BY <1>10 DEF TakenOver
  <2> QED
    BY <1>1, <2>1, ClearFields
<1>11. \A f \in Sides, k \in Cells :
         k # n => u.child[f][k] = IF n # v.root /\ k = v.parent[n] /\ f = SideOf(v, n) THEN y
                                  ELSE IF k = y THEN v.child[f][n] ELSE v.child[f][k]
  BY <1>2, <1>3, <1>5, <1>10, <1>23 DEF TakenOver, Cleared
<1>12. \A k \in Cells : k # n =>
         u.parent[k] = IF k # Sentinel /\ (k = v.child["left"][n] \/ k = v.child["right"][n]) THEN y
                       ELSE IF k = y THEN v.parent[n] ELSE t1.parent[k]
  BY <1>2, <1>3, <1>10, <1>23 DEF TakenOver, Cleared
<1>13. \A k \in Cells : k # n => u.red[k] = IF k = y THEN v.red[n] ELSE v.red[k]
  BY <1>2, <1>10, <1>23 DEF TakenOver, Cleared
<1>14. u.root = Ren(n, y, v.root) /\ u \in Trees
  BY <1>2, <1>10, <1>23 DEF TakenOver, Cleared, Ren
<1>15. ASSUME NEW f \in Sides, NEW k \in S
       PROVE  u.child[f][Ren(n, y, k)] = Ren(n, y, v.child[f][k])
  <2>1. CASE k = n
    <3>1. Ren(n, y, k) = y
      BY <2>1 DEF Ren
    <3>2. ~(n # v.root /\ y = v.parent[n] /\ f = SideOf(v, n))
      BY <1>4
    <3>3. u.child[f][y] = v.child[f][n]
      BY <1>1, <1>11, <3>2
    <3>4. Ren(n, y, v.child[f][n]) = v.child[f][n]
      BY <1>9 DEF Ren
    <3> QED
      BY <2>1, <3>1, <3>3, <3>4
  <2>2. CASE k # n
    <3>1. Ren(n, y, k) = k /\ k \in Cells /\ k # y /\ k # Sentinel
      BY <1>1, <2>2, CellFacts DEF Ren
    <3>2. (k = q /\ f = s) <=> v.child[f][k] = n
      BY <1>8 DEF EdgeAbove
    <3>3. (k = q /\ f = s) <=> (n # v.root /\ k = v.parent[n] /\ f = SideOf(v, n))
      BY <1>6, <1>7, <3>1
    <3>4. u.child[f][k] = IF v.child[f][k] = n THEN y ELSE v.child[f][k]
      BY <1>11, <2>2, <3>1, <3>2, <3>3
    <3> QED
      BY <3>1, <3>4 DEF Ren
  <2> QED
    BY <2>1, <2>2
<1>16. ASSUME NEW k \in S, k # v.root PROVE u.parent[Ren(n, y, k)] = Ren(n, y, v.parent[k])
  <2>1. CASE k = n
    <3>1. Ren(n, y, k) = y
      BY <2>1 DEF Ren
    <3>2. ~(y = v.child["left"][n] \/ y = v.child["right"][n])
      BY <1>1, <1>9, SideFacts
    <3>3. u.parent[y] = v.parent[n]
      BY <1>1, <1>12, <3>2
    <3>4. v.parent[n] # n
      <4>1. IsChild(v, S, p, c, v.parent[n], SideOf(v, n), n)
        BY <1>16, <2>1, ParentFacts
      <4> QED
        BY <4>1 DEF IsChild
    <3> QED
      BY <2>1, <3>1, <3>3, <3>4 DEF Ren
  <2>2. CASE k # n
    <3>1. Ren(n, y, k) = k /\ k \in Cells /\ k # y /\ k # Sentinel
      BY <1>1, <2>2, CellFacts DEF Ren
    <3>2. CASE k = v.child["left"][n] \/ k = v.child["right"][n]
      <4>1. PICK f \in Sides : v.child[f][n] = k
        BY <3>2, SideFacts
      <4>2. IsChild(v, S, p, c, n, f, k)
        BY <3>1, <4>1, ChildFacts
      <4>3. v.parent[k] = n
        BY <4>2 DEF IsChild
      <4>4. u.parent[k] = y
        BY <1>12, <2>2, <3>1, <3>2
      <4> QED
        BY <3>1, <4>3, <4>4 DEF Ren
    <3>3. CASE ~(k = v.child["left"][n] \/ k = v.child["right"][n])
      <4>1. PICK d \in Sides : v.child[d][v.parent[k]] = k
        BY <1>16 DEF Shape, HasParent
      <4>2. v.parent[k] # n
        BY <3>3, <4>1, SideFacts
      <4>3. u.parent[k] = t1.parent[k]
        BY <1>12, <2>2, <3>1, <3>3
      <4>4. t1.parent[k] = v.parent[k]
        BY <3>1, <4>2 DEF Ahead, Ren
      <4> QED
        BY <3>1, <4>2, <4>3, <4>4 DEF Ren
    <3> QED
      BY <3>2, <3>3
  <2> QED
    BY <2>1, <2>2
<1>17. ASSUME NEW k \in S \cup {Sentinel} PROVE u.red[Ren(n, y, k)] = v.red[k]
  <2>1. CASE k = n
    BY <1>1, <1>13, <2>1 DEF Ren
  <2>2. CASE k # n
    <3>1. Ren(n, y, k) = k /\ k \in Cells /\ k # y
      BY <1>1, <2>2 DEF Ren
    <3> QED
      BY <1>13, <2>2, <3>1
  <2> QED
    BY <2>1, <2>2
<1>18. Moved(v, u, S, n, y)
  BY <1>14, <1>15, <1>16, <1>17 DEF Moved
<1>22. Gone(t1, u, Instead(S, n, y), n)
  <2>1. u.insert = t1.insert /\ \A k \in Cells : k # n => u.key[k] = t1.key[k]
    BY <1>10, <1>23 DEF TakenOver, Cleared
  <2>2. ASSUME NEW m \in Nodes \ Instead(S, n, y), NEW f \in Sides
        PROVE  u.child[f][m] = IF m = n THEN NULL ELSE t1.child[f][m]
    <3>1. m \in Cells /\ m # y /\ (m # n => m \notin S)
      BY CellFacts DEF Instead
    <3>2. CASE m = n
      BY <3>1, <3>2, <1>23 DEF Cleared
    <3>3. CASE m # n
      <4>1. ~(n # v.root /\ m = v.parent[n] /\ f = SideOf(v, n))
        BY <1>4, <3>1, <3>3
      <4>2. u.child[f][m] = v.child[f][m]
        BY <1>11, <3>1, <3>3, <4>1
      <4> QED
        BY <1>2, <3>3, <4>2
    <3> QED
      BY <3>2, <3>3
  <2> QED
    BY <2>1, <2>2 DEF Gone
<1>19. CASE temp = Sentinel
  <2>1. u.parent[temp] = t1.parent[temp]
    BY <1>1, <1>12, <1>19
  <2>2. t1.parent[temp] = Ren(n, y, v.parent[temp])
    BY <1>1, <1>19 DEF Ahead
  <2> QED
    BY <1>18, <1>22, <2>1, <2>2
<1>20. CASE temp # Sentinel /\ temp # v.root
  <2>1. temp \in S /\ Ren(n, y, temp) = temp
    BY <1>20 DEF Ren
  <2> QED
    BY <1>16, <1>18, <1>20, <1>22, <2>1
<1>21. CASE temp # Sentinel /\ temp = v.root
  <2>1. temp \in S /\ temp \in Cells
    BY <1>1, <1>21
  <2>2. ~(temp = v.child["left"][n] \/ temp = v.child["right"][n])
    <3>1. ASSUME NEW f \in Sides, v.child[f][n] = temp PROVE FALSE
      <4>1. IsChild(v, S, p, c, n, f, temp)
        BY <1>21, <3>1, ChildFacts
      <4> QED
        BY <1>21, <4>1 DEF IsChild
    <3> QED
      BY <3>1, SideFacts
  <2>3. temp # y
    BY <2>1
  <2>4. u.parent[temp] = t1.parent[temp]
    BY <1>12, <2>1, <2>2, <2>3
  <2> QED
    BY <1>18, <1>22, <2>1, <2>4 DEF Ahead
<1> QED
  BY <1>19, <1>20, <1>21

-----------------------------------------------------------------------------
(* The smallest node below a node.                                         *)

\* y has no left child and is in every set with r and the left children of
\* its members.
Lowest(t, T, r, y) ==
    /\ y \in T /\ t.child["left"][y] = Sentinel
    /\ \A P \in SUBSET T :
         r \in P /\ (\A m \in P : t.child["left"][m] # Sentinel => t.child["left"][m] \in P) => y \in P

\* ngx_rbtree_min ends at a node without left child.
LEMMA MinFound ==
    ASSUME NEW t, NEW T, NEW N, NEW pos, NEW b, Shape(t, T, N, pos, b), T = Inside(t), NEW r \in T
    PROVE  Lowest(t, T, r, ngx_rbtree_min(t, r))
<1> DEFINE Body(f) == [m \in Inside(t) |-> IF t.child["left"][m] = Sentinel THEN m
                                           ELSE f[t.child["left"][m]]]
           min == CHOOSE f : f = Body(f)
           next == [m \in T |-> t.child["left"][m]]
           Stop == {m \in T : t.child["left"][m] = Sentinel}
           val == [m \in T |-> m]
           size == [m \in T |-> Width(b, m)]
<1>1. ngx_rbtree_min(t, r) = min[r]
  BY DEF ngx_rbtree_min
<1>2. \A f : Body(f) = [m \in T |-> IF m \in Stop THEN val[m] ELSE f[next[m]]]
  OBVIOUS
<1> HIDE DEF Body
<1>3. Descends(T, Stop, next, size, N + 2)
  <2>1. ASSUME NEW m \in T, m \notin Stop
        PROVE  \E d \in Sides : next[m] = t.child[d][m] /\ next[m] # Sentinel
    BY <2>1, SideFacts
  <2> HIDE DEF Stop, next
  <2> QED
    BY <2>1, WaysDown
<1>4. PICK f : Descent(f, T, Stop, val, next)
  <2> HIDE DEF Stop, next, val, size
  <2> QED
    BY <1>3, DescentExists
<1>5. f = Body(f)
  BY <1>2, <1>4 DEF Descent
<1>6. min = Body(min)
  BY <1>5
<1> HIDE DEF min
<1>7. Descent(min, T, Stop, val, next)
  BY <1>2, <1>6 DEF Descent
<1>9. ASSUME NEW P \in SUBSET T, r \in P, \A m \in P : m \notin Stop => next[m] \in P
      PROVE  min[r] \in P /\ min[r] \in Stop
  <2> HIDE DEF Stop, next, size, val
  <2>1. PICK e \in P : e \in Stop /\ min[r] = val[e]
    BY <1>3, <1>7, <1>9, DescentStops
  <2>2. val[e] = e
    BY DEF val
  <2> QED
    BY <2>1, <2>2
<1>10. min[r] \in T /\ min[r] \in Stop
  <2>1. \A m \in T : m \notin Stop => next[m] \in T
    BY <1>3 DEF Descends
  <2> HIDE DEF Stop, next
  <2> QED
    BY <1>9, <2>1
<1>11. ASSUME NEW P \in SUBSET T, r \in P,
              \A m \in P : t.child["left"][m] # Sentinel => t.child["left"][m] \in P
       PROVE  min[r] \in P
  <2>1. \A m \in P : m \notin Stop => next[m] \in P
    BY <1>11
  <2> HIDE DEF Stop, next
  <2> QED
    BY <1>9, <1>11, <2>1
<1>12. t.child["left"][min[r]] = Sentinel
  BY <1>10
<1>13. Lowest(t, T, r, min[r])
  BY <1>10, <1>11, <1>12 DEF Lowest
<1> QED
  BY <1>1, <1>13

\* y is in the right subtree of n and has no left child.
After(t, T, pos, b, n, y) ==
    /\ y \in T /\ t.child["left"][y] = Sentinel /\ y # n /\ y # t.root
    /\ pos[n] <= b["left"][y] /\ b["right"][y] <= b["right"][n]

\* Subst is below n on the right, has no left child and is not the root.
LEMMA SubstFound ==
    ASSUME NEW t, NEW T, NEW N, NEW pos, NEW b, Shape(t, T, N, pos, b), T = Inside(t), NEW n \in T,
           t.child["right"][n] # Sentinel,
           NEW y, y = ngx_rbtree_min(t, t.child["right"][n])
    PROVE  After(t, T, pos, b, n, y)
<1>1. PICK r : r = t.child["right"][n]
  OBVIOUS
<1>2. IsChild(t, T, pos, b, n, "right", r)
  BY <1>1, ChildFacts, SideFacts
<1>3. r \in T /\ b["right"][r] = b["right"][n] /\ b["left"][r] = pos[n]
  BY <1>2, SideFacts DEF IsChild
<1>4. Lowest(t, T, r, y)
  BY <1>1, <1>3, MinFound
<1> DEFINE P == {m \in T : pos[n] <= b["left"][m] /\ b["right"][m] <= b["right"][n]}
<1>5. pos[n] \in Int /\ b["right"][n] \in Int /\ b["left"][n] \in Int /\ 0 <= b["left"][n] /\ b["left"][n] < pos[n]
  BY NodeFacts
<1>6. r \in P
  BY <1>3, <1>5
<1>7. ASSUME NEW m \in P, t.child["left"][m] # Sentinel PROVE t.child["left"][m] \in P
  <2>1. PICK k : k = t.child["left"][m]
    OBVIOUS
  <2>2. IsChild(t, T, pos, b, m, "left", k)
    BY <1>7, <2>1, ChildFacts, SideFacts
  <2>3. k \in T /\ b["left"][k] = b["left"][m] /\ b["right"][k] = pos[m]
    BY <2>2, SideFacts DEF IsChild
  <2>4. pos[m] \in Int /\ b["right"][m] \in Int /\ pos[m] < b["right"][m]
    BY NodeFacts
  <2>5. pos[n] <= b["left"][k] /\ b["right"][k] <= b["right"][n]
    BY <1>5, <2>3, <2>4
  <2> QED
    BY <2>1, <2>3, <2>5
<1>8. y \in P /\ y \in T /\ t.child["left"][y] = Sentinel
  <2>1. P \in SUBSET T
    OBVIOUS
  <2> HIDE DEF P
  <2> QED
    BY <1>4, <1>6, <1>7, <2>1 DEF Lowest
<1>9. y # n
  BY <1>5, <1>8
<1>10. y # t.root
  <2>1. b["left"][t.root] = 0
    BY DEF Shape, Rooted
  <2> QED
    BY <1>5, <1>8, <2>1
<1> QED
  BY <1>8, <1>9, <1>10 DEF After

-----------------------------------------------------------------------------
(* Deletion.                                                               *)

\* u is a red-black tree of S, without n.
Removed(t, u, S, N, n) ==
    (\E p, c, C : Sound(u, S, N, p, c, C)) /\ Gone(t, u, S, n)

\* The repair leaves alone what has left the tree.
LEMMA GoneOn ==
    ASSUME NEW t, NEW v, NEW u, NEW S, NEW n \in Nodes \ S, Gone(t, v, S, n), Elsewhere(v, u, S)
    PROVE  Gone(t, u, S, n)
BY DEF Gone, Elsewhere

\* Clearing n leaves the tree without n alone.
LEMMA ClearedAlike ==
    ASSUME NEW w, NEW u, NEW S \in SUBSET Nodes, NEW n \in Nodes \ S, Cleared(w, u, n)
    PROVE  Alike(w, u, S)
<1>1. \A k \in S \cup {Sentinel} : k \in Cells /\ k # n
  BY CellFacts
<1> QED
  BY <1>1 DEF Cleared, Alike

\* After the clearing, n is out of the tree.
LEMMA ClearedGone ==
    ASSUME NEW t, NEW w, NEW u, NEW T, NEW n \in Nodes, Cleared(w, u, n),
           w.insert = t.insert, w.key = t.key,
           \A m \in Nodes \ T, f \in Sides : w.child[f][m] = t.child[f][m]
    PROVE  Gone(t, u, T \ {n}, n)
<1>1. u.insert = t.insert /\ \A k \in Cells : k # n => u.key[k] = t.key[k]
  BY DEF Cleared
<1>2. ASSUME NEW m \in Nodes \ (T \ {n}), NEW d \in Sides
      PROVE  u.child[d][m] = IF m = n THEN NULL ELSE t.child[d][m]
  <2>1. m \in Cells /\ (m # n => m \in Nodes \ T)
    BY CellFacts
  <2>2. u.child[d][m] = IF m = n THEN NULL ELSE w.child[d][m]
    BY <2>1 DEF Cleared
  <2> QED
    BY <2>1, <2>2
<1> QED
  BY <1>1, <1>2 DEF Gone

\* The tree before the repair, if a black node is gone: nothing is wrong but below the parent of temp.
Cleft(t, u, S, N, n, temp, red) ==
    /\ Gone(t, u, S, n)
    /\ red => \E p, c, C : Sound(u, S, N, p, c, C)
    /\ ~red => \E p, c, C : Lacking(u, S, N, p, c, C, temp)

\* With the repair, when a black node went, n is removed.
LEMMA CleftRemoved ==
    ASSUME NEW t, NEW v, NEW S, NEW N, NEW n \in Nodes \ S, NEW temp, NEW red,
           Cleft(t, v, S, N, n, temp, red), N <= Longest,
           NEW u, u = IF red THEN v ELSE DeleteFixup(v, temp)
    PROVE  Removed(t, u, S, N, n)
<1>1. CASE red
  BY <1>1 DEF Cleft, Removed
<1>2. CASE ~red
  <2>1. PICK p, c, C : Lacking(v, S, N, p, c, C, temp)
    BY <1>2 DEF Cleft
  <2>2. u = DeleteFixup(v, temp)
    BY <1>2
  <2>3. (\E a, B : Sound(u, S, N, p, a, B)) /\ Elsewhere(v, u, S)
    BY <2>1, <2>2, LongestIsNat, FixupSound
  <2>4. Gone(t, u, S, n)
    BY <2>3, GoneOn DEF Cleft
  <2> QED
    BY <2>3, <2>4 DEF Removed
<1> QED
  BY <1>1, <1>2

\* Joining temp to the parent of s cuts s out.
LEMMA JoinSpliced ==
    ASSUME NEW t, NEW T, NEW N, NEW pos, NEW b, Shape(t, T, N, pos, b), NEW s \in T, s # t.root,
           NEW temp, NEW v, Joins(t, v, s, temp, t.parent[s])
    PROVE  Spliced(t, v, T, s, temp)
<1>1. \A k \in T : k \in Cells
  BY CellFacts DEF Shape, Ordered
<1>2. \A f \in Sides, k \in Cells : v.child[f][k] = PlaceTaken(t, s, temp, f, k)
  BY DEF Joins, PlaceTaken
<1> QED
  BY <1>1, <1>2 DEF Joins, Spliced

\* n has at most one child and a parent.
LEMMA DeleteSingle ==
    ASSUME NEW t, NEW T, NEW N, NEW pos, NEW b, NEW B, Sound(t, T, N, pos, b, B), NEW n \in T, n # t.root,
           NEW d \in Sides, NEW temp, Cut(t, T, pos, b, n, d, Opposite[d], temp),
           NEW v, v = Joined(t, n, temp, t.parent[n]), NEW u, u = Clear(v, n)
    PROVE  Cleft(t, u, T \ {n}, N - 1, n, temp, t.red[n])
<1>1. Shape(t, T, N, pos, b) /\ ~t.red[t.root]
  BY DEF Sound
<1>2. T \subseteq Nodes /\ n \in Nodes /\ n \in Cells /\ t \in Trees /\ n # Sentinel
  BY <1>1, CellFacts DEF Shape, Ordered
<1>3. t.parent[n] \in T
  BY <1>1, ParentFacts
<1>4. temp \in Cells
  BY <1>2, CellFacts DEF Cut
<1>5. Joins(t, v, n, temp, t.parent[n])
  <2>1. t.parent[n] \in Cells
    BY <1>2, <1>3, CellFacts
  <2> QED
    BY <1>2, <1>4, <2>1, JoinedFields
<1>6. Spliced(t, v, T, n, temp)
  BY <1>1, <1>5, JoinSpliced
<1>7. PICK i : i = Emptied(pos, d, n)
  OBVIOUS
<1>8. i \in Int
  <2>1. pos[n] \in Int
    BY <1>1, NodeFacts
  <2> QED
    BY <1>7, <2>1 DEF Emptied
<1>9. PICK p, c : Closed(T, pos, b, i, p, c)
  <2>1. Ordered(T, N, pos, b)
    BY <1>1 DEF Shape
  <2> QED
    BY <1>8, <2>1, ClosedExists
<1>10. Shape(v, T \ {n}, N - 1, p, c)
  BY <1>1, <1>6, <1>7, <1>9, SpliceShape
<1>11. Cleared(v, u, n)
  <2>1. v \in Trees
    BY <1>5 DEF Joins
  <2> QED
    BY <1>2, <2>1, ClearFields
<1>12. Alike(v, u, T \ {n})
  BY <1>2, <1>11, ClearedAlike
<1>13. v.red = t.red /\ v.root = t.root
  BY <1>5 DEF Joins
<1>14. ASSUME t.red[n] PROVE \E p1, c1, C : Sound(u, T \ {n}, N - 1, p1, c1, C)
  <2>1. Coloured(v, T \ {n}, B, Sentinel, "left", Sentinel)
    BY <1>6, <1>13, <1>14, SpliceSound
  <2>2. Sound(v, T \ {n}, N - 1, p, c, B)
    BY <1>1, <1>10, <1>13, <2>1 DEF Sound
  <2> QED
    BY <1>12, <2>2, AlikeSound
<1>15. ASSUME ~t.red[n] PROVE \E p1, c1, C : Lacking(u, T \ {n}, N - 1, p1, c1, C, temp)
  <2>1. v.parent[temp] = t.parent[n]
    BY <1>4, <1>5 DEF Joins
  <2>2. Lacking(v, T \ {n}, N - 1, p, c, B, temp)
    BY <1>6, <1>10, <1>13, <1>15, <2>1, SpliceLacking
  <2> QED
    BY <1>12, <2>2, AlikeLacking
<1>16. Gone(t, u, T \ {n}, n)
  <2>1. v.insert = t.insert /\ v.key = t.key
    BY <1>5 DEF Joins
  <2>2. \A m \in Nodes \ T, f \in Sides : v.child[f][m] = t.child[f][m]
    BY <1>2, <1>3, <1>5, CellFacts DEF Joins
  <2> QED
    BY ZenonT(60), <1>2, <1>11, <2>1, <2>2, ClearedGone
<1> QED
  BY <1>14, <1>15, <1>16 DEF Cleft

\* n is the root and has at most one child.
LEMMA DeleteRoot ==
    ASSUME NEW t, NEW T, NEW N, NEW pos, NEW b, NEW B, Sound(t, T, N, pos, b, B), NEW n \in T, n = t.root,
           NEW d \in Sides, NEW temp, Cut(t, T, pos, b, n, d, Opposite[d], temp),
           NEW v, v = WithRoot(t, temp), NEW w, w = WithRed(v, temp, FALSE), NEW u, u = Clear(w, n)
    PROVE  Removed(t, u, T \ {n}, N - 1, n)
<1>1. Shape(t, T, N, pos, b) /\ ~t.red[t.root] /\ ~t.red[Sentinel]
  BY DEF Sound, Coloured
<1>2. T \subseteq Nodes /\ n \in Nodes /\ n \in Cells /\ t \in Trees /\ n # Sentinel
  BY <1>1, CellFacts DEF Shape, Ordered
<1>4. temp \in Cells
  BY <1>2, CellFacts DEF Cut
<1>5. RootSet(t, v, temp)
  BY <1>2, <1>4, SetRoot
<1>6. Spliced(t, v, T, n, temp)
  <2>1. \A f \in Sides, k \in Cells : v.child[f][k] = PlaceTaken(t, n, temp, f, k)
    BY <1>5 DEF RootSet, PlaceTaken
  <2> QED
    BY <1>5, <2>1 DEF RootSet, Spliced
<1>7. PICK i : i = Emptied(pos, d, n)
  OBVIOUS
<1>8. i \in Int
  <2>1. pos[n] \in Int
    BY <1>1, NodeFacts
  <2> QED
    BY <1>7, <2>1 DEF Emptied
<1>9. PICK p, c : Closed(T, pos, b, i, p, c)
  <2>1. Ordered(T, N, pos, b)
    BY <1>1 DEF Shape
  <2> QED
    BY <1>8, <2>1, ClosedExists
<1>10. Shape(v, T \ {n}, N - 1, p, c)
  BY <1>1, <1>6, <1>7, <1>9, SpliceShape
<1>13. v.red = t.red /\ v.root = temp /\ v \in Trees
  BY <1>5 DEF RootSet
<1>3. Coloured(v, T \ {n}, B, Sentinel, "left", Sentinel)
  BY <1>6, <1>13, SpliceSound
<1>14. OneRed(v, w, temp, FALSE)
  BY <1>4, <1>13, RecolourOne
<1>15. \E C : Sound(w, T \ {n}, N - 1, p, c, C)
  <2>1. CASE T \ {n} # {}
    BY <1>3, <1>10, <1>13, <2>1, RootBlackened
  <2>2. CASE T \ {n} = {}
    <3>1. temp = Sentinel
      BY <2>2 DEF Cut
    <3>2. Sound(v, T \ {n}, N - 1, p, c, B)
      BY <1>1, <1>3, <1>10, <1>13, <3>1 DEF Sound
    <3>3. Alike(v, w, T \ {n})
      <4>1. w \in Trees /\ w.root = v.root /\ w.child = v.child /\ w.parent = v.parent
        BY <1>14 DEF OneRed, Recoloured
      <4>2. w.red[Sentinel] = v.red[Sentinel]
        <5>1. v.red[Sentinel] \in BOOLEAN
          BY <1>13, TreeFields, CellFacts
        <5>2. v.red[Sentinel] = FALSE
          BY <1>1, <1>13, <5>1
        <5> QED
          BY <1>14, <3>1, <5>2 DEF OneRed
      <4> QED
        BY <2>2, <4>1, <4>2 DEF Alike
    <3> QED
      BY <3>2, <3>3, AlikeSound
  <2> QED
    BY <2>1, <2>2
<1>11. Cleared(w, u, n)
  <2>1. w \in Trees
    BY <1>14 DEF OneRed, Recoloured
  <2> QED
    BY <1>2, <2>1, ClearFields
<1>12. Alike(w, u, T \ {n})
  BY <1>2, <1>11, ClearedAlike
<1>16. \E C : Sound(u, T \ {n}, N - 1, p, c, C)
  BY <1>12, <1>15, AlikeSound
<1>17. Gone(t, u, T \ {n}, n)
  <2>1. w.insert = t.insert /\ w.key = t.key /\ w.child = t.child
    BY <1>5, <1>14 DEF RootSet, OneRed, Recoloured
  <2> QED
    BY <1>2, <1>11, <2>1, ClearedGone
<1> QED
  BY <1>16, <1>17 DEF Removed

\* n has two children: subst is cut out and takes its place.
LEMMA DeleteBoth ==
    ASSUME NEW t, NEW T, NEW N, NEW pos, NEW b, NEW B, Sound(t, T, N, pos, b, B), NEW n \in T,
           NEW y, After(t, T, pos, b, n, y), NEW temp, temp = t.child["right"][y],
           NEW t1, t1 = Joined(t, y, temp, IF t.parent[y] = n THEN y ELSE t.parent[y]),
           NEW w, w = Transplant(t1, n, y), NEW u, u = Clear(w, n)
    PROVE  Cleft(t, u, T \ {n}, N - 1, n, temp, t.red[y])
<1> DEFINE S == T \ {y}
<1>1. Shape(t, T, N, pos, b) /\ ~t.red[t.root]
  BY DEF Sound
<1>2. y \in T /\ t.child["left"][y] = Sentinel /\ y # n /\ y # t.root
  BY DEF After
<1>3. /\ T \subseteq Nodes /\ n \in Nodes /\ y \in Nodes /\ y \in Cells /\ n \in Cells
      /\ t \in Trees /\ n # Sentinel /\ y # Sentinel
  BY <1>1, <1>2, CellFacts DEF Shape, Ordered
<1>4. Cut(t, T, pos, b, y, "left", "right", temp)
  BY <1>1, <1>2, CutFacts, SideFacts
<1>5. temp \in Cells /\ temp \in S \cup {Sentinel}
  BY <1>3, <1>4, CellFacts DEF Cut
<1>6. PICK sp : sp = t.parent[y]
  OBVIOUS
<1>7. sp \in T /\ sp \in Cells
  BY <1>1, <1>2, <1>3, <1>6, ParentFacts, CellFacts
<1>8. temp # n /\ temp # t.root
  <2>1. CASE temp = Sentinel
    <3>1. t.root # Sentinel
      <4>1. t.root \in T
        <5>1. Rooted(t, T, N, b) /\ T # {}
          BY <1>1 DEF Shape
        <5> QED
          BY <5>1 DEF Rooted
      <4> QED
        BY <1>3, <4>1, CellFacts
    <3> QED
      BY <1>3, <2>1, <3>1
  <2>2. CASE temp # Sentinel
    <3>1. IsChild(t, T, pos, b, y, "right", temp)
      BY <1>4, <2>2 DEF Cut
    <3>2. temp \in T /\ b["left"][temp] = pos[y] /\ temp # t.root
      BY <3>1, SideFacts DEF IsChild
    <3>3. pos[n] <= b["left"][y]
      BY DEF After
    <3>4. pos[n] \in Int /\ pos[y] \in Int /\ b["left"][y] \in Int /\ b["left"][y] < pos[y]
      BY <1>1, <1>2, NodeFacts
    <3>5. pos[temp] \in Int /\ b["left"][temp] < pos[temp]
      BY <1>1, <3>2, NodeFacts
    <3>6. pos[temp] # pos[n]
      BY <3>2, <3>3, <3>4, <3>5
    <3> QED
      BY <3>2, <3>6
  <2> QED
    BY <2>1, <2>2
<1>9. PICK v : v = Joined(t, y, temp, sp)
  OBVIOUS
<1>10. Joins(t, v, y, temp, sp)
  BY <1>3, <1>5, <1>6, <1>7, <1>9, JoinedFields
<1>11. Spliced(t, v, T, y, temp)
  BY <1>1, <1>2, <1>6, <1>10, JoinSpliced
<1>12. PICK p, c : Shape(v, S, N - 1, p, c)
  <2>1. PICK i : i = Emptied(pos, "left", y)
    OBVIOUS
  <2>2. i \in Int
    <3>1. pos[y] \in Int
      BY <1>1, <1>2, NodeFacts
    <3> QED
      BY <2>1, <3>1 DEF Emptied
  <2>3. Ordered(T, N, pos, b)
    BY <1>1 DEF Shape
  <2>4. PICK p, c : Closed(T, pos, b, i, p, c)
    BY <2>2, <2>3, ClosedExists
  <2>5. Shape(v, S, N - 1, p, c)
    BY <1>1, <1>4, <1>11, <2>1, <2>4, SpliceShape
  <2> QED
    BY <2>5
<1>13. Joins(t, t1, y, temp, Ren(n, y, sp))
  <2>1. Ren(n, y, sp) \in Cells /\ t1 = Joined(t, y, temp, Ren(n, y, sp))
    BY <1>3, <1>6, <1>7 DEF Ren
  <2> QED
    BY <1>3, <1>5, <1>6, <1>7, <2>1, JoinedFields
<1>14. v.red = t.red /\ v.root = t.root /\ v.parent[temp] = sp
  BY <1>5, <1>10 DEF Joins
<1>15. Ahead(v, t1, n, y, temp)
  <2>1. t1.root = v.root /\ t1.red = v.red /\ t1 \in Trees
    BY <1>10, <1>13 DEF Joins
  <2>2. t1.child = v.child
    <3>1. \A f \in Sides, k \in Cells : t1.child[f][k] = v.child[f][k]
      BY SMTT(40), <1>10, <1>13 DEF Joins
    <3>2. v.child \in [Sides -> [Cells -> Cells \cup {NULL}]] /\ t1.child \in [Sides -> [Cells -> Cells \cup {NULL}]]
      BY ZenonT(60), <1>10, <1>13, TreeFields DEF Joins
    <3> QED
      BY <3>1, <3>2
  <2>3. \A k \in Cells : t1.parent[k] = IF k = temp THEN Ren(n, y, sp) ELSE v.parent[k]
    BY <1>10, <1>13 DEF Joins
  <2> QED
    BY <1>14, <2>1, <2>2, <2>3 DEF Ahead
<1>17. n \in S /\ y \in Nodes \ S
  BY <1>2, <1>3
<1>18. /\ Moved(v, u, S, n, y) /\ u.parent[temp] = Ren(n, y, v.parent[temp])
       /\ Gone(t1, u, Instead(S, n, y), n)
  <2> HIDE DEF S
  <2> QED
    BY <1>5, <1>8, <1>12, <1>15, <1>17, TransplantMoves
<1>19. Instead(S, n, y) = T \ {n}
  BY <1>2 DEF Instead
<1>20. ASSUME t.red[y] PROVE \E p1, c1, C : Sound(u, T \ {n}, N - 1, p1, c1, C)
  <2>1. Coloured(v, S, B, Sentinel, "left", Sentinel)
    BY <1>4, <1>11, <1>14, <1>20, SpliceSound
  <2>2. Sound(v, S, N - 1, p, c, B)
    BY <1>1, <1>12, <1>14, <2>1 DEF Sound
  <2> HIDE DEF S
  <2> QED
    BY <1>18, <1>19, <2>2, MovedSound
<1>21. ASSUME ~t.red[y] PROVE \E p1, c1, C : Lacking(u, T \ {n}, N - 1, p1, c1, C, temp)
  <2>1. Lacking(v, S, N - 1, p, c, B, temp)
    BY <1>2, <1>4, <1>6, <1>11, <1>12, <1>14, <1>21, SpliceLacking
  <2> HIDE DEF S
  <2> QED
    BY <1>8, <1>14, <1>18, <1>19, <2>1, MovedLacking
<1>22. Gone(t, u, T \ {n}, n)
  <2>1. t1.insert = t.insert /\ t1.key = t.key
    BY <1>13 DEF Joins
  <2>2. \A m \in Nodes \ T, f \in Sides : t1.child[f][m] = t.child[f][m]
    BY <1>3, <1>6, <1>7, <1>13, CellFacts DEF Joins
  <2>3. Gone(t1, u, T \ {n}, n)
    BY ZenonT(60), <1>18, <1>19
  <2>4. u.insert = t.insert /\ \A k \in Cells : k # n => u.key[k] = t.key[k]
    BY ZenonT(60), <2>1, <2>3 DEF Gone
  <2>5. ASSUME NEW m \in Nodes \ (T \ {n}), NEW f \in Sides
        PROVE  u.child[f][m] = IF m = n THEN NULL ELSE t.child[f][m]
    <3>1. u.child[f][m] = IF m = n THEN NULL ELSE t1.child[f][m]
      BY <2>3 DEF Gone
    <3> QED
      BY ZenonT(60), <2>2, <3>1
  <2> HIDE DEF S
  <2> QED
    BY <2>4, <2>5 DEF Gone
<1> QED
  BY <1>20, <1>21, <1>22 DEF Cleft

\* Deletion in the names of its locals.
Both(t, n) == t.child["left"][n] # Sentinel /\ t.child["right"][n] # Sentinel
Subst(t, n) == IF Both(t, n) THEN ngx_rbtree_min(t, t.child["right"][n]) ELSE n
Temp(t, s) == IF t.child["left"][s] # Sentinel THEN t.child["left"][s] ELSE t.child["right"][s]
UpTemp(t, n, s) == IF Both(t, n) /\ t.parent[s] = n THEN s ELSE t.parent[s]
Detached(t, n, s) ==
    Clear(IF Both(t, n) THEN Transplant(Joined(t, s, Temp(t, s), UpTemp(t, n, s)), n, s)
          ELSE Joined(t, s, Temp(t, s), UpTemp(t, n, s)), n)
DeleteAs(t, n, s) ==
    IF s = t.root THEN Clear([t EXCEPT !.root = Temp(t, s), !.red[Temp(t, s)] = FALSE], n)
    ELSE IF t.red[s] THEN Detached(t, n, s) ELSE DeleteFixup(Detached(t, n, s), Temp(t, s))

\* DeleteFrom with its locals as operators.
LEMMA DeleteInNames ==
    ASSUME NEW t, NEW n
    PROVE  DeleteFrom(t, n) = DeleteAs(t, n, Subst(t, n))
BY ZenonT(100) DEF DeleteFrom, DeleteAs, Both, Subst, Temp, UpTemp, Detached, Joined

\* A deletion removes its node, whatever children it has.
LEMMA DeleteRemoves ==
    ASSUME NEW t, NEW T, NEW N, NEW pos, NEW b, NEW B, Sound(t, T, N, pos, b, B), T = Inside(t),
           NEW n \in T, N - 1 <= Longest, NEW u, u = DeleteFrom(t, n)
    PROVE  Removed(t, u, T \ {n}, N - 1, n)
<1>1. Shape(t, T, N, pos, b) /\ t \in Trees /\ n \in Nodes /\ n \in Nodes \ (T \ {n})
  BY DEF Sound, Shape, Ordered
<1>2. CASE t.child["left"][n] # Sentinel /\ t.child["right"][n] # Sentinel
  <2>1. PICK y : y = ngx_rbtree_min(t, t.child["right"][n])
    OBVIOUS
  <2>2. After(t, T, pos, b, n, y)
    BY <1>1, <1>2, <2>1, SubstFound
  <2>3. t.child["left"][y] = Sentinel /\ y # t.root
    BY <2>2 DEF After
  <2>4. PICK temp : temp = t.child["right"][y]
    OBVIOUS
  <2>5. PICK t1 : t1 = Joined(t, y, temp, IF t.parent[y] = n THEN y ELSE t.parent[y])
    OBVIOUS
  <2>6. PICK w : w = Transplant(t1, n, y)
    OBVIOUS
  <2>7. PICK v : v = Clear(w, n)
    OBVIOUS
  <2>8. Cleft(t, v, T \ {n}, N - 1, n, temp, t.red[y])
    BY <2>2, <2>4, <2>5, <2>6, <2>7, DeleteBoth
  <2>9. u = IF t.red[y] THEN v ELSE DeleteFixup(v, temp)
    <3>1. Both(t, n) /\ Subst(t, n) = y
      BY <1>2, <2>1 DEF Both, Subst
    <3>2. u = DeleteAs(t, n, y)
      BY <3>1, DeleteInNames
    <3>3. Temp(t, y) = temp
      BY <2>3, <2>4 DEF Temp
    <3>4. UpTemp(t, n, y) = IF t.parent[y] = n THEN y ELSE t.parent[y]
      BY <3>1 DEF UpTemp
    <3>5. Detached(t, n, y) = v
      BY <2>5, <2>6, <2>7, <3>1, <3>3, <3>4 DEF Detached
    <3> QED
      BY <2>3, <3>2, <3>3, <3>5 DEF DeleteAs
  <2> QED
    BY <1>1, <2>8, <2>9, CleftRemoved
<1>3. CASE ~(t.child["left"][n] # Sentinel /\ t.child["right"][n] # Sentinel)
  <2>1. PICK d \in Sides : /\ t.child[d][n] = Sentinel
                           /\ t.child[Opposite[d]][n] = IF t.child["left"][n] # Sentinel
                                                        THEN t.child["left"][n] ELSE t.child["right"][n]
    <3>1. CASE t.child["left"][n] # Sentinel
      <4>1. t.child["right"][n] = Sentinel
        BY <1>3, <3>1
      <4> QED
        BY <3>1, <4>1, SideFacts
    <3>2. CASE t.child["left"][n] = Sentinel
      BY <3>2, SideFacts
    <3> QED
      BY <3>1, <3>2
  <2>2. PICK temp : temp = t.child[Opposite[d]][n]
    OBVIOUS
  <2>0. ~Both(t, n) /\ Subst(t, n) = n
    BY <1>3 DEF Both, Subst
  <2>6. Temp(t, n) = temp
    BY <2>1, <2>2 DEF Temp
  <2>3. Cut(t, T, pos, b, n, d, Opposite[d], temp)
    BY <1>1, <2>1, <2>2, CutFacts
  <2>4. CASE n = t.root
    <3>1. PICK v : v = WithRoot(t, temp)
      OBVIOUS
    <3>2. PICK w : w = WithRed(v, temp, FALSE)
      OBVIOUS
    <3>3. u = Clear(w, n)
      <4>1. w = [t EXCEPT !.root = temp, !.red[temp] = FALSE]
        BY <3>1, <3>2 DEF WithRoot, WithRed
      <4> QED
        BY <2>0, <2>4, <2>6, <4>1, DeleteInNames DEF DeleteAs
    <3> QED
      BY <2>3, <2>4, <3>1, <3>2, <3>3, DeleteRoot
  <2>5. CASE n # t.root
    <3>1. PICK w : w = Joined(t, n, temp, t.parent[n])
      OBVIOUS
    <3>2. PICK v : v = Clear(w, n)
      OBVIOUS
    <3>3. Cleft(t, v, T \ {n}, N - 1, n, temp, t.red[n])
      BY <2>3, <2>5, <3>1, <3>2, DeleteSingle
    <3>4. u = IF t.red[n] THEN v ELSE DeleteFixup(v, temp)
      <4>1. UpTemp(t, n, n) = t.parent[n]
        BY <2>0 DEF UpTemp
      <4>2. Detached(t, n, n) = v
        BY <2>0, <2>6, <3>1, <3>2, <4>1 DEF Detached
      <4> QED
        BY <2>0, <2>5, <2>6, <4>2, DeleteInNames DEF DeleteAs
    <3> QED
      BY <1>1, <3>3, <3>4, CleftRemoved
  <2> QED
    BY <2>4, <2>5
<1> QED
  BY <1>2, <1>3

\* One node less than before.
LEMMA HeldWithout ==
    ASSUME NEW T \in SUBSET Nodes, NEW n \in T, NEW N, N = Cardinality(T)
    PROVE  N - 1 = Cardinality(T \ {n}) /\ N - 1 <= Longest
<1>1. IsFiniteSet(T) /\ IsFiniteSet(Nodes)
  BY CellFacts, FS_Subset
<1>2. Cardinality(T \ {n}) = Cardinality(T) - 1
  BY <1>1, FS_RemoveElement
<1>3. Cardinality(T) \in Nat /\ Cardinality(T) <= Cardinality(Nodes) /\ Cardinality(Nodes) \in Nat
  BY <1>1, FS_Subset, FS_CardinalityType
<1> QED
  BY <1>2, <1>3 DEF Longest

\* ngx_rbtree_delete keeps a tree red-black, with the one node less.
LEMMA DeleteHolds ==
    ASSUME NEW t, NEW T, NEW N, Holds(t, T, N), NEW n \in T, NEW u, u = DeleteFrom(t, n)
    PROVE  Holds(u, T \ {n}, N - 1) /\ Gone(t, u, T \ {n}, n)
<1>1. PICK pos, b, B : Sound(t, T, N, pos, b, B)
  BY DEF Holds
<1>2. T = Inside(t) /\ N = Cardinality(T) /\ T \in SUBSET Nodes
  BY DEF Holds, Inside
<1>3. N - 1 = Cardinality(T \ {n}) /\ N - 1 <= Longest
  BY <1>2, HeldWithout
<1>4. Removed(t, u, T \ {n}, N - 1, n)
  BY <1>1, <1>2, <1>3, DeleteRemoves
<1>5. PICK p, c, C : Sound(u, T \ {n}, N - 1, p, c, C)
  BY <1>4 DEF Removed
<1>6. Gone(t, u, T \ {n}, n)
  BY <1>4 DEF Removed
<1>7. ASSUME NEW m \in T \ {n} PROVE m \in Inside(u)
  <2>1. Shape(u, T \ {n}, N - 1, p, c)
    BY <1>5 DEF Sound
  <2>2. u.child["left"][m] \in Cells
    BY <2>1, SideFacts, ChildOrNot
  <2> QED
    BY <1>2, <2>2, CellFacts DEF Inside
<1>8. ASSUME NEW m \in Inside(u) PROVE m \in T \ {n}
  <2> SUFFICES ASSUME m \notin T \ {n} PROVE FALSE
    OBVIOUS
  <2>1. m \in Nodes /\ u.child["left"][m] # NULL
    BY DEF Inside
  <2>2. u.child["left"][m] = IF m = n THEN NULL ELSE t.child["left"][m]
    BY <1>6, <2>1, SideFacts DEF Gone
  <2>3. m # n /\ t.child["left"][m] # NULL
    BY <2>1, <2>2
  <2> QED
    BY <1>2, <2>1, <2>3 DEF Inside
<1>9. T \ {n} = Inside(u)
  BY <1>7, <1>8
<1> QED
  BY <1>3, <1>5, <1>6, <1>9 DEF Holds

-----------------------------------------------------------------------------
(* The black height of a sound tree.                                       *)

\* The body of the recursive function in BlackHeight.
HeightOf(t, f, n) ==
    IF n = Sentinel THEN 0
    ELSE IF f[t.child["left"][n]] # f[t.child["right"][n]] \/ f[t.child["left"][n]] = -1 THEN -1
    ELSE IF t.red[n] THEN f[t.child["left"][n]] ELSE f[t.child["left"][n]] + 1

Heights(t, f) == f = [n \in Inside(t) \cup {Sentinel} |-> HeightOf(t, f, n)]

\* BlackHeight with its recursive function as an operator.
LEMMA HeightInNames ==
    ASSUME NEW t
    PROVE  BlackHeight(t) = (CHOOSE f : Heights(t, f))[t.root]
BY ZenonT(100) DEF BlackHeight, Heights, HeightOf

\* The children of n are as high as n, or one less when n is black.
BothHeights(t, B, n, l, r) == /\ B[n] \in Nat /\ B[l] \in Nat /\ B[r] = B[l]
                              /\ t.red[n] => B[n] = B[l]
                              /\ ~t.red[n] => B[n] = B[l] + 1

\* Both children of a node have the same black height.
LEMMA ChildHeights ==
    ASSUME NEW t, NEW T, NEW N, NEW pos, NEW b, NEW B, Sound(t, T, N, pos, b, B), NEW n \in T,
           NEW l, l = t.child["left"][n], NEW r, r = t.child["right"][n]
    PROVE  BothHeights(t, B, n, l, r)
<1>1. Shape(t, T, N, pos, b) /\ Coloured(t, T, B, Sentinel, "left", Sentinel)
  BY DEF Sound
<1>2. n \in Cells /\ n # Sentinel
  BY <1>1, NodeFacts
<1>3. l \in Cells /\ r \in Cells
  BY <1>1, ChildOrNot, SideFacts
<1>4. B[n] \in Nat /\ B[l] \in Nat /\ B[r] \in Nat
  BY <1>1, <1>2, <1>3 DEF Coloured
<1>5. ASSUME NEW e \in Sides, NEW c, c = t.child[e][n]
      PROVE  B[n] = B[c] + (IF t.red[n] THEN 0 ELSE 1) + 0
  <2>1. Good(t.red, B, Sentinel, "left", Sentinel, n, e, c)
    BY <1>1, <1>5 DEF Coloured
  <2> QED
    BY <1>2, <2>1 DEF Good
<1>6. B[n] = B[l] + (IF t.red[n] THEN 0 ELSE 1) + 0
  BY <1>5, SideFacts
<1>7. B[n] = B[r] + (IF t.red[n] THEN 0 ELSE 1) + 0
  BY <1>5, SideFacts
<1>8. CASE t.red[n]
  BY <1>4, <1>6, <1>7, <1>8 DEF BothHeights
<1>9. CASE ~t.red[n]
  BY <1>4, <1>6, <1>7, <1>9 DEF BothHeights
<1> QED
  BY <1>8, <1>9

\* The function BlackHeight chooses exists.
LEMMA HeightsExist ==
    ASSUME NEW t, NEW T, NEW N, NEW pos, NEW b, NEW B, Sound(t, T, N, pos, b, B), T = Inside(t)
    PROVE  \E f : Heights(t, f)
<1> DEFINE f == [n \in Inside(t) \cup {Sentinel} |-> B[n]]
<1>1. Shape(t, T, N, pos, b) /\ B[Sentinel] = 0
  BY DEF Sound, Coloured
<1>2. ASSUME NEW n \in Inside(t) \cup {Sentinel} PROVE f[n] = HeightOf(t, f, n)
  <2>1. CASE n = Sentinel
    BY <1>1, <2>1 DEF HeightOf
  <2>2. CASE n # Sentinel
    <3>1. n \in T
      BY <2>2
    <3>2. PICK l : l = t.child["left"][n]
      OBVIOUS
    <3>3. PICK r : r = t.child["right"][n]
      OBVIOUS
    <3>4. l \in T \cup {Sentinel} /\ r \in T \cup {Sentinel}
      BY <1>1, <3>1, <3>2, <3>3, ChildOrNot, SideFacts
    <3>5. BothHeights(t, B, n, l, r)
      BY <3>1, <3>2, <3>3, ChildHeights
    <3>6. f[l] = B[l] /\ f[r] = B[r] /\ f[n] = B[n]
      BY <3>4
    <3> HIDE DEF f
    <3>7. f[l] = f[r] /\ f[l] # -1
      BY <3>5, <3>6 DEF BothHeights
    <3>8. HeightOf(t, f, n) = IF t.red[n] THEN f[l] ELSE f[l] + 1
      BY <2>2, <3>2, <3>3, <3>7 DEF HeightOf
    <3> QED
      BY <3>5, <3>6, <3>8 DEF BothHeights
  <2> QED
    BY <2>1, <2>2
<1>3. f = [n \in Inside(t) \cup {Sentinel} |-> HeightOf(t, f, n)]
  <2>1. f = [n \in Inside(t) \cup {Sentinel} |-> f[n]]
    OBVIOUS
  <2> HIDE DEF f
  <2> QED
    BY <1>2, <2>1
<1> HIDE DEF f
<1> QED
  BY <1>3 DEF Heights

\* It is the black height that the colours of a red-black tree give.
LEMMA HeightsAre ==
    ASSUME NEW t, NEW T, NEW N, NEW pos, NEW b, NEW B, Sound(t, T, N, pos, b, B), T = Inside(t),
           NEW f, Heights(t, f), NEW n \in T \cup {Sentinel}
    PROVE  f[n] = B[n] /\ B[n] \in Nat
<1>1. Shape(t, T, N, pos, b) /\ B[Sentinel] = 0
  BY DEF Sound, Coloured
<1>2. \A k \in T \cup {Sentinel} : f[k] = HeightOf(t, f, k)
  BY DEF Heights
<1>3. f[Sentinel] = B[Sentinel] /\ B[Sentinel] \in Nat
  BY <1>1, <1>2 DEF HeightOf
<1> DEFINE S == {k \in Nat : \A m \in T : Width(b, m) < k => f[m] = B[m] /\ B[m] \in Nat}
<1>4. 0 \in S
  <2>1. ASSUME NEW m \in T PROVE ~(Width(b, m) < 0)
    BY <1>1, NodeFacts DEF Width
  <2> QED
    BY <2>1
<1>5. ASSUME NEW k \in Nat, k \in S PROVE k + 1 \in S
  <2> SUFFICES ASSUME NEW m \in T, Width(b, m) < k + 1 PROVE f[m] = B[m] /\ B[m] \in Nat
    OBVIOUS
  <2>1. ASSUME NEW e \in Sides PROVE f[t.child[e][m]] = B[t.child[e][m]]
    <3>1. PICK c : c = t.child[e][m]
      OBVIOUS
    <3>2. CASE c = Sentinel
      BY <1>3, <3>1, <3>2
    <3>3. CASE c # Sentinel
      <4>1. IsChild(t, T, pos, b, m, e, c)
        BY <1>1, <3>1, <3>3, ChildFacts
      <4>2. Width(b, c) \in Int /\ Width(b, m) \in Int /\ Width(b, c) < Width(b, m)
        BY <1>1, <4>1, ChildIsNarrower
      <4>3. c \in T /\ Width(b, c) < k
        BY <4>1, <4>2 DEF IsChild
      <4> QED
        BY <1>5, <3>1, <4>3
    <3> QED
      BY <3>2, <3>3
  <2>2. PICK l : l = t.child["left"][m]
    OBVIOUS
  <2>3. PICK r : r = t.child["right"][m]
    OBVIOUS
  <2>4. f[l] = B[l] /\ f[r] = B[r]
    BY <2>1, <2>2, <2>3, SideFacts
  <2>5. BothHeights(t, B, m, l, r)
    BY <2>2, <2>3, ChildHeights
  <2>6. m # Sentinel
    BY <1>1, NodeFacts
  <2>7. f[l] = f[r] /\ f[l] # -1
    BY <2>4, <2>5 DEF BothHeights
  <2>8. f[m] = IF t.red[m] THEN f[l] ELSE f[l] + 1
    BY <1>2, <2>2, <2>3, <2>6, <2>7 DEF HeightOf
  <2> QED
    BY <2>4, <2>5, <2>8 DEF BothHeights
<1>6. \A k \in Nat : k \in S
  <2> HIDE DEF S
  <2> QED
    BY <1>4, <1>5, EveryNumber
<1>7. CASE n \in T
  <2>1. Width(b, n) \in Int /\ Width(b, n) <= N + 1 /\ N \in Nat
    BY <1>1, <1>7, NodeFacts DEF Width
  <2>2. N + 2 \in S /\ Width(b, n) < N + 2
    BY <1>6, <2>1
  <2> QED
    BY <1>7, <2>2
<1>8. CASE n = Sentinel
  BY <1>3, <1>8
<1> QED
  BY <1>7, <1>8

\* The black height of a red-black tree is a number, not -1.
LEMMA SoundHeight ==
    ASSUME NEW t, NEW T, NEW N, NEW pos, NEW b, NEW B, Sound(t, T, N, pos, b, B), T = Inside(t)
    PROVE  BlackHeight(t) \in Nat
<1>1. PICK f : f = CHOOSE g : Heights(t, g)
  OBVIOUS
<1>2. Heights(t, f)
  BY <1>1, HeightsExist
<1>3. BlackHeight(t) = f[t.root]
  BY <1>1, HeightInNames
<1>4. t.root \in T \cup {Sentinel}
  <2>1. Rooted(t, T, N, b)
    BY DEF Sound, Shape
  <2> QED
    BY <2>1 DEF Rooted
<1> QED
  BY <1>2, <1>3, <1>4, HeightsAre

-----------------------------------------------------------------------------
(* The tree of its owners.                                                 *)

\* The invariant: the tree is red-black, with links both ways and positions
\* in one order.
TreeInv == tree \in Trees /\ Holds(tree, Inside(tree), Cardinality(Inside(tree)))

\* The owners give their nodes integers as keys.
LEMMA KeyIsInt ==
    ASSUME NEW kind \in Kinds, NEW n \in Nodes
    PROVE  KeyFor(kind, n) \in Int
<1>1. Value[n] \in Nat /\ Hash[n] \in Nat /\ Time[n] \in Nat /\ HalfRange \in Nat \ {0}
  BY TreeAssumption
<1>2. Time[n] % (2 * HalfRange) \in Int
  <2>1. 2 * HalfRange \in Nat \ {0}
    BY <1>1
  <2>2. PICK m \in Nat \ {0} : m = 2 * HalfRange
    BY <2>1
  <2> QED
    BY <1>1, <2>2
<1>3. kind = "value" \/ kind = "timer" \/ kind = "str"
  BY TreeAssumption
<1>4. CASE kind = "value"
  BY <1>1, <1>4 DEF KeyFor
<1>5. CASE kind = "timer"
  BY <1>2, <1>5 DEF KeyFor
<1>6. CASE kind = "str"
  BY <1>1, <1>6 DEF KeyFor
<1> QED
  BY <1>3, <1>4, <1>5, <1>6

\* ngx_rbtree_init gives a red-black tree.
LEMMA NewTree ==
    ASSUME NEW kind \in Kinds, NEW t, t = ngx_rbtree_init(kind)
    PROVE  t \in Trees /\ Holds(t, Inside(t), Cardinality(Inside(t)))
<1>1. /\ t.root = Sentinel /\ t.insert = kind /\ t.child = [d \in Sides |-> [n \in Cells |-> NULL]]
      /\ t.parent = [n \in Cells |-> NULL] /\ t.key = [n \in Cells |-> 0]
      /\ t.red = [n \in Cells |-> FALSE]
      /\ t = [root |-> t.root, insert |-> t.insert, child |-> t.child,
              parent |-> t.parent, key |-> t.key, red |-> t.red]
  BY DEF ngx_rbtree_init
<1>2. t \in Trees
  <2>1. t.root \in Cells /\ t.insert \in Kinds
    BY <1>1, CellFacts
  <2>2. t.child \in [Sides -> [Cells -> Cells \cup {NULL}]]
    BY <1>1
  <2>3. t.parent \in [Cells -> Cells \cup {NULL}]
    BY <1>1
  <2>4. t.key \in [Cells -> Int] /\ t.red \in [Cells -> BOOLEAN]
    BY <1>1
  <2>5. t = [root |-> t.root, insert |-> t.insert, child |-> t.child,
             parent |-> t.parent, key |-> t.key, red |-> t.red]
    BY <1>1
  <2> QED
    BY <2>1, <2>2, <2>3, <2>4, <2>5 DEF Trees
<1>3. Inside(t) = {}
  <2>1. ASSUME NEW n \in Nodes PROVE t.child["left"][n] = NULL
    BY <1>1, CellFacts, SideFacts
  <2> QED
    BY <2>1 DEF Inside
<1> DEFINE p == [n \in Nodes |-> 0]
           c == [d \in Sides |-> [n \in Nodes |-> 0]]
           B == [n \in Cells |-> 0]
<1>4. Shape(t, {}, 0, p, c)
  <2>1. Ordered({}, 0, p, c)
    BY DEF Ordered
  <2>2. Rooted(t, {}, 0, c)
    BY <1>1 DEF Rooted
  <2> HIDE DEF p, c
  <2> QED
    BY <1>2, <2>1, <2>2 DEF Shape
<1>5. Coloured(t, {}, B, Sentinel, "left", Sentinel) /\ ~t.red[t.root]
  <2>1. B \in [Cells -> Nat] /\ B[Sentinel] = 0 /\ t.red[Sentinel] = FALSE
    BY <1>1, CellFacts
  <2> HIDE DEF B
  <2> QED
    BY <1>1, <2>1 DEF Coloured
<1>6. Sound(t, {}, 0, p, c, B)
  <2> HIDE DEF p, c, B
  <2> QED
    BY <1>4, <1>5 DEF Sound
<1>7. Cardinality(Inside(t)) = 0
  BY <1>3, FS_EmptySet
<1>8. \E p1, c1, C : Sound(t, {}, 0, p1, c1, C)
  <2> HIDE DEF p, c, B
  <2> QED
    BY <1>6
<1> QED
  BY <1>2, <1>3, <1>7, <1>8 DEF Holds

\* Writing the key of a node does not matter to the tree.
LEMMA KeyHolds ==
    ASSUME NEW t, NEW T, NEW N, Holds(t, T, N), t \in Trees, NEW n \in Nodes, NEW k \in Int,
           NEW u, u = WithKey(t, n, k)
    PROVE  Holds(u, T, N) /\ u.insert = t.insert /\ u.child = t.child /\ u.key[n] = k
<1>1. KeySet(t, u, n, k) /\ n \in Cells
  BY SetKey, CellFacts
<1>2. Alike(t, u, T)
  BY <1>1 DEF KeySet, Alike
<1>3. PICK pos, b, B : Sound(t, T, N, pos, b, B)
  BY DEF Holds
<1>4. Sound(u, T, N, pos, b, B)
  BY <1>2, <1>3, AlikeSound
<1>5. Inside(u) = Inside(t)
  BY <1>1 DEF KeySet, Inside
<1>6. Holds(u, T, N)
  BY <1>4, <1>5 DEF Holds
<1> QED
  BY <1>1, <1>6 DEF KeySet

\* What holds of a tree in general, for the tree it is.
LEMMA HoldsIsTree ==
    ASSUME NEW t, NEW T, NEW N, Holds(t, T, N)
    PROVE  t \in Trees /\ Holds(t, Inside(t), Cardinality(Inside(t)))
BY DEF Holds, Sound, Shape

\* Inserting and deleting nodes keeps the tree as it should be.
LEMMA TreeStep == TreeInv /\ [TreeNext]_tree => TreeInv'
<1> SUFFICES ASSUME TreeInv, [TreeNext]_tree PROVE TreeInv'
  OBVIOUS
<1>1. PICK T : T = Inside(tree)
  OBVIOUS
<1>2. PICK N : N = Cardinality(T)
  OBVIOUS
<1>3. Holds(tree, T, N) /\ tree \in Trees
  BY <1>1, <1>2 DEF TreeInv
<1>4. SUFFICES ASSUME tree' # tree PROVE \E S, M : Holds(tree', S, M)
  <2>1. CASE tree' = tree
    BY <2>1 DEF TreeInv
  <2>2. CASE tree' # tree
    <3>1. PICK S, M : Holds(tree', S, M)
      BY <1>4, <2>2
    <3>2. tree' \in Trees /\ Holds(tree', Inside(tree'), Cardinality(Inside(tree')))
      BY <3>1, HoldsIsTree
    <3> QED
      BY <3>2 DEF TreeInv, Inside
  <2> QED
    BY <2>1, <2>2
<1>5. PICK n \in Nodes : ngx_rbtree_insert(n) \/ ngx_rbtree_delete(n)
  BY <1>4 DEF TreeNext
<1>6. CASE ngx_rbtree_insert(n)
  <2>1. PICK k : k = KeyFor(tree.insert, n)
    OBVIOUS
  <2>2. k \in Int
    <3>1. tree.insert \in Kinds
      BY <1>3, TreeFields
    <3> QED
      BY <2>1, <3>1, KeyIsInt
  <2>3. PICK t : t = WithKey(tree, n, k)
    OBVIOUS
  <2>4. Holds(t, T, N)
    BY <1>3, <2>2, <2>3, KeyHolds
  <2>5. n \in Nodes \ T /\ tree' = InsertInto(t, n)
    BY <1>1, <1>6, <2>1, <2>3 DEF ngx_rbtree_insert, WithKey, InTree
  <2>6. Holds(tree', T \cup {n}, N + 1)
    BY <2>4, <2>5, InsertHolds
  <2> QED
    BY <2>6
<1>7. CASE ngx_rbtree_delete(n)
  <2>1. n \in T /\ tree' = DeleteFrom(tree, n)
    BY <1>1, <1>7 DEF ngx_rbtree_delete, InTree
  <2>2. Holds(tree', T \ {n}, N - 1)
    BY <1>3, <2>1, DeleteHolds
  <2> QED
    BY <2>2
<1> QED
  BY <1>5, <1>6, <1>7

\* The inductive invariant: the tree is linked both ways, its nodes have
\* positions in one order, and it is coloured red-black.
THEOREM TreeIsSound == TreeSpec => []TreeInv
<1>1. TreeInit => TreeInv
  <2> SUFFICES ASSUME NEW kind \in Kinds, tree = ngx_rbtree_init(kind) PROVE TreeInv
    BY DEF TreeInit
  <2> QED
    BY NewTree DEF TreeInv
<1> QED
  BY <1>1, TreeStep, PTL DEF TreeSpec

\* The invariant gives what must hold: black root, no red below red, one
\* black height.
LEMMA TreeIsRedBlack == TreeInv => RedBlack
<1> SUFFICES ASSUME TreeInv PROVE RedBlack
  OBVIOUS
<1>1. PICK T, N, pos, b, B : Sound(tree, T, N, pos, b, B) /\ T = Inside(tree)
  BY DEF TreeInv, Holds
<1>2. /\ Shape(tree, T, N, pos, b) /\ Coloured(tree, T, B, Sentinel, "left", Sentinel)
      /\ ~tree.red[tree.root] /\ ~tree.red[Sentinel]
  BY <1>1 DEF Sound, Coloured
<1>3. BlackHeight(tree) # -1
  <2>1. PICK h : h = BlackHeight(tree)
    OBVIOUS
  <2>2. h \in Nat
    BY <1>1, <2>1, SoundHeight
  <2> QED
    BY <2>1, <2>2
<1>4. ASSUME NEW n \in Nodes, InTree(n), NEW d \in Sides, NEW c, c = tree.child[d][n], c # Sentinel
      PROVE  tree.parent[c] = n /\ c # tree.root /\ ~(tree.red[n] /\ tree.red[c])
  <2>1. n \in T /\ n # Sentinel
    BY <1>1, <1>4, CellFacts DEF InTree
  <2>2. IsChild(tree, T, pos, b, n, d, c)
    BY <1>2, <1>4, <2>1, ChildFacts
  <2>3. Good(tree.red, B, Sentinel, "left", Sentinel, n, d, c)
    BY <1>2, <1>4, <2>1 DEF Coloured
  <2>4. ~(tree.red[n] /\ tree.red[c])
    BY <1>4, <2>1, <2>3 DEF Good
  <2> QED
    BY <2>2, <2>4 DEF IsChild
<1> QED
  BY <1>2, <1>3, <1>4 DEF RedBlack

\* However nodes are inserted and deleted, the tree is a red-black tree with
\* links up that match the links down.
THEOREM TreeIsRedBlackAlways == TreeSpec => []RedBlack
BY TreeIsSound, TreeIsRedBlack, PTL
=============================================================================
