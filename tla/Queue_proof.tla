----------------------------- MODULE Queue_proof -----------------------------
(***************************************************************************)
(* Theorems about module Queue, for any finite set of items, heads and     *)
(* weights: it implements Lists, and the middle is the middle.  A list is  *)
(* a loop of cells whose neighbours point at each other; what each macro   *)
(* does to the edges of a loop is shown first, then what that is as        *)
(* sequences.                                                              *)
(***************************************************************************)
EXTENDS Queue, WellFoundedInduction, FiniteSetTheorems, SequenceTheorems, TLAPS

-----------------------------------------------------------------------------
(* Numbers.                                                                *)

\* The order of the numbers is well founded.
LEMMA LessIsWellFounded == IsWellFoundedOn({ss \in Nat \X Nat : ss[1] < ss[2]}, Nat)
BY NatLessThanWellFounded DEF OpToRel

\* Every set of numbers has a least one.
LEMMA LeastExists ==
    ASSUME NEW S \in SUBSET Nat, S # {}
    PROVE  \E i \in S : \A j \in S : i <= j
<1> DEFINE R == {ss \in Nat \X Nat : ss[1] < ss[2]}
<1>1. PICK i \in S : \A j \in S : ~(<<j, i>> \in R)
  <2> HIDE DEF R
  <2>1. IsWellFoundedOn(R, Nat)
    BY LessIsWellFounded DEF R
  <2> QED
    BY <2>1, WFMin
<1>2. ASSUME NEW j \in S PROVE i <= j
  <2>1. i \in Nat /\ j \in Nat
    OBVIOUS
  <2>2. <<j, i>> \in R <=> j < i
    BY <2>1, Zenon
  <2>3. ~(<<j, i>> \in R)
    BY <1>1
  <2> HIDE DEF R
  <2> QED
    BY <2>1, <2>2, <2>3
<1> QED
  BY <1>2

\* Induction for a set instead of a formula.
LEMMA EveryNumber ==
    ASSUME NEW S, 0 \in S, \A n \in Nat : n \in S => n + 1 \in S
    PROVE  \A n \in Nat : n \in S
<1> SUFFICES ASSUME Nat \ S # {} PROVE FALSE
  OBVIOUS
<1>1. PICK i \in Nat \ S : \A j \in Nat \ S : i <= j
  <2> DEFINE T == Nat \ S
  <2>1. T \in SUBSET Nat /\ T # {}
    OBVIOUS
  <2> HIDE DEF T
  <2>2. \E i \in T : \A j \in T : i <= j
    BY <2>1, LeastExists
  <2> QED
    BY <2>2 DEF T
<1>2. i # 0 /\ i - 1 \in Nat
  BY <1>1
<1>3. i - 1 \in S
  BY <1>1, <1>2
<1>4. (i - 1) + 1 \in S
  BY <1>2, <1>3
<1> QED
  BY <1>1, <1>4

-----------------------------------------------------------------------------
(* The memory of the links.                                                *)

Links == [prev : [Memory -> Memory], next : [Memory -> Memory]]

-----------------------------------------------------------------------------
(* Edges: what the macros link and what they leave linked.                 *)

Edge(q, u, v) == q.next[u] = v /\ q.prev[v] = u

\* Only edges that begin in U or end in V are cut.
Keeps(q, p, U, V) == \A u, v \in Memory : Edge(q, u, v) /\ u \notin U /\ v \notin V => Edge(p, u, v)

LEMMA InitEdges ==
    ASSUME NEW q \in Links, NEW h \in Memory, NEW p, p = ngx_queue_init(q, h)
    PROVE  p \in Links /\ Edge(p, h, h) /\ Keeps(q, p, {h}, {h})
<1>1. /\ p \in Links
      /\ p.next = [q.next EXCEPT ![h] = h] /\ p.prev = [q.prev EXCEPT ![h] = h]
  BY DEF Links, ngx_queue_init
<1>2. q.next \in [Memory -> Memory] /\ q.prev \in [Memory -> Memory]
  BY DEF Links
<1> QED
  BY <1>1, <1>2 DEF Edge, Keeps

\* What both insertions do with the edge from a to b.
Inserted(q, p, a, x, b) == /\ p \in Links /\ Edge(p, a, x) /\ Edge(p, x, b)
                           /\ Keeps(q, p, {a, x}, {x, b})

LEMMA HeadEdges ==
    ASSUME NEW q \in Links, NEW a \in Memory, NEW b \in Memory, Edge(q, a, b),
           NEW x \in Memory, x # a, x # b, NEW p, p = ngx_queue_insert_head(q, a, x)
    PROVE  Inserted(q, p, a, x, b)
<1>1. /\ p \in Links
      /\ p.next = [[q.next EXCEPT ![x] = q.next[a]] EXCEPT ![a] = x]
      /\ p.prev = [[q.prev EXCEPT ![q.next[a]] = x] EXCEPT ![x] = a]
  BY DEF Links, ngx_queue_insert_head
<1>2. q.next \in [Memory -> Memory] /\ q.prev \in [Memory -> Memory] /\ q.next[a] = b
  BY DEF Links, Edge
<1> QED
  BY <1>1, <1>2 DEF Edge, Keeps, Inserted

LEMMA TailEdges ==
    ASSUME NEW q \in Links, NEW a \in Memory, NEW b \in Memory, Edge(q, a, b),
           NEW x \in Memory, x # a, x # b, NEW p, p = ngx_queue_insert_tail(q, b, x)
    PROVE  Inserted(q, p, a, x, b)
<1>1. /\ p \in Links
      /\ p.prev = [[q.prev EXCEPT ![x] = q.prev[b]] EXCEPT ![b] = x]
      /\ p.next = [[q.next EXCEPT ![q.prev[b]] = x] EXCEPT ![x] = b]
  BY DEF Links, ngx_queue_insert_tail
<1>2. q.next \in [Memory -> Memory] /\ q.prev \in [Memory -> Memory] /\ q.prev[b] = a
  BY DEF Links, Edge
<1> QED
  BY <1>1, <1>2 DEF Edge, Keeps, Inserted

\* The links of what is taken out are free.
LEMMA RemoveEdges ==
    ASSUME NEW q \in Links, NEW a \in Memory, NEW x \in Memory, NEW b \in Memory,
           Edge(q, a, x), Edge(q, x, b), x # a, x # b,
           NEW p, p = ngx_queue_remove(q, x)
    PROVE  p \in Links /\ Edge(p, a, b) /\ Keeps(q, p, {a, x}, {x, b})
<1>1. /\ p \in Links
      /\ p.prev = [q.prev EXCEPT ![q.next[x]] = q.prev[x]]
      /\ p.next = [q.next EXCEPT ![q.prev[x]] = q.next[x]]
  BY DEF Links, ngx_queue_remove
<1>2. /\ q.next \in [Memory -> Memory] /\ q.prev \in [Memory -> Memory]
      /\ q.next[x] = b /\ q.prev[x] = a
  BY DEF Links, Edge
<1> QED
  BY <1>1, <1>2 DEF Edge, Keeps

LEMMA ForgetEdges ==
    ASSUME NEW q \in Links, NEW x \in Memory,
           NEW p, p = [q EXCEPT !.prev[x] = Nowhere, !.next[x] = Nowhere]
    PROVE  p \in Links /\ Keeps(q, p, {x}, {x})
<1>1. /\ p \in Links
      /\ p.prev = [q.prev EXCEPT ![x] = Nowhere] /\ p.next = [q.next EXCEPT ![x] = Nowhere]
  BY DEF Links, Memory
<1>2. q.next \in [Memory -> Memory] /\ q.prev \in [Memory -> Memory]
  BY DEF Links
<1> QED
  BY <1>1, <1>2 DEF Edge, Keeps

\* From x on to the last one l of the list of h: the loop of n.
LEMMA SplitEdges ==
    ASSUME NEW q \in Links, NEW h \in Memory, NEW x \in Memory, NEW n \in Memory,
           NEW a \in Memory, NEW l \in Memory, Edge(q, a, x), Edge(q, l, h),
           a # l, x # h, n # h, n # x, n # l, n # a,
           NEW p, p = ngx_queue_split(q, h, x, n)
    PROVE  /\ p \in Links /\ Edge(p, a, h) /\ Edge(p, l, n) /\ Edge(p, n, x)
           /\ Keeps(q, p, {a, l, n}, {h, n, x})
<1>1. /\ p \in Links
      /\ p.prev = [[[q.prev EXCEPT ![n] = q.prev[h]] EXCEPT ![h] = q.prev[x]] EXCEPT ![x] = n]
      /\ p.next = [[[q.next EXCEPT ![q.prev[h]] = n] EXCEPT ![n] = x] EXCEPT ![q.prev[x]] = h]
  BY DEF Links, ngx_queue_split
<1>2. /\ q.next \in [Memory -> Memory] /\ q.prev \in [Memory -> Memory]
      /\ q.prev[h] = l /\ q.prev[x] = a
  BY DEF Links, Edge
<1> QED
  BY <1>1, <1>2 DEF Edge, Keeps

\* A list from f to m joins the one of h behind its last cell l.
LEMMA AddEdges ==
    ASSUME NEW q \in Links, NEW h \in Memory, NEW n \in Memory, h # n,
           NEW l \in Memory, NEW f \in Memory, NEW m \in Memory,
           Edge(q, l, h), Edge(q, n, f), Edge(q, m, n),
           l # n, l # m, f # h, f # n, m # h, m # n,
           NEW p, p = ngx_queue_add(q, h, n)
    PROVE  /\ p \in Links /\ Edge(p, l, f) /\ Edge(p, m, h)
           /\ Keeps(q, p, {l, n, m}, {h, f, n})
<1> DEFINE q1 == [q EXCEPT !.next[q.prev[h]] = q.next[n]]
           q2 == [q1 EXCEPT !.prev[q1.next[n]] = q1.prev[h]]
           q3 == [q2 EXCEPT !.prev[h] = q2.prev[n]]
<1>1. /\ q.next \in [Memory -> Memory] /\ q.prev \in [Memory -> Memory] /\ q.prev[h] = l
      /\ q.next[n] = f /\ q.prev[n] = m
  BY DEF Links, Edge
<1>2. q1 \in Links /\ q1.next = [q.next EXCEPT ![l] = f] /\ q1.prev = q.prev
  BY <1>1 DEF Links
<1> HIDE DEF q1
<1>3. q1.next[n] = f /\ q1.prev[h] = l
  BY <1>1, <1>2
<1>4. q2 \in Links /\ q2.prev = [q1.prev EXCEPT ![f] = l] /\ q2.next = q1.next
  BY <1>2, <1>3 DEF Links
<1> HIDE DEF q2
<1>5. q2.prev[n] = m
  BY <1>1, <1>2, <1>4
<1>6. q3 \in Links /\ q3.prev = [q2.prev EXCEPT ![h] = m] /\ q3.next = q2.next
  BY <1>4, <1>5 DEF Links
<1>7. p = [q3 EXCEPT !.next[q3.prev[h]] = h]
  BY DEF ngx_queue_add, q1, q2
<1> HIDE DEF q3
<1>8. q3.prev[h] = m
  BY <1>1, <1>2, <1>4, <1>6
<1>9. p \in Links /\ p.next = [q3.next EXCEPT ![m] = h] /\ p.prev = q3.prev
  BY <1>6, <1>7, <1>8 DEF Links
<1>10. /\ p.next = [[q.next EXCEPT ![l] = f] EXCEPT ![m] = h]
       /\ p.prev = [[q.prev EXCEPT ![f] = l] EXCEPT ![h] = m]
  BY <1>2, <1>4, <1>6, <1>9
<1> QED
  BY <1>1, <1>9, <1>10 DEF Edge, Keeps

\* An empty list adds nothing.
LEMMA AddNoEdges ==
    ASSUME NEW q \in Links, NEW h \in Memory, NEW n \in Memory, h # n,
           NEW l \in Memory, Edge(q, l, h), Edge(q, n, n), l # n,
           NEW p, p = ngx_queue_add(q, h, n)
    PROVE  p \in Links /\ Edge(p, l, h) /\ Keeps(q, p, {l, n}, {h, n})
<1> DEFINE q1 == [q EXCEPT !.next[q.prev[h]] = q.next[n]]
           q2 == [q1 EXCEPT !.prev[q1.next[n]] = q1.prev[h]]
           q3 == [q2 EXCEPT !.prev[h] = q2.prev[n]]
<1>1. /\ q.next \in [Memory -> Memory] /\ q.prev \in [Memory -> Memory] /\ q.prev[h] = l
      /\ q.next[n] = n
  BY DEF Links, Edge
<1>2. q1 \in Links /\ q1.next = [q.next EXCEPT ![l] = n] /\ q1.prev = q.prev
  BY <1>1 DEF Links
<1> HIDE DEF q1
<1>3. q1.next[n] = n /\ q1.prev[h] = l
  BY <1>1, <1>2
<1>4. q2 \in Links /\ q2.prev = [q1.prev EXCEPT ![n] = l] /\ q2.next = q1.next
  BY <1>2, <1>3 DEF Links
<1> HIDE DEF q2
<1>5. q2.prev[n] = l
  BY <1>1, <1>2, <1>4
<1>6. q3 \in Links /\ q3.prev = [q2.prev EXCEPT ![h] = l] /\ q3.next = q2.next
  BY <1>4, <1>5 DEF Links
<1>7. p = [q3 EXCEPT !.next[q3.prev[h]] = h]
  BY DEF ngx_queue_add, q1, q2
<1> HIDE DEF q3
<1>8. q3.prev[h] = l
  BY <1>1, <1>2, <1>4, <1>6
<1>9. p \in Links /\ p.next = [q3.next EXCEPT ![l] = h] /\ p.prev = q3.prev
  BY <1>6, <1>7, <1>8 DEF Links
<1>10. /\ p.next = [[q.next EXCEPT ![l] = n] EXCEPT ![l] = h]
       /\ p.prev = [[q.prev EXCEPT ![n] = l] EXCEPT ![h] = l]
  BY <1>2, <1>4, <1>6, <1>9
<1> QED
  BY <1>1, <1>9, <1>10 DEF Edge, Keeps

-----------------------------------------------------------------------------
(* Loops: N[0] is the head, N[1] to N[n] are the items, N[n + 1] the head.  *)

Loop(q, n, N) ==
    /\ n \in Nat /\ N \in [0..n + 1 -> Memory] /\ N[n + 1] = N[0]
    /\ \A i, j \in 0..n : N[i] = N[j] => i = j
    /\ \A i \in 0..n : Edge(q, N[i], N[i + 1])

LEMMA LoopFacts ==
    ASSUME NEW q, NEW n, NEW N, Loop(q, n, N)
    PROVE  /\ n \in Nat /\ N[n + 1] = N[0]
           /\ \A i \in 0..n + 1 : N[i] \in Memory
           /\ \A i, j \in 0..n : N[i] = N[j] => i = j
           /\ \A i, j \in 0..n : N[i + 1] = N[j + 1] => i = j
           /\ \A i \in 0..n : i + 1 \in 0..n + 1 /\ Edge(q, N[i], N[i + 1])
<1>1. /\ n \in Nat /\ N[n + 1] = N[0]
      /\ \A i \in 0..n + 1 : N[i] \in Memory
      /\ \A i, j \in 0..n : N[i] = N[j] => i = j
      /\ \A i \in 0..n : i + 1 \in 0..n + 1 /\ Edge(q, N[i], N[i + 1])
  BY DEF Loop
<1>2. ASSUME NEW i \in 0..n, NEW j \in 0..n, N[i + 1] = N[j + 1] PROVE i = j
  <2>1. CASE i = n /\ j < n
    <3>1. N[j + 1] = N[0] /\ j + 1 \in 0..n /\ 0 \in 0..n /\ j + 1 # 0
      BY <1>1, <1>2, <2>1
    <3> QED
      BY <1>1, <3>1
  <2>2. CASE j = n /\ i < n
    <3>1. N[i + 1] = N[0] /\ i + 1 \in 0..n /\ 0 \in 0..n /\ i + 1 # 0
      BY <1>1, <1>2, <2>2
    <3> QED
      BY <1>1, <3>1
  <2>3. CASE i < n /\ j < n
    <3>1. i + 1 \in 0..n /\ j + 1 \in 0..n
      BY <1>1, <2>3
    <3>2. i + 1 = j + 1
      BY <1>1, <1>2, <3>1
    <3> QED
      BY <3>2
  <2> QED
    BY <1>1, <2>1, <2>2, <2>3
<1> QED
  BY <1>1, <1>2

LEMMA LoopStays ==
    ASSUME NEW q, NEW p, NEW n, NEW N, Loop(q, n, N), NEW U, NEW V, Keeps(q, p, U, V),
           \A i \in 0..n : N[i] \notin U /\ N[i + 1] \notin V
    PROVE  Loop(p, n, N)
<1>1. ASSUME NEW i \in 0..n PROVE Edge(p, N[i], N[i + 1])
  <2>1. N[i] \in Memory /\ N[i + 1] \in Memory /\ Edge(q, N[i], N[i + 1])
    BY LoopFacts
  <2> QED
    BY <2>1 DEF Keeps
<1> QED
  BY <1>1 DEF Loop

\* M is N with x between N[k] and the one behind it.
With(N, n, k, x, M) ==
    /\ k \in 0..n /\ x \in Memory /\ \A i \in 0..n : N[i] # x
    /\ M \in [0 .. n + 2 -> Memory]
    /\ \A i \in 0..k : M[i] = N[i]
    /\ M[k + 1] = x
    /\ \A i \in k + 2 .. n + 2 : M[i] = N[i - 1]

LEMMA LoopInsert ==
    ASSUME NEW q, NEW p, NEW n, NEW N, Loop(q, n, N), NEW k, NEW x, NEW M, With(N, n, k, x, M),
           Inserted(q, p, N[k], x, N[k + 1])
    PROVE  Loop(p, n + 1, M)
<1>0. /\ k \in 0..n /\ x \in Memory /\ \A i \in 0..n : N[i] # x
      /\ M \in [0 .. n + 2 -> Memory]
      /\ \A i \in 0..k : M[i] = N[i]
      /\ M[k + 1] = x
      /\ \A i \in k + 2 .. n + 2 : M[i] = N[i - 1]
  BY DEF With
<1>1. /\ n \in Nat /\ N[n + 1] = N[0]
      /\ \A i \in 0..n + 1 : N[i] \in Memory
      /\ \A i, j \in 0..n : N[i] = N[j] => i = j
      /\ \A i, j \in 0..n : N[i + 1] = N[j + 1] => i = j
      /\ \A i \in 0..n : i + 1 \in 0..n + 1 /\ Edge(q, N[i], N[i + 1])
  BY LoopFacts
<1>2. /\ Edge(p, N[k], x) /\ Edge(p, x, N[k + 1])
      /\ \A i \in 0..n : i # k /\ N[i + 1] # x => Edge(p, N[i], N[i + 1])
  <2>1. Edge(p, N[k], x) /\ Edge(p, x, N[k + 1])
    BY DEF Inserted
  <2>2. Keeps(q, p, {N[k], x}, {x, N[k + 1]})
    BY DEF Inserted
  <2>3. ASSUME NEW i \in 0..n, i # k, N[i + 1] # x PROVE Edge(p, N[i], N[i + 1])
    <3>1. N[i] # N[k] /\ N[i + 1] # N[k + 1] /\ N[i] # x
      BY <1>0, <1>1, <2>3
    <3>2. Edge(q, N[i], N[i + 1]) /\ N[i] \in Memory /\ N[i + 1] \in Memory
      BY <1>0, <1>1
    <3> QED
      BY <2>2, <2>3, <3>1, <3>2 DEF Keeps
  <2> QED
    BY <2>1, <2>3
<1>3. \A i \in 0..n : N[i + 1] # x
  <2>1. \A i \in 0..n : i + 1 \in 0..n \/ N[i + 1] = N[0]
    BY <1>0, <1>1
  <2>2. 0 \in 0..n
    BY <1>0, <1>1
  <2> QED
    BY <1>0, <2>1, <2>2
<1>4. /\ (n + 1) + 1 = n + 2 /\ n \in Nat /\ k \in Nat /\ k <= n
      /\ M[n + 2] = N[n + 1] /\ M[0] = N[0]
  BY <1>0, <1>1
<1>5. ASSUME NEW i \in 0..n + 1, NEW j \in 0..n + 1, M[i] = M[j] PROVE i = j
  <2>1. /\ \/ i \in 0..n /\ M[i] = N[i] /\ i <= k
           \/ i = k + 1 /\ M[i] = x
           \/ i - 1 \in 0..n /\ M[i] = N[i - 1] /\ i - 1 > k
        /\ \/ j \in 0..n /\ M[j] = N[j] /\ j <= k
           \/ j = k + 1 /\ M[j] = x
           \/ j - 1 \in 0..n /\ M[j] = N[j - 1] /\ j - 1 > k
    BY <1>0, <1>4
  <2>2. \A a, b \in 0..n : N[a] = N[b] => a = b
    BY <1>0, <1>1
  <2> QED
    BY <1>0, <1>4, <1>5, <2>1, <2>2
<1>6. ASSUME NEW i \in 0..n + 1 PROVE Edge(p, M[i], M[i + 1])
  <2>1. CASE i < k
    <3>1. i \in 0..k /\ i + 1 \in 0..k /\ i \in 0..n /\ i # k
      BY <1>0, <1>4, <2>1
    <3> QED
      BY <1>0, <1>2, <1>3, <3>1
  <2>2. CASE i = k
    BY <1>0, <1>2, <2>2
  <2>3. CASE i = k + 1
    <3>1. i + 1 \in k + 2 .. n + 2 /\ (i + 1) - 1 = k + 1
      BY <1>0, <1>4, <2>3
    <3> QED
      BY <1>0, <1>2, <2>3, <3>1
  <2>4. CASE i > k + 1
    <3>1. /\ i \in k + 2 .. n + 2 /\ i + 1 \in k + 2 .. n + 2 /\ (i + 1) - 1 = (i - 1) + 1
          /\ i - 1 \in 0..n /\ i - 1 # k
      BY <1>0, <1>4, <2>4
    <3> QED
      BY <1>0, <1>2, <1>3, <3>1
  <2> QED
    BY <1>0, <1>4, <2>1, <2>2, <2>3, <2>4
<1> QED
  BY <1>0, <1>1, <1>4, <1>5, <1>6 DEF Loop

\* M is N without N[k].
Without(N, n, k, M) ==
    /\ k \in 1..n /\ M \in [0..n -> Memory]
    /\ \A i \in 0 .. k - 1 : M[i] = N[i]
    /\ \A i \in k..n : M[i] = N[i + 1]

LEMMA LoopRemove ==
    ASSUME NEW q \in Links, NEW p, NEW n, NEW N, Loop(q, n, N), NEW k, NEW M, Without(N, n, k, M),
           p = ngx_queue_remove(q, N[k])
    PROVE  /\ Loop(p, n - 1, M) /\ p \in Links
           /\ Keeps(q, p, {N[k - 1], N[k]}, {N[k], N[k + 1]})
<1>0. /\ k \in 1..n /\ M \in [0..n -> Memory]
      /\ \A i \in 0 .. k - 1 : M[i] = N[i]
      /\ \A i \in k..n : M[i] = N[i + 1]
  BY DEF Without
<1>1. /\ n \in Nat /\ N[n + 1] = N[0]
      /\ \A i \in 0..n + 1 : N[i] \in Memory
      /\ \A i, j \in 0..n : N[i] = N[j] => i = j
      /\ \A i, j \in 0..n : N[i + 1] = N[j + 1] => i = j
      /\ \A i \in 0..n : i + 1 \in 0..n + 1 /\ Edge(q, N[i], N[i + 1])
  BY LoopFacts
<1>2. /\ k \in 0..n /\ k - 1 \in 0..n /\ (k - 1) + 1 = k /\ k # k - 1 /\ k <= n /\ k \in Nat
      /\ k + 1 \in 0..n + 1 /\ k >= 1 /\ n \in Nat
  BY <1>0, <1>1
<1>3. Edge(q, N[k - 1], N[k]) /\ Edge(q, N[k], N[k + 1]) /\ N[k] # N[k - 1] /\ N[k] # N[k + 1]
  BY <1>0, <1>1, <1>2
<1>4. /\ p \in Links /\ Edge(p, N[k - 1], N[k + 1])
      /\ Keeps(q, p, {N[k - 1], N[k]}, {N[k], N[k + 1]})
  <2>1. N[k - 1] \in Memory /\ N[k] \in Memory /\ N[k + 1] \in Memory
    BY <1>0, <1>1, <1>2
  <2>2. PICK a \in Memory, x \in Memory, b \in Memory : a = N[k - 1] /\ x = N[k] /\ b = N[k + 1]
    BY <2>1
  <2>3. Edge(q, a, x) /\ Edge(q, x, b) /\ x # a /\ x # b /\ p = ngx_queue_remove(q, x)
    BY <1>0, <1>3, <2>2
  <2>4. p \in Links /\ Edge(p, a, b) /\ Keeps(q, p, {a, x}, {x, b})
    BY <2>3, RemoveEdges
  <2> QED
    BY <2>2, <2>4
<1>5. ASSUME NEW i \in 0..n, i # k, i # k - 1 PROVE Edge(p, N[i], N[i + 1])
  <2>1. Edge(q, N[i], N[i + 1]) /\ N[i] \in Memory /\ N[i + 1] \in Memory
    BY <1>0, <1>1
  <2>2. N[i] # N[k] /\ N[i] # N[k - 1] /\ N[i + 1] # N[k + 1] /\ N[i + 1] # N[k]
    BY <1>0, <1>1, <1>2, <1>5
  <2> QED
    BY <1>0, <1>4, <2>1, <2>2 DEF Keeps
<1>6. n - 1 \in Nat /\ (n - 1) + 1 = n /\ M[n] = N[n + 1] /\ M[0] = N[0]
  BY <1>0, <1>1, <1>2
<1>7. ASSUME NEW i \in 0..n - 1, NEW j \in 0..n - 1, M[i] = M[j] PROVE i = j
  <2>1. /\ i \in 0 .. k - 1 \/ (i \in k..n /\ i + 1 \in k + 1 .. n)
        /\ j \in 0 .. k - 1 \/ (j \in k..n /\ j + 1 \in k + 1 .. n)
    BY <1>0, <1>1, <1>2
  <2> QED
    BY <1>0, <1>1, <1>2, <1>7, <2>1
<1>8. ASSUME NEW i \in 0..n - 1 PROVE Edge(p, M[i], M[i + 1])
  <2>1. CASE i < k - 1
    <3>1. i \in 0 .. k - 1 /\ i + 1 \in 0 .. k - 1 /\ i \in 0..n /\ i # k /\ i # k - 1
      BY <1>0, <1>2, <2>1
    <3> QED
      BY <1>0, <1>5, <3>1
  <2>2. CASE i = k - 1
    <3>1. i \in 0 .. k - 1 /\ i + 1 \in k..n /\ (i + 1) + 1 = k + 1
      BY <1>0, <1>2, <2>2
    <3> QED
      BY <1>0, <1>4, <2>2, <3>1
  <2>3. CASE i > k - 1
    <3>1. i \in k..n /\ i + 1 \in k..n /\ i + 1 \in 0..n /\ i + 1 # k /\ i + 1 # k - 1
      BY <1>0, <1>2, <2>3
    <3> QED
      BY <1>0, <1>5, <3>1
  <2> QED
    BY <1>0, <1>2, <2>1, <2>2, <2>3
<1> QED
  BY <1>0, <1>4, <1>6, <1>7, <1>8 DEF Loop

\* L and M are N up to N[k] and, in a loop of its own, from there on.
Parts(N, n, k, y, L, M) ==
    /\ k \in 1..n /\ y \in Memory /\ \A i \in 0..n : N[i] # y
    /\ L \in [0..k -> Memory] /\ L[k] = N[0]
    /\ \A i \in 0 .. k - 1 : L[i] = N[i]
    /\ M \in [0 .. n - k + 2 -> Memory] /\ M[0] = y /\ M[n - k + 2] = y
    /\ \A i \in 1 .. n - k + 1 : M[i] = N[k + i - 1]

LEMMA LoopSplit ==
    ASSUME NEW q \in Links, NEW p, NEW n, NEW N, Loop(q, n, N), NEW k, NEW y, NEW L, NEW M,
           Parts(N, n, k, y, L, M), p = ngx_queue_split(q, N[0], N[k], y)
    PROVE  /\ Loop(p, k - 1, L) /\ Loop(p, n - k + 1, M) /\ p \in Links
           /\ Keeps(q, p, {N[k - 1], N[n], y}, {N[0], y, N[k]})
<1>0. /\ k \in 1..n /\ y \in Memory /\ \A i \in 0..n : N[i] # y
      /\ L \in [0..k -> Memory] /\ L[k] = N[0]
      /\ \A i \in 0 .. k - 1 : L[i] = N[i]
      /\ M \in [0 .. n - k + 2 -> Memory] /\ M[0] = y /\ M[n - k + 2] = y
      /\ \A i \in 1 .. n - k + 1 : M[i] = N[k + i - 1]
  BY DEF Parts
<1>1. /\ n \in Nat /\ N[n + 1] = N[0]
      /\ \A i \in 0..n + 1 : N[i] \in Memory
      /\ \A i, j \in 0..n : N[i] = N[j] => i = j
      /\ \A i, j \in 0..n : N[i + 1] = N[j + 1] => i = j
      /\ \A i \in 0..n : i + 1 \in 0..n + 1 /\ Edge(q, N[i], N[i + 1])
  BY LoopFacts
<1>2. /\ n \in Nat /\ k \in Nat /\ k >= 1 /\ k <= n
      /\ k \in 0..n /\ k - 1 \in 0..n /\ (k - 1) + 1 = k /\ k - 1 # n /\ n \in 0..n /\ 0 \in 0..n
      /\ k # 0
  BY <1>0, <1>1
<1>3. /\ p \in Links /\ Edge(p, N[k - 1], N[0]) /\ Edge(p, N[n], y) /\ Edge(p, y, N[k])
      /\ Keeps(q, p, {N[k - 1], N[n], y}, {N[0], y, N[k]})
  <2>1. PICK h \in Memory, x \in Memory, a \in Memory, l \in Memory :
            h = N[0] /\ x = N[k] /\ a = N[k - 1] /\ l = N[n]
    BY <1>0, <1>1, <1>2
  <2>2. /\ Edge(q, a, x) /\ Edge(q, l, h) /\ a # l /\ x # h
        /\ y # h /\ y # x /\ y # l /\ y # a /\ p = ngx_queue_split(q, h, x, y)
    BY <1>0, <1>1, <1>2, <2>1
  <2>3. /\ p \in Links /\ Edge(p, a, h) /\ Edge(p, l, y) /\ Edge(p, y, x)
        /\ Keeps(q, p, {a, l, y}, {h, y, x})
    BY <1>0, <2>2, SplitEdges
  <2> QED
    BY <2>1, <2>3
<1>4. ASSUME NEW i \in 0 .. n - 1, i # k - 1 PROVE Edge(p, N[i], N[i + 1])
  <2>1. i \in 0..n /\ i + 1 \in 0..n /\ i # n /\ i + 1 # k /\ i + 1 # 0
    BY <1>0, <1>2, <1>4
  <2>2. Edge(q, N[i], N[i + 1]) /\ N[i] \in Memory /\ N[i + 1] \in Memory
    BY <1>0, <1>1, <2>1
  <2>3. /\ N[i] \notin {N[k - 1], N[n], y} /\ N[i + 1] \notin {N[0], y, N[k]}
    BY <1>0, <1>1, <1>2, <1>4, <2>1
  <2> QED
    BY <1>0, <1>3, <2>2, <2>3 DEF Keeps
<1>5. Loop(p, k - 1, L)
  <2>1. k - 1 \in Nat /\ (k - 1) + 1 = k /\ L[k] = L[0]
    BY <1>0, <1>2
  <2>2. \A i, j \in 0 .. k - 1 : i \in 0..n /\ j \in 0..n /\ L[i] = N[i] /\ L[j] = N[j]
    BY <1>0, <1>2
  <2>3. \A i, j \in 0 .. k - 1 : L[i] = L[j] => i = j
    BY <1>0, <1>1, <2>2
  <2>4. ASSUME NEW i \in 0 .. k - 1 PROVE Edge(p, L[i], L[i + 1])
    <3>1. CASE i = k - 1
      BY <1>0, <1>2, <1>3, <3>1
    <3>2. CASE i # k - 1
      <4>1. i \in 0 .. n - 1 /\ i \in 0 .. k - 1 /\ i + 1 \in 0 .. k - 1
        BY <1>0, <1>2, <3>2
      <4> QED
        BY <1>0, <1>4, <3>2, <4>1
    <3> QED
      BY <3>1, <3>2
  <2> QED
    BY <1>0, <2>1, <2>3, <2>4 DEF Loop
<1>6. Loop(p, n - k + 1, M)
  <2>1. n - k + 1 \in Nat /\ (n - k + 1) + 1 = n - k + 2 /\ M[n - k + 2] = M[0]
    BY <1>0, <1>2
  <2>2. \A i \in 1 .. n - k + 1 : k + i - 1 \in 0..n /\ M[i] = N[k + i - 1]
    BY <1>0, <1>2
  <2>3. ASSUME NEW i \in 0 .. n - k + 1, NEW j \in 0 .. n - k + 1, M[i] = M[j] PROVE i = j
    <3>1. \/ i = 0 /\ M[i] = y
          \/ k + i - 1 \in 0..n /\ M[i] = N[k + i - 1] /\ i # 0
      BY <1>0, <1>2, <2>2
    <3>2. \/ j = 0 /\ M[j] = y
          \/ k + j - 1 \in 0..n /\ M[j] = N[k + j - 1] /\ j # 0
      BY <1>0, <1>2, <2>2
    <3>3. \A a, b \in 0..n : N[a] = N[b] => a = b
      BY <1>0, <1>1
    <3> QED
      BY <1>0, <1>2, <2>3, <3>1, <3>2, <3>3
  <2>4. ASSUME NEW i \in 0 .. n - k + 1 PROVE Edge(p, M[i], M[i + 1])
    <3>1. CASE i = 0
      <4>1. 1 \in 1 .. n - k + 1 /\ k + 1 - 1 = k
        BY <1>0, <1>2
      <4> QED
        BY <1>0, <1>3, <3>1, <4>1
    <3>2. CASE i # 0 /\ i = n - k + 1
      <4>1. i \in 1 .. n - k + 1 /\ k + i - 1 = n /\ i + 1 = n - k + 2
        BY <1>0, <1>2, <3>2
      <4> QED
        BY <1>0, <1>3, <4>1
    <3>3. CASE i # 0 /\ i # n - k + 1
      <4>1. /\ i \in 1 .. n - k + 1 /\ i + 1 \in 1 .. n - k + 1
            /\ k + i - 1 \in 0 .. n - 1 /\ k + i - 1 # k - 1 /\ k + (i + 1) - 1 = (k + i - 1) + 1
        BY <1>0, <1>2, <3>3
      <4>2. M[i] = N[k + i - 1] /\ M[i + 1] = N[(k + i - 1) + 1]
        BY <1>0, <4>1
      <4> QED
        BY <1>0, <1>4, <4>1, <4>2
    <3> QED
      BY <3>1, <3>2, <3>3
  <2> QED
    BY <1>0, <2>1, <2>3, <2>4 DEF Loop
<1> QED
  BY <1>0, <1>3, <1>5, <1>6

\* R has the items of M behind those of N.
Joined(N, n, M, m, R) ==
    /\ \A i \in 0..n, j \in 0..m : N[i] # M[j]
    /\ R \in [0 .. n + m + 1 -> Memory] /\ R[n + m + 1] = N[0]
    /\ \A i \in 0..n : R[i] = N[i]
    /\ \A i \in 1..m : R[n + i] = M[i]

LEMMA LoopJoin ==
    ASSUME NEW q \in Links, NEW p, NEW n, NEW N, Loop(q, n, N), NEW m, NEW M, Loop(q, m, M),
           NEW R, Joined(N, n, M, m, R), p = ngx_queue_add(q, N[0], M[0])
    PROVE  /\ Loop(p, n + m, R) /\ p \in Links
           /\ Keeps(q, p, {N[n], M[0], M[m]}, {N[0], M[1], M[0]})
<1>0. /\ \A i \in 0..n, j \in 0..m : N[i] # M[j]
      /\ R \in [0 .. n + m + 1 -> Memory] /\ R[n + m + 1] = N[0]
      /\ \A i \in 0..n : R[i] = N[i]
      /\ \A i \in 1..m : R[n + i] = M[i]
  BY DEF Joined
<1>1. /\ n \in Nat /\ N[n + 1] = N[0]
      /\ \A i \in 0..n + 1 : N[i] \in Memory
      /\ \A i, j \in 0..n : N[i] = N[j] => i = j
      /\ \A i, j \in 0..n : N[i + 1] = N[j + 1] => i = j
      /\ \A i \in 0..n : i + 1 \in 0..n + 1 /\ Edge(q, N[i], N[i + 1])
  BY LoopFacts
<1>2. /\ m \in Nat /\ M[m + 1] = M[0]
      /\ \A i \in 0..m + 1 : M[i] \in Memory
      /\ \A i, j \in 0..m : M[i] = M[j] => i = j
      /\ \A i, j \in 0..m : M[i + 1] = M[j + 1] => i = j
      /\ \A i \in 0..m : i + 1 \in 0..m + 1 /\ Edge(q, M[i], M[i + 1])
  BY LoopFacts
<1>3. /\ n \in Nat /\ m \in Nat /\ n \in 0..n /\ 0 \in 0..n /\ 0 \in 0..m /\ m \in 0..m
      /\ n \in 0..n + 1 /\ 1 \in 0..m + 1
  BY <1>0, <1>1, <1>2
<1>4. \A i \in 0..n, j \in 0..m : /\ N[i] # M[j] /\ N[i + 1] # M[j]
                                  /\ N[i] # M[j + 1] /\ N[i + 1] # M[j + 1]
  <2>1. ASSUME NEW i \in 0..n PROVE \E k \in 0..n : N[i + 1] = N[k]
    BY <1>0, <1>1, <1>3
  <2>2. ASSUME NEW j \in 0..m PROVE \E k \in 0..m : M[j + 1] = M[k]
    BY <1>0, <1>2, <1>3
  <2> QED
    BY <1>0, <2>1, <2>2
<1>5. PICK h \in Memory, y \in Memory, l \in Memory, f \in Memory, z \in Memory :
          h = N[0] /\ y = M[0] /\ l = N[n] /\ f = M[1] /\ z = M[m]
  BY <1>0, <1>1, <1>2, <1>3
<1>6. /\ Edge(q, l, h) /\ Edge(q, y, f) /\ Edge(q, z, y)
      /\ h # y /\ l # y /\ l # z /\ f # h /\ z # h
  <2>1. f = M[0 + 1] /\ h = N[n + 1] /\ y = M[m + 1]
    BY <1>0, <1>1, <1>2, <1>5
  <2> QED
    BY <1>0, <1>1, <1>2, <1>3, <1>4, <1>5, <2>1
<1>7. /\ p \in Links /\ Keeps(q, p, {l, y, z}, {h, f, y})
      /\ m = 0 => Edge(p, l, h)
      /\ m # 0 => Edge(p, l, f) /\ Edge(p, z, h)
  <2>1. CASE m = 0
    <3>1. y = f /\ y = z /\ p = ngx_queue_add(q, h, y)
      BY <1>0, <1>2, <1>5, <2>1
    <3>2. p \in Links /\ Edge(p, l, h) /\ Keeps(q, p, {l, y}, {h, y})
      BY <1>6, <3>1, AddNoEdges
    <3> QED
      BY <2>1, <3>1, <3>2 DEF Keeps
  <2>2. CASE m # 0
    <3>1. 1 \in 0..m /\ p = ngx_queue_add(q, h, y)
      BY <1>0, <1>3, <1>5, <2>2
    <3>2. f # y /\ z # y
      BY <1>0, <1>2, <1>3, <1>5, <2>2, <3>1
    <3>3. /\ p \in Links /\ Edge(p, l, f) /\ Edge(p, z, h)
          /\ Keeps(q, p, {l, y, z}, {h, f, y})
      BY <1>6, <3>1, <3>2, AddEdges
    <3> QED
      BY <2>2, <3>3
  <2> QED
    BY <2>1, <2>2
<1>8. ASSUME NEW i \in 0 .. n - 1 PROVE Edge(p, N[i], N[i + 1])
  <2>1. i \in 0..n /\ i + 1 \in 0..n /\ i # n /\ i + 1 # 0
    BY <1>0, <1>3
  <2>2. Edge(q, N[i], N[i + 1]) /\ N[i] \in Memory /\ N[i + 1] \in Memory
    BY <1>0, <1>1, <2>1
  <2>3. N[i] \notin {l, y, z} /\ N[i + 1] \notin {h, f, y}
    <3>1. f = M[0 + 1]
      BY <1>0, <1>5
    <3> QED
      BY <1>0, <1>1, <1>3, <1>4, <1>5, <2>1, <3>1
  <2> QED
    BY <1>7, <2>2, <2>3 DEF Keeps
<1>9. ASSUME NEW j \in 1 .. m - 1 PROVE Edge(p, M[j], M[j + 1])
  <2>1. j \in 0..m /\ j + 1 \in 0..m /\ j # m /\ j # 0 /\ j + 1 # 1 /\ j + 1 # 0 /\ 1 \in 0..m
    BY <1>0, <1>3
  <2>2. Edge(q, M[j], M[j + 1]) /\ M[j] \in Memory /\ M[j + 1] \in Memory
    BY <1>0, <1>2, <2>1
  <2>3. M[j] \notin {l, y, z} /\ M[j + 1] \notin {h, f, y}
    BY <1>0, <1>2, <1>3, <1>4, <1>5, <2>1
  <2> QED
    BY <1>7, <2>2, <2>3 DEF Keeps
<1>10. ASSUME NEW i \in 0 .. n + m, NEW j \in 0 .. n + m, R[i] = R[j] PROVE i = j
  <2>1. /\ \/ i \in 0..n /\ R[i] = N[i]
           \/ i - n \in 1..m /\ i - n \in 0..m /\ i > n /\ R[n + (i - n)] = M[i - n]
        /\ \/ j \in 0..n /\ R[j] = N[j]
           \/ j - n \in 1..m /\ j - n \in 0..m /\ j > n /\ R[n + (j - n)] = M[j - n]
    BY <1>0, <1>3
  <2>2. n + (i - n) = i /\ n + (j - n) = j
    BY <1>0, <1>3
  <2>3. /\ \A a, b \in 0..n : N[a] = N[b] => a = b
        /\ \A a, b \in 0..m : M[a] = M[b] => a = b
    BY <1>0, <1>1, <1>2
  <2> QED
    BY <1>0, <1>3, <1>4, <1>10, <2>1, <2>2, <2>3
<1>11. ASSUME NEW i \in 0 .. n + m PROVE Edge(p, R[i], R[i + 1])
  <2>1. CASE i < n
    <3>1. i \in 0 .. n - 1 /\ i \in 0..n /\ i + 1 \in 0..n
      BY <1>0, <1>3, <2>1
    <3> QED
      BY <1>0, <1>8, <3>1
  <2>2. CASE i = n /\ m = 0
    <3>1. i + 1 = n + m + 1
      BY <1>0, <1>3, <2>2
    <3> QED
      BY <1>0, <1>3, <1>5, <1>7, <2>2, <3>1
  <2>3. CASE i = n /\ m # 0
    <3>1. 1 \in 1..m /\ i + 1 = n + 1
      BY <1>0, <1>3, <2>3
    <3> QED
      BY <1>0, <1>3, <1>5, <1>7, <2>3, <3>1
  <2>4. CASE i > n /\ i = n + m
    <3>1. m \in 1..m /\ i + 1 = n + m + 1 /\ m # 0
      BY <1>0, <1>3, <2>4
    <3> QED
      BY <1>0, <1>3, <1>5, <1>7, <2>4, <3>1
  <2>5. CASE i > n /\ i < n + m
    <3>1. PICK j \in 1 .. m - 1 : i = n + j /\ i + 1 = n + (j + 1) /\ j \in 1..m /\ j + 1 \in 1..m
      <4>1. /\ i - n \in 1 .. m - 1 /\ i = n + (i - n) /\ i + 1 = n + ((i - n) + 1)
            /\ i - n \in 1..m /\ (i - n) + 1 \in 1..m
        BY <1>0, <1>3, <2>5
      <4> QED
        BY <4>1
    <3> QED
      BY <1>0, <1>9, <3>1
  <2> QED
    BY <1>0, <1>3, <2>1, <2>2, <2>3, <2>4, <2>5
<1>12. n + m \in Nat /\ (n + m) + 1 = n + m + 1 /\ R[n + m + 1] = R[0]
  BY <1>0, <1>3
<1>13. Loop(p, n + m, R)
  BY <1>0, <1>10, <1>11, <1>12 DEF Loop
<1> QED
  BY <1>0, <1>5, <1>7, <1>13

-----------------------------------------------------------------------------
(* Chains: a loop told by its head and the sequence of its items.           *)

Nodes(h, s) == [i \in 0 .. Len(s) + 1 |-> IF i \in 1..Len(s) THEN s[i] ELSE h]
Chain(q, h, s) == s \in Seq(Items) /\ Loop(q, Len(s), Nodes(h, s))
Cells(h, s) == {h} \cup {s[i] : i \in 1..Len(s)}

LEMMA NodesFacts ==
    ASSUME NEW h \in Heads, NEW s \in Seq(Items)
    PROVE  /\ Len(s) \in Nat /\ Nodes(h, s) \in [0 .. Len(s) + 1 -> Memory]
           /\ Nodes(h, s)[0] = h /\ Nodes(h, s)[Len(s) + 1] = h
           /\ \A i \in 1..Len(s) : Nodes(h, s)[i] = s[i] /\ s[i] \in Items
           /\ \A i \in 0 .. Len(s) + 1 : Nodes(h, s)[i] \in Cells(h, s)
<1>1. Len(s) \in Nat /\ \A i \in 1..Len(s) : s[i] \in Items
  BY LenProperties, ElementOfSeq
<1> HIDE DEF Nodes
<1>2. /\ DOMAIN Nodes(h, s) = 0 .. Len(s) + 1
      /\ \A i \in 0 .. Len(s) + 1 : Nodes(h, s)[i] = IF i \in 1..Len(s) THEN s[i] ELSE h
      /\ Nodes(h, s) = [i \in 0 .. Len(s) + 1 |-> Nodes(h, s)[i]]
  BY DEF Nodes
<1>3. \A i \in 0 .. Len(s) + 1 : Nodes(h, s)[i] \in Memory /\ Nodes(h, s)[i] \in Cells(h, s)
  BY <1>1, <1>2 DEF Memory, Cells
<1>4. Nodes(h, s) \in [0 .. Len(s) + 1 -> Memory]
  BY <1>2, <1>3
<1>5. /\ 0 \in 0 .. Len(s) + 1 /\ Len(s) + 1 \in 0 .. Len(s) + 1
      /\ 0 \notin 1..Len(s) /\ Len(s) + 1 \notin 1..Len(s)
      /\ \A i \in 1..Len(s) : i \in 0 .. Len(s) + 1
  BY <1>1
<1> QED
  BY <1>1, <1>2, <1>3, <1>4, <1>5

LEMMA ChainItems ==
    ASSUME NEW q, NEW h \in Heads, NEW s, Chain(q, h, s)
    PROVE  /\ Len(s) \in Nat /\ s \in Seq(Items)
           /\ \A i \in 1..Len(s) : s[i] \in Items /\ s[i] # h
           /\ \A i, j \in 1..Len(s) : s[i] = s[j] => i = j
<1> DEFINE N == Nodes(h, s)
<1>1. s \in Seq(Items) /\ Loop(q, Len(s), N)
  BY DEF Chain
<1>2. /\ Len(s) \in Nat
      /\ \A i \in 1..Len(s) : N[i] = s[i] /\ s[i] \in Items
  BY <1>1, NodesFacts
<1> HIDE DEF N
<1>3. \A i, j \in 0..Len(s) : N[i] = N[j] => i = j
  BY <1>1, LoopFacts
<1>4. \A i \in 1..Len(s) : i \in 0..Len(s)
  BY <1>2
<1>5. \A i, j \in 1..Len(s) : s[i] = s[j] => i = j
  BY <1>2, <1>3, <1>4
<1>6. \A i \in 1..Len(s) : s[i] # h
  BY <1>2, QueueAssumption
<1> QED
  BY <1>1, <1>2, <1>5, <1>6

\* The links of a chain.
LEMMA ChainEdges ==
    ASSUME NEW q, NEW h \in Heads, NEW s, Chain(q, h, s)
    PROVE  \A i \in 0..Len(s) : /\ Edge(q, Nodes(h, s)[i], Nodes(h, s)[i + 1])
                                /\ Nodes(h, s)[i] \in Memory /\ Nodes(h, s)[i + 1] \in Memory
<1> DEFINE N == Nodes(h, s)
<1>1. s \in Seq(Items) /\ Loop(q, Len(s), N)
  BY DEF Chain
<1> HIDE DEF N
<1>2. /\ \A i \in 0..Len(s) : i + 1 \in 0 .. Len(s) + 1 /\ Edge(q, N[i], N[i + 1])
      /\ \A i \in 0 .. Len(s) + 1 : N[i] \in Memory
      /\ Len(s) \in Nat
  BY <1>1, LoopFacts
<1>3. \A i \in 0..Len(s) : i \in 0 .. Len(s) + 1
  BY <1>2
<1> QED
  BY <1>2, <1>3 DEF N

LEMMA ChainStays ==
    ASSUME NEW q, NEW p, NEW h \in Heads, NEW s, Chain(q, h, s), NEW C, Keeps(q, p, C, C),
           C \cap Cells(h, s) = {}
    PROVE  Chain(p, h, s)
<1>1. s \in Seq(Items) /\ Loop(q, Len(s), Nodes(h, s))
  BY DEF Chain
<1>2. Len(s) \in Nat /\ \A i \in 0 .. Len(s) + 1 : Nodes(h, s)[i] \in Cells(h, s)
  BY <1>1, NodesFacts
<1>3. \A i \in 0..Len(s) : i \in 0 .. Len(s) + 1 /\ i + 1 \in 0 .. Len(s) + 1
  BY <1>2
<1>4. \A i \in 0..Len(s) : Nodes(h, s)[i] \notin C /\ Nodes(h, s)[i + 1] \notin C
  BY <1>2, <1>3
<1>5. Loop(p, Len(s), Nodes(h, s))
  BY <1>1, <1>4, LoopStays
<1> QED
  BY <1>1, <1>5 DEF Chain

LEMMA ChainInit ==
    ASSUME NEW q \in Links, NEW h \in Heads, NEW p, p = ngx_queue_init(q, h)
    PROVE  p \in Links /\ Chain(p, h, <<>>) /\ Keeps(q, p, {h}, {h})
<1>1. p \in Links /\ Edge(p, h, h) /\ Keeps(q, p, {h}, {h})
  BY InitEdges DEF Memory
<1> DEFINE N == Nodes(h, <<>>)
<1>2. <<>> \in Seq(Items) /\ Len(<<>>) = 0
  BY EmptySeq
<1>3. N \in [0..1 -> Memory] /\ N[0] = h /\ N[1] = h
  <2> HIDE DEF N
  <2>1. PICK e \in Seq(Items) : e = <<>> /\ Len(e) = 0
    BY <1>2
  <2>2. Nodes(h, e) \in [0 .. Len(e) + 1 -> Memory] /\ Nodes(h, e)[0] = h /\ Nodes(h, e)[Len(e) + 1] = h
    BY NodesFacts
  <2>3. Nodes(h, e) = N /\ Len(e) + 1 = 1
    BY <2>1 DEF N
  <2> QED
    BY <2>2, <2>3
<1> HIDE DEF N
<1>4. Loop(p, 0, N)
  BY <1>1, <1>3 DEF Loop
<1> QED
  BY <1>1, <1>2, <1>4 DEF Chain, N

\* t is s with x behind the first k.
Grown(s, k, x, t) == /\ t \in Seq(Items) /\ Len(t) = Len(s) + 1
                     /\ \A i \in 1..k : t[i] = s[i]
                     /\ t[k + 1] = x
                     /\ \A i \in k + 2 .. Len(s) + 1 : t[i] = s[i - 1]

LEMMA ChainInsert ==
    ASSUME NEW q, NEW p, NEW h \in Heads, NEW s, Chain(q, h, s), NEW k \in 0..Len(s),
           NEW x \in Items, \A i \in 1..Len(s) : s[i] # x,
           Inserted(q, p, Nodes(h, s)[k], x, Nodes(h, s)[k + 1]),
           NEW t, Grown(s, k, x, t)
    PROVE  p \in Links /\ Chain(p, h, t) /\ Keeps(q, p, Cells(h, s) \cup {x}, Cells(h, s) \cup {x})
<1> DEFINE N == Nodes(h, s)
           M == Nodes(h, t)
           n == Len(s)
<1>1. s \in Seq(Items) /\ Loop(q, n, N) /\ t \in Seq(Items) /\ Len(t) = n + 1
  BY DEF Chain, Grown
<1>2. /\ n \in Nat /\ N[0] = h /\ N[n + 1] = h
      /\ \A i \in 1..n : N[i] = s[i] /\ s[i] \in Items
      /\ \A i \in 0 .. n + 1 : N[i] \in Cells(h, s)
  BY <1>1, NodesFacts
<1>3. /\ M \in [0 .. n + 2 -> Memory] /\ M[0] = h /\ M[n + 2] = h
      /\ \A i \in 1 .. n + 1 : M[i] = t[i]
  <2>1. (n + 1) + 1 = n + 2
    BY <1>2
  <2> QED
    BY <1>1, <2>1, NodesFacts
<1>4. \A i \in 0..n : N[i] # x
  <2>1. \A i \in 0..n : i = 0 \/ i \in 1..n
    BY <1>2
  <2> QED
    BY <1>2, <2>1, QueueAssumption
<1>5. /\ \A i \in 1..k : t[i] = s[i]
      /\ t[k + 1] = x
      /\ \A i \in k + 2 .. n + 1 : t[i] = s[i - 1]
  BY DEF Grown
<1> HIDE DEF N, M
<1>6. k \in Nat /\ k <= n
  BY <1>2
<1> HIDE DEF n
<1>7. /\ \A i \in 0..k : M[i] = N[i]
      /\ M[k + 1] = x
      /\ \A i \in k + 2 .. n + 2 : M[i] = N[i - 1]
  <2>1. ASSUME NEW i \in 0..k PROVE M[i] = N[i]
    <3>1. i = 0 \/ (i \in 1..k /\ i \in 1..n /\ i \in 1 .. n + 1)
      BY <1>2, <1>6
    <3> QED
      BY <1>2, <1>3, <1>5, <3>1
  <2>2. M[k + 1] = x
    <3>1. k + 1 \in 1 .. n + 1
      BY <1>2, <1>6
    <3> QED
      BY <1>3, <1>5, <3>1
  <2>3. ASSUME NEW i \in k + 2 .. n + 2 PROVE M[i] = N[i - 1]
    <3>1. \/ i = n + 2 /\ i - 1 = n + 1
          \/ i \in k + 2 .. n + 1 /\ i \in 1 .. n + 1 /\ i - 1 \in 1..n
      BY <1>2, <1>6
    <3> QED
      BY <1>2, <1>3, <1>5, <3>1
  <2> QED
    BY <2>1, <2>2, <2>3
<1>8. Inserted(q, p, N[k], x, N[k + 1]) /\ k \in 0..n /\ x \in Memory
  BY DEF N, n, Memory
<1>9. Loop(p, n + 1, M)
  <2>1. With(N, n, k, x, M)
    BY <1>3, <1>4, <1>7, <1>8 DEF With
  <2> QED
    BY <1>1, <1>8, <2>1, LoopInsert
<1>10. /\ p \in Links /\ Keeps(q, p, {N[k], x}, {x, N[k + 1]})
       /\ N[k] \in Cells(h, s) /\ N[k + 1] \in Cells(h, s)
  <2>1. k \in 0 .. n + 1 /\ k + 1 \in 0 .. n + 1
    BY <1>2, <1>6
  <2> QED
    BY <1>2, <1>8, <2>1 DEF Inserted
<1>11. Keeps(q, p, Cells(h, s) \cup {x}, Cells(h, s) \cup {x})
  BY <1>10 DEF Keeps
<1> QED
  BY <1>1, <1>9, <1>10, <1>11 DEF Chain, M

\* t is s without the k-th.
Shrunk(s, k, t) == /\ t \in Seq(Items) /\ Len(t) = Len(s) - 1
                   /\ \A i \in 1 .. k - 1 : t[i] = s[i]
                   /\ \A i \in k .. Len(s) - 1 : t[i] = s[i + 1]

LEMMA ChainRemove ==
    ASSUME NEW q \in Links, NEW p, NEW h \in Heads, NEW s, Chain(q, h, s), NEW k \in 1..Len(s),
           p = ngx_queue_remove(q, s[k]), NEW t, Shrunk(s, k, t)
    PROVE  p \in Links /\ Chain(p, h, t) /\ Keeps(q, p, Cells(h, s), Cells(h, s))
<1> DEFINE N == Nodes(h, s)
           M == Nodes(h, t)
           n == Len(s)
<1>1. s \in Seq(Items) /\ Loop(q, n, N) /\ t \in Seq(Items) /\ Len(t) = n - 1
  BY DEF Chain, Shrunk
<1>2. /\ n \in Nat /\ N[0] = h /\ N[n + 1] = h
      /\ \A i \in 1..n : N[i] = s[i] /\ s[i] \in Items
      /\ \A i \in 0 .. n + 1 : N[i] \in Cells(h, s)
  BY <1>1, NodesFacts
<1>3. /\ M \in [0..n -> Memory] /\ M[0] = h /\ M[n] = h
      /\ \A i \in 1 .. n - 1 : M[i] = t[i]
  <2>1. (n - 1) + 1 = n
    BY <1>2
  <2> QED
    BY <1>1, <2>1, NodesFacts
<1>4. /\ \A i \in 1 .. k - 1 : t[i] = s[i]
      /\ \A i \in k .. n - 1 : t[i] = s[i + 1]
  BY DEF Shrunk
<1> HIDE DEF N, M
<1>5. k \in Nat /\ k <= n /\ k >= 1
  BY <1>2
<1> HIDE DEF n
<1>6. \A i \in 0 .. k - 1 : M[i] = N[i]
  <2>1. ASSUME NEW i \in 0 .. k - 1 PROVE M[i] = N[i]
    <3>1. i = 0 \/ (i \in 1 .. k - 1 /\ i \in 1..n /\ i \in 1 .. n - 1)
      BY <1>2, <1>5
    <3> QED
      BY <1>2, <1>3, <1>4, <3>1
  <2> QED
    BY <2>1
<1>7. \A i \in k..n : M[i] = N[i + 1]
  <2>1. ASSUME NEW i \in k..n PROVE M[i] = N[i + 1]
    <3>1. i = n \/ (i \in k .. n - 1 /\ i \in 1 .. n - 1 /\ i + 1 \in 1..n)
      BY <1>2, <1>5
    <3> QED
      BY <1>2, <1>3, <1>4, <3>1
  <2> QED
    BY <2>1
<1>8. p = ngx_queue_remove(q, N[k]) /\ k \in 1..n
  BY <1>2 DEF n
<1>9. /\ Loop(p, n - 1, M) /\ p \in Links
      /\ Keeps(q, p, {N[k - 1], N[k]}, {N[k], N[k + 1]})
  <2>1. Without(N, n, k, M)
    BY <1>3, <1>6, <1>7, <1>8 DEF Without
  <2> QED
    BY <1>1, <1>8, <2>1, LoopRemove
<1>10. Keeps(q, p, Cells(h, s), Cells(h, s))
  <2>1. k - 1 \in 0 .. n + 1 /\ k \in 0 .. n + 1 /\ k + 1 \in 0 .. n + 1
    BY <1>2, <1>5
  <2> QED
    BY <1>2, <1>9, <2>1 DEF Keeps
<1> QED
  BY <1>1, <1>9, <1>10 DEF Chain, M

\* t and r are s before its k-th and from there on.
CutAt(s, k, t, r) ==
    /\ t \in Seq(Items) /\ Len(t) = k - 1 /\ \A i \in 1 .. k - 1 : t[i] = s[i]
    /\ r \in Seq(Items) /\ Len(r) = Len(s) - k + 1
    /\ \A i \in 1 .. Len(s) - k + 1 : r[i] = s[k + i - 1]

LEMMA ChainSplit ==
    ASSUME NEW q \in Links, NEW p, NEW h \in Heads, NEW s, Chain(q, h, s), NEW k \in 1..Len(s),
           NEW y \in Heads, y # h, p = ngx_queue_split(q, h, s[k], y),
           NEW t, NEW r, CutAt(s, k, t, r)
    PROVE  /\ p \in Links /\ Chain(p, h, t) /\ Chain(p, y, r)
           /\ Keeps(q, p, Cells(h, s) \cup {y}, Cells(h, s) \cup {y})
<1> DEFINE N == Nodes(h, s)
           L == Nodes(h, t)
           M == Nodes(y, r)
           n == Len(s)
<1>1. /\ s \in Seq(Items) /\ Loop(q, n, N) /\ t \in Seq(Items) /\ Len(t) = k - 1
      /\ r \in Seq(Items) /\ Len(r) = n - k + 1
  BY DEF Chain, CutAt
<1>2. /\ n \in Nat /\ N[0] = h /\ N[n + 1] = h
      /\ \A i \in 1..n : N[i] = s[i] /\ s[i] \in Items
      /\ \A i \in 0 .. n + 1 : N[i] \in Cells(h, s)
  BY <1>1, NodesFacts
<1>3. /\ L \in [0..k -> Memory] /\ L[0] = h /\ L[k] = h
      /\ \A i \in 1 .. k - 1 : L[i] = t[i]
  <2> HIDE DEF L
  <2>1. Len(t) + 1 = k /\ Len(t) = k - 1
    BY <1>1, <1>2
  <2>2. /\ L \in [0 .. Len(t) + 1 -> Memory] /\ L[0] = h /\ L[Len(t) + 1] = h
        /\ \A i \in 1..Len(t) : L[i] = t[i]
    BY <1>1, NodesFacts DEF L
  <2> QED
    BY <2>1, <2>2
<1>4. /\ M \in [0 .. n - k + 2 -> Memory] /\ M[0] = y /\ M[n - k + 2] = y
      /\ \A i \in 1 .. n - k + 1 : M[i] = r[i]
  <2>1. (n - k + 1) + 1 = n - k + 2
    BY <1>2
  <2> QED
    BY <1>1, <2>1, NodesFacts
<1>5. /\ \A i \in 1 .. k - 1 : t[i] = s[i]
      /\ \A i \in 1 .. n - k + 1 : r[i] = s[k + i - 1]
  BY DEF CutAt
<1>6. \A i \in 0..n : N[i] # y
  <2>1. \A i \in 0..n : i = 0 \/ i \in 1..n
    BY <1>2
  <2> QED
    BY <1>2, <2>1, QueueAssumption
<1> HIDE DEF N, M, L
<1>7. k \in 1..n
  OBVIOUS
<1> HIDE DEF n
<1>8. Parts(N, n, k, y, L, M)
  <2>1. ASSUME NEW i \in 0 .. k - 1 PROVE L[i] = N[i]
    <3>1. i = 0 \/ (i \in 1 .. k - 1 /\ i \in 1..n)
      BY <1>2, <1>7
    <3> QED
      BY <1>2, <1>3, <1>5, <3>1
  <2>2. ASSUME NEW i \in 1 .. n - k + 1 PROVE M[i] = N[k + i - 1]
    <3>1. k + i - 1 \in 1..n
      BY <1>2, <1>7
    <3> QED
      BY <1>2, <1>4, <1>5, <3>1
  <2>3. y \in Memory /\ L[k] = N[0]
    BY <1>2, <1>3 DEF Memory
  <2> QED
    BY <1>3, <1>4, <1>6, <1>7, <2>1, <2>2, <2>3 DEF Parts
<1>9. p = ngx_queue_split(q, N[0], N[k], y)
  BY <1>2, <1>7
<1>10. /\ Loop(p, k - 1, L) /\ Loop(p, n - k + 1, M) /\ p \in Links
       /\ Keeps(q, p, {N[k - 1], N[n], y}, {N[0], y, N[k]})
  BY <1>1, <1>8, <1>9, LoopSplit
<1>11. Keeps(q, p, Cells(h, s) \cup {y}, Cells(h, s) \cup {y})
  <2>1. k - 1 \in 0 .. n + 1 /\ n \in 0 .. n + 1 /\ 0 \in 0 .. n + 1 /\ k \in 0 .. n + 1
    BY <1>2, <1>7
  <2> QED
    BY <1>2, <1>10, <2>1 DEF Keeps
<1> QED
  BY <1>1, <1>10, <1>11 DEF Chain, L, M

\* t has the items of r behind those of s.
Concatenated(s, r, t) == /\ t \in Seq(Items) /\ Len(t) = Len(s) + Len(r)
                         /\ \A i \in 1..Len(s) : t[i] = s[i]
                         /\ \A i \in 1..Len(r) : t[Len(s) + i] = r[i]

LEMMA ChainJoin ==
    ASSUME NEW q \in Links, NEW p, NEW h \in Heads, NEW s, Chain(q, h, s),
           NEW y \in Heads, NEW r, Chain(q, y, r), Cells(h, s) \cap Cells(y, r) = {},
           p = ngx_queue_add(q, h, y), NEW t, Concatenated(s, r, t)
    PROVE  /\ p \in Links /\ Chain(p, h, t)
           /\ Keeps(q, p, Cells(h, s) \cup Cells(y, r), Cells(h, s) \cup Cells(y, r))
<1> DEFINE N == Nodes(h, s)
           M == Nodes(y, r)
           R == Nodes(h, t)
           n == Len(s)
           m == Len(r)
<1>1. /\ s \in Seq(Items) /\ Loop(q, n, N) /\ r \in Seq(Items) /\ Loop(q, m, M)
      /\ t \in Seq(Items) /\ Len(t) = n + m
  BY DEF Chain, Concatenated
<1>2. /\ n \in Nat /\ N[0] = h /\ N[n + 1] = h
      /\ \A i \in 1..n : N[i] = s[i]
      /\ \A i \in 0 .. n + 1 : N[i] \in Cells(h, s)
  BY <1>1, NodesFacts
<1>3. /\ m \in Nat /\ M[0] = y /\ M[m + 1] = y
      /\ \A i \in 1..m : M[i] = r[i]
      /\ \A i \in 0 .. m + 1 : M[i] \in Cells(y, r)
  BY <1>1, NodesFacts
<1>4. /\ R \in [0 .. n + m + 1 -> Memory] /\ R[0] = h /\ R[n + m + 1] = h
      /\ \A i \in 1 .. n + m : R[i] = t[i]
  BY <1>1, NodesFacts
<1>5. /\ \A i \in 1..n : t[i] = s[i]
      /\ \A i \in 1..m : t[n + i] = r[i]
  BY DEF Concatenated
<1> HIDE DEF N, M, R, n, m
<1>6. Joined(N, n, M, m, R)
  <2>1. \A i \in 0..n, j \in 0..m : N[i] # M[j]
    <3>1. \A i \in 0..n, j \in 0..m : i \in 0 .. n + 1 /\ j \in 0 .. m + 1
      BY <1>2, <1>3
    <3> QED
      BY <1>2, <1>3, <3>1
  <2>2. ASSUME NEW i \in 0..n PROVE R[i] = N[i]
    <3>1. i = 0 \/ (i \in 1..n /\ i \in 1 .. n + m)
      BY <1>2, <1>3
    <3> QED
      BY <1>2, <1>4, <1>5, <3>1
  <2>3. ASSUME NEW i \in 1..m PROVE R[n + i] = M[i]
    <3>1. n + i \in 1 .. n + m
      BY <1>2, <1>3
    <3> QED
      BY <1>3, <1>4, <1>5, <3>1
  <2> QED
    BY <1>2, <1>4, <2>1, <2>2, <2>3 DEF Joined
<1>7. p = ngx_queue_add(q, N[0], M[0])
  BY <1>2, <1>3
<1>8. /\ Loop(p, n + m, R) /\ p \in Links
      /\ Keeps(q, p, {N[n], M[0], M[m]}, {N[0], M[1], M[0]})
  BY <1>1, <1>6, <1>7, LoopJoin
<1>9. Keeps(q, p, Cells(h, s) \cup Cells(y, r), Cells(h, s) \cup Cells(y, r))
  <2>1. n \in 0 .. n + 1 /\ 0 \in 0 .. n + 1 /\ 0 \in 0 .. m + 1 /\ m \in 0 .. m + 1 /\ 1 \in 0 .. m + 1
    BY <1>2, <1>3
  <2> QED
    BY <1>2, <1>3, <1>8, <2>1 DEF Keeps
<1> QED
  BY <1>1, <1>8, <1>9 DEF Chain, R

-----------------------------------------------------------------------------
(* Walks: the recursive functions of the model exist, and go round a chain. *)

Iterates(g, n, x, step) == /\ DOMAIN g = 0..n /\ g = [k \in 0..n |-> g[k]] /\ g[0] = x
                           /\ \A k \in 1..n : g[k] = step[g[k - 1]]

LEMMA IterationExists ==
    ASSUME NEW n \in Nat, NEW x, NEW step
    PROVE  \E g : Iterates(g, n, x, step)
<1> DEFINE S == {m \in Nat : \E g : Iterates(g, m, x, step)}
<1>1. 0 \in S
  <2> DEFINE g == [k \in 0..0 |-> x]
  <2>1. Iterates(g, 0, x, step)
    BY DEF Iterates
  <2> QED
    BY <2>1
<1>2. ASSUME NEW m \in Nat, m \in S PROVE m + 1 \in S
  <2>1. PICK f : Iterates(f, m, x, step)
    BY <1>2
  <2>2. DOMAIN f = 0..m /\ f[0] = x /\ \A k \in 1..m : f[k] = step[f[k - 1]]
    BY <2>1 DEF Iterates
  <2> DEFINE g == [k \in 0 .. m + 1 |-> IF k = m + 1 THEN step[f[m]] ELSE f[k]]
  <2>3. /\ DOMAIN g = 0 .. m + 1 /\ g = [k \in 0 .. m + 1 |-> g[k]]
        /\ \A k \in 0..m : g[k] = f[k]
        /\ g[m + 1] = step[f[m]]
    OBVIOUS
  <2> HIDE DEF g
  <2>4. g[0] = x
    BY SMTT(40), <2>2, <2>3
  <2>5. ASSUME NEW k \in 1 .. m + 1 PROVE g[k] = step[g[k - 1]]
    <3>1. CASE k = m + 1
      <4>1. k - 1 = m /\ m \in 0..m
        BY <3>1
      <4> QED
        BY <2>3, <3>1, <4>1
    <3>2. CASE k # m + 1
      <4>1. k \in 1..m /\ k \in 0..m /\ k - 1 \in 0..m
        BY <3>2
      <4> QED
        BY <2>2, <2>3, <4>1
    <3> QED
      BY <3>1, <3>2
  <2>6. Iterates(g, m + 1, x, step)
    BY <2>3, <2>4, <2>5 DEF Iterates
  <2> QED
    BY <2>6
<1> HIDE DEF S
<1>3. \A m \in Nat : m \in S
  BY <1>1, <1>2, EveryNumber
<1> QED
  BY <1>3 DEF S

LEMMA AlongFacts ==
    ASSUME NEW link, NEW x, NEW n \in Nat
    PROVE  /\ Along(link, x, n)[0] = x
           /\ \A k \in 1..n : Along(link, x, n)[k] = link[Along(link, x, n)[k - 1]]
<1> DEFINE Body(f) == [k \in 0..n |-> IF k = 0 THEN x ELSE link[f[k - 1]]]
<1>1. Along(link, x, n) = CHOOSE f : f = Body(f)
  BY DEF Along
<1>2. PICK g : Iterates(g, n, x, link)
  BY IterationExists
<1>3. g = Body(g)
  <2>1. /\ g = [k \in 0..n |-> g[k]] /\ g[0] = x
        /\ \A k \in 1..n : g[k] = link[g[k - 1]]
    BY <1>2 DEF Iterates
  <2>2. \A k \in 0..n : g[k] = IF k = 0 THEN x ELSE link[g[k - 1]]
    <3>1. \A k \in 0..n : k = 0 \/ k \in 1..n
      OBVIOUS
    <3> QED
      BY <2>1, <3>1
  <2> QED
    BY <2>1, <2>2
<1>4. Along(link, x, n) = Body(Along(link, x, n))
  <2> HIDE DEF Body
  <2> QED
    BY <1>1, <1>3
<1>5. PICK at : at = Along(link, x, n)
  OBVIOUS
<1>6. at = [k \in 0..n |-> IF k = 0 THEN x ELSE link[at[k - 1]]]
  BY <1>4, <1>5
<1>7. at[0] = x /\ \A k \in 1..n : at[k] = link[at[k - 1]]
  <2>1. 0 \in 0..n /\ \A k \in 1..n : k \in 0..n /\ k # 0
    OBVIOUS
  <2>2. \A k \in 0..n : at[k] = IF k = 0 THEN x ELSE link[at[k - 1]]
    BY <1>6
  <2> QED
    BY <2>1, <2>2
<1> QED
  BY <1>5, <1>7

\* Forwards from the head, at most once round.
LEMMA WalkForth ==
    ASSUME NEW q, NEW n, NEW N, Loop(q, n, N), NEW m \in Nat
    PROVE  \A k \in 0 .. n + 1 : k <= m => Along(q.next, N[0], m)[k] = N[k]
<1> DEFINE at == Along(q.next, N[0], m)
           S == {k \in Nat : k <= m /\ k <= n + 1 => at[k] = N[k]}
<1>1. at[0] = N[0] /\ \A k \in 1..m : at[k] = q.next[at[k - 1]]
  BY AlongFacts
<1>2. n \in Nat /\ \A i \in 0..n : q.next[N[i]] = N[i + 1]
  BY DEF Loop, Edge
<1> HIDE DEF at
<1>3. 0 \in S
  BY <1>1
<1>4. ASSUME NEW k \in Nat, k \in S PROVE k + 1 \in S
  <2> SUFFICES ASSUME k + 1 <= m, k + 1 <= n + 1 PROVE at[k + 1] = N[k + 1]
    OBVIOUS
  <2>1. k + 1 \in 1..m /\ (k + 1) - 1 = k /\ k \in 0..n /\ k <= m /\ k <= n + 1
    BY <1>2
  <2>2. at[k + 1] = q.next[at[k]]
    BY <1>1, <2>1
  <2> QED
    BY <1>2, <1>4, <2>1, <2>2
<1> HIDE DEF S
<1>5. \A k \in Nat : k \in S
  BY <1>3, <1>4, EveryNumber
<1> QED
  BY <1>2, <1>5 DEF S, at

\* Backwards from any cell to the head.
LEMMA WalkBack ==
    ASSUME NEW q, NEW n, NEW N, Loop(q, n, N), NEW j \in 0 .. n + 1, NEW m \in Nat
    PROVE  \A k \in 0..j : k <= m => Along(q.prev, N[j], m)[k] = N[j - k]
<1> DEFINE at == Along(q.prev, N[j], m)
           S == {k \in Nat : k <= m /\ k <= j => at[k] = N[j - k]}
<1>1. at[0] = N[j] /\ \A k \in 1..m : at[k] = q.prev[at[k - 1]]
  BY AlongFacts
<1>2. n \in Nat /\ \A i \in 0..n : q.prev[N[i + 1]] = N[i]
  BY DEF Loop, Edge
<1> HIDE DEF at
<1>3. 0 \in S
  <2>1. j - 0 = j
    BY <1>2
  <2> QED
    BY <1>1, <2>1
<1>4. ASSUME NEW k \in Nat, k \in S PROVE k + 1 \in S
  <2> SUFFICES ASSUME k + 1 <= m, k + 1 <= j PROVE at[k + 1] = N[j - (k + 1)]
    OBVIOUS
  <2>1. /\ k + 1 \in 1..m /\ (k + 1) - 1 = k /\ k <= m /\ k <= j
        /\ j - (k + 1) \in 0..n /\ (j - (k + 1)) + 1 = j - k
    BY <1>2
  <2>2. at[k + 1] = q.prev[at[k]] /\ at[k] = N[j - k]
    BY <1>1, <1>4, <2>1
  <2>3. q.prev[N[(j - (k + 1)) + 1]] = N[j - (k + 1)]
    BY <1>2, <2>1
  <2> QED
    BY <2>1, <2>2, <2>3
<1> HIDE DEF S
<1>5. \A k \in Nat : k \in S
  BY <1>3, <1>4, EveryNumber
<1> QED
  BY <1>2, <1>5 DEF S, at

LEMMA MinIs ==
    ASSUME NEW S \in SUBSET Nat, NEW m \in S, \A j \in S : m <= j
    PROVE  Min(S) = m
<1>1. \A i \in S : (\A j \in S : i <= j) => i = m
  OBVIOUS
<1> QED
  BY <1>1 DEF Min

\* Items are finite, so that every list fits into the room.
LEMMA ChainFits ==
    ASSUME NEW q, NEW h \in Heads, NEW s, Chain(q, h, s)
    PROVE  Room \in Nat /\ Len(s) + 1 <= Room /\ Len(s) \in Nat
<1>1. /\ Len(s) \in Nat /\ s \in Seq(Items)
      /\ \A i \in 1..Len(s) : s[i] \in Items
      /\ \A i, j \in 1..Len(s) : s[i] = s[j] => i = j
  BY ChainItems
<1>2. IsFiniteSet(Items) /\ Cardinality(Items) \in Nat
  BY QueueAssumption, FS_CardinalityType
<1> DEFINE f == [i \in 1..Len(s) |-> s[i]]
<1>3. f \in Injection(1..Len(s), Items)
  BY <1>1 DEF Injection, IsInjective
<1>4. Cardinality(1..Len(s)) = Len(s)
  <2>1. PICK m \in Nat : m = Len(s)
    BY <1>1
  <2>2. Cardinality(1..m) = IF 1 > m THEN 0 ELSE m - 1 + 1
    BY FS_Interval
  <2> QED
    BY <2>1, <2>2
<1>5. Cardinality(1..Len(s)) <= Cardinality(Items)
  BY <1>2, <1>3, FS_Injection
<1> QED
  BY <1>1, <1>2, <1>4, <1>5 DEF Room

\* What Ring finds when its walk comes to t[1] to t[n] and back to h.
LEMMA RingIs ==
    ASSUME NEW link, NEW h \in Heads, NEW n \in Nat, Room \in Nat, n + 1 <= Room,
           NEW t, \A k \in 1..n : t[k] \in Items /\ Along(link, h, Room)[k] = t[k],
           Along(link, h, Room)[n + 1] = h
    PROVE  Ring(link, h) = [k \in 1..n |-> t[k]]
<1> DEFINE at == Along(link, h, Room)
           home == {k \in 1..Room : at[k] \in {h, Nowhere}}
<1>1. Ring(link, h) = [k \in 1..(IF home = {} THEN Room ELSE Min(home) - 1) |-> at[k]]
  BY DEF Ring
<1>2. n + 1 \in 1..Room
  OBVIOUS
<1> HIDE DEF at
<1>3. (\A k \in 1..n : t[k] \in Items /\ at[k] = t[k]) /\ at[n + 1] = h
  BY DEF at
<1>4. n + 1 \in home /\ home \in SUBSET Nat
  BY <1>2, <1>3
<1>5. \A j \in home : n + 1 <= j
  <2> SUFFICES ASSUME NEW j \in home, j < n + 1 PROVE FALSE
    BY <1>4
  <2>1. j \in 1..n /\ at[j] \in {h, Nowhere}
    OBVIOUS
  <2> QED
    BY <1>3, <2>1, QueueAssumption
<1> HIDE DEF home
<1>6. Min(home) = n + 1
  BY <1>4, <1>5, MinIs
<1>7. (IF home = {} THEN Room ELSE Min(home) - 1) = n
  BY <1>4, <1>6
<1>8. Ring(link, h) = [k \in 1..n |-> at[k]]
  BY <1>1, <1>7
<1> QED
  BY <1>3, <1>8

\* A chain is read the same in both directions.
LEMMA ChainIsRead ==
    ASSUME NEW q, NEW h \in Heads, NEW s, Chain(q, h, s)
    PROVE  Ring(q.next, h) = s /\ Ring(q.prev, h) = Reverse(s)
<1> DEFINE n == Len(s)
           N == Nodes(h, s)
<1>1. /\ n \in Nat /\ s \in Seq(Items)
      /\ \A i \in 1..n : s[i] \in Items /\ N[i] = s[i]
      /\ N[0] = h /\ N[n + 1] = h
  <2> HIDE DEF N
  <2>1. /\ n \in Nat /\ s \in Seq(Items)
        /\ \A i \in 1..n : s[i] \in Items
    BY ChainItems
  <2>2. /\ Nodes(h, s)[0] = h /\ Nodes(h, s)[n + 1] = h
        /\ \A i \in 1..n : Nodes(h, s)[i] = s[i]
    BY <2>1, NodesFacts
  <2> QED
    BY <2>1, <2>2 DEF N
<1>2. Loop(q, n, N)
  BY DEF Chain
<1>3. Room \in Nat /\ n + 1 <= Room
  BY ChainFits
<1>4. s = [k \in 1..n |-> s[k]]
  BY <1>1
<1> HIDE DEF n, N
<1>5. Ring(q.next, h) = s
  <2>1. \A k \in 0 .. n + 1 : Along(q.next, h, Room)[k] = N[k]
    <3>1. \A k \in 0 .. n + 1 : k <= Room => Along(q.next, N[0], Room)[k] = N[k]
      BY <1>2, <1>3, WalkForth
    <3>2. \A k \in 0 .. n + 1 : k <= Room
      BY <1>1, <1>3
    <3> QED
      BY <1>1, <3>1, <3>2
  <2>2. \A k \in 1..n : s[k] \in Items /\ Along(q.next, h, Room)[k] = s[k]
    <3>1. \A k \in 1..n : k \in 0 .. n + 1
      BY <1>1
    <3> QED
      BY <1>1, <2>1, <3>1
  <2>3. Along(q.next, h, Room)[n + 1] = h
    <3>1. n + 1 \in 0 .. n + 1
      BY <1>1
    <3> QED
      BY <1>1, <2>1, <3>1
  <2>4. Ring(q.next, h) = [k \in 1..n |-> s[k]]
    BY <1>1, <1>3, <2>2, <2>3, RingIs
  <2> QED
    BY <1>4, <2>4
<1>6. Ring(q.prev, h) = Reverse(s)
  <2> DEFINE t == [k \in 1..n |-> s[(n - k) + 1]]
  <2>1. \A k \in 0 .. n + 1 : Along(q.prev, h, Room)[k] = N[n + 1 - k]
    <3>1. n + 1 \in 0 .. n + 1 /\ \A k \in 0 .. n + 1 : k <= Room
      BY <1>1, <1>3
    <3>2. \A k \in 0 .. n + 1 : k <= Room => Along(q.prev, N[n + 1], Room)[k] = N[n + 1 - k]
      <4>1. PICK j \in 0 .. n + 1 : j = n + 1
        BY <3>1
      <4>2. \A k \in 0..j : k <= Room => Along(q.prev, N[j], Room)[k] = N[j - k]
        BY <1>2, <1>3, WalkBack
      <4>3. ASSUME NEW k \in 0 .. n + 1, k <= Room
            PROVE  Along(q.prev, N[n + 1], Room)[k] = N[n + 1 - k]
        <5>1. k \in 0..j
          BY <4>1
        <5>2. Along(q.prev, N[j], Room)[k] = N[j - k]
          BY <4>2, <4>3, <5>1
        <5>3. j - k = n + 1 - k
          BY <1>1, <4>1
        <5> QED
          BY <4>1, <5>2, <5>3, Zenon
      <4> QED
        BY <4>3
    <3> QED
      BY <1>1, <3>1, <3>2
  <2>2. ASSUME NEW k \in 1..n PROVE t[k] \in Items /\ Along(q.prev, h, Room)[k] = t[k]
    <3>1. k \in 0 .. n + 1 /\ n + 1 - k = (n - k) + 1 /\ (n - k) + 1 \in 1..n
      BY <1>1
    <3> QED
      BY <1>1, <2>1, <3>1
  <2>3. Along(q.prev, h, Room)[n + 1] = h
    <3>1. n + 1 \in 0 .. n + 1 /\ n + 1 - (n + 1) = 0
      BY <1>1
    <3> QED
      BY <1>1, <2>1, <3>1
  <2>4. t = Reverse(s) /\ t = [k \in 1..n |-> t[k]]
    BY DEF Reverse, n
  <2> HIDE DEF t
  <2>5. \A k \in 1..n : t[k] \in Items /\ Along(q.prev, h, Room)[k] = t[k]
    BY <2>2
  <2>6. Ring(q.prev, h) = [k \in 1..n |-> t[k]]
    BY <1>1, <1>3, <2>3, <2>5, RingIs
  <2> QED
    BY <2>4, <2>6
<1> QED
  BY <1>5, <1>6

-----------------------------------------------------------------------------
(* The middle.                                                             *)

\* After d rounds next is on the last cell, or in front of it; not earlier.
LEMMA ManyMiddle ==
    ASSUME NEW q, NEW h \in Heads, NEW s, Chain(q, h, s), q.prev[h] = s[Len(s)],
           NEW d \in Nat, d # 0, Len(s) = 2 * d \/ Len(s) = 2 * d + 1
    PROVE  MiddleOfMany(q, h) = s[d + 1]
<1> DEFINE at == Along(q.next, h, 2 * Room + 1)
           ends == {k \in 1..Room : q.prev[h] \in {at[2 * k], at[2 * k + 1]}}
<1>1. MiddleOfMany(q, h) = at[Min(ends) + 1]
  BY DEF MiddleOfMany
<1>2. PICK n \in Nat : n = Len(s)
  BY ChainItems
<1>3. Room \in Nat /\ n + 1 <= Room /\ 2 * Room + 1 \in Nat
  BY <1>2, ChainFits
<1>4. \A k \in 1..n : at[k] = s[k]
  <2>1. /\ Nodes(h, s)[0] = h /\ \A k \in 1..n : Nodes(h, s)[k] = s[k]
    <3>0. s \in Seq(Items)
      BY ChainItems
    <3>1. Nodes(h, s)[0] = h /\ \A k \in 1..Len(s) : Nodes(h, s)[k] = s[k]
      BY <3>0, NodesFacts
    <3> QED
      BY <1>2, <3>1
  <2>2. Loop(q, n, Nodes(h, s))
    BY <1>2 DEF Chain
  <2>3. \A k \in 0 .. n + 1 : k <= 2 * Room + 1 =>
            Along(q.next, Nodes(h, s)[0], 2 * Room + 1)[k] = Nodes(h, s)[k]
    BY <1>3, <2>2, WalkForth
  <2>4. \A k \in 1..n : k \in 0 .. n + 1 /\ k <= 2 * Room + 1
    BY <1>3
  <2> QED
    BY <2>1, <2>3, <2>4
<1>5. \A i, j \in 1..n : s[i] = s[j] => i = j
  BY <1>2, ChainItems
<1> HIDE DEF at
<1>6. d \in ends /\ ends \in SUBSET Nat
  <2>1. d \in 1..Room /\ n \in 1..n /\ (n = 2 * d \/ n = 2 * d + 1)
    BY <1>2, <1>3
  <2>2. q.prev[h] = at[n]
    BY <1>2, <1>4, <2>1
  <2> QED
    BY <2>1, <2>2
<1>7. \A k \in ends : d <= k
  <2> SUFFICES ASSUME NEW k \in ends, k < d PROVE FALSE
    BY <1>6
  <2>1. /\ k \in 1..Room /\ q.prev[h] \in {at[2 * k], at[2 * k + 1]}
    OBVIOUS
  <2>2. /\ 2 * k \in 1..n /\ 2 * k + 1 \in 1..n /\ 2 * k # n /\ 2 * k + 1 # n /\ n \in 1..n
    BY <1>2, <2>1
  <2>3. PICK a \in 1..n, b \in 1..n : a = 2 * k /\ b = 2 * k + 1 /\ a # n /\ b # n
    BY <2>2
  <2>4. s[n] \in {at[a], at[b]}
    BY <1>2, <2>1, <2>3
  <2> QED
    BY <1>4, <1>5, <2>2, <2>3, <2>4
<1> HIDE DEF ends
<1>8. Min(ends) = d
  BY <1>6, <1>7, MinIs
<1>9. d + 1 \in 1..n
  BY <1>2
<1> QED
  BY <1>1, <1>4, <1>8, <1>9

LEMMA ChainMiddle ==
    ASSUME NEW q, NEW h \in Heads, NEW s, Chain(q, h, s), s # <<>>
    PROVE  ngx_queue_middle(q, h) = s[Len(s) \div 2 + 1]
<1>1. /\ Len(s) \in Nat /\ s \in Seq(Items)
      /\ \A i, j \in 1..Len(s) : s[i] = s[j] => i = j
  BY ChainItems
<1>2. PICK n \in Nat : n = Len(s) /\ n # 0
  BY <1>1, EmptySeq
<1>3. q.next[h] = s[1] /\ q.prev[h] = s[n]
  <2>1. /\ Nodes(h, s)[0] = h /\ Nodes(h, s)[n + 1] = h
        /\ \A i \in 1..n : Nodes(h, s)[i] = s[i]
        /\ \A i \in 0..n : Edge(q, Nodes(h, s)[i], Nodes(h, s)[i + 1])
    <3>1. /\ Nodes(h, s)[0] = h /\ Nodes(h, s)[Len(s) + 1] = h
          /\ \A i \in 1..Len(s) : Nodes(h, s)[i] = s[i]
      BY <1>1, NodesFacts
    <3>2. \A i \in 0..Len(s) : Edge(q, Nodes(h, s)[i], Nodes(h, s)[i + 1])
      BY ChainEdges, Zenon
    <3> QED
      BY <1>2, <3>1, <3>2
  <2>2. 0 \in 0..n /\ n \in 0..n /\ 0 + 1 = 1 /\ 1 \in 1..n /\ n \in 1..n
    BY <1>2
  <2>3. Edge(q, h, s[1]) /\ Edge(q, s[n], h)
    BY <2>1, <2>2
  <2> QED
    BY <2>3 DEF Edge
<1>4. CASE n = 1
  <2>1. 1 \div 2 + 1 = 1
    OBVIOUS
  <2> QED
    BY <1>2, <1>3, <1>4, <2>1 DEF ngx_queue_middle
<1>5. CASE n # 1
  <2>1. PICK d \in Nat : d = n \div 2
    OBVIOUS
  <2>2. d # 0 /\ (n = 2 * d \/ n = 2 * d + 1)
    BY <1>2, <1>5, <2>1
  <2>3. 1 \in 1..n /\ n \in 1..n
    BY <1>2
  <2>4. q.next[h] # q.prev[h]
    BY <1>1, <1>2, <1>3, <1>5, <2>3
  <2>5. MiddleOfMany(q, h) = s[d + 1]
    BY <1>2, <1>3, <2>2, ManyMiddle
  <2> QED
    BY <1>2, <2>1, <2>4, <2>5 DEF ngx_queue_middle
<1> QED
  BY <1>4, <1>5

-----------------------------------------------------------------------------
(* Sorting as sequences.                                                   *)

\* The a-th of s is to stand before the b-th.
Sooner(s, a, b) == \/ Weight[s[a]] < Weight[s[b]]
                   \/ Weight[s[a]] = Weight[s[b]] /\ a < b

Rearranges(p, n) == /\ p \in [1..n -> 1..n]
                    /\ \A i, j \in 1..n : p[i] = p[j] => i = j
                    /\ \A i \in 1..n : \E j \in 1..n : p[j] = i

\* t is s with its first m in order; p tells where each one was.
Sorting(s, t, p, m) ==
    /\ t \in Seq(Items) /\ Len(t) = Len(s) /\ Rearranges(p, Len(s))
    /\ \A i \in 1..Len(s) : t[i] = s[p[i]] /\ (i > m => p[i] = i)
    /\ \A i, j \in 1..Len(s) : i < j /\ j <= m => Sooner(s, p[i], p[j])

LEMMA WeightIsInt == \A x \in Items : Weight[x] \in Int
BY QueueAssumption

\* Those that stand at or before the k-th place are k.
LEMMA PlaceOf ==
    ASSUME NEW s \in Seq(Items), NEW t, NEW p, Sorting(s, t, p, Len(s)), NEW k \in 1..Len(s),
           NEW upto, upto = {j \in DOMAIN s : \/ Weight[s[j]] < Weight[s[p[k]]]
                                              \/ Weight[s[j]] = Weight[s[p[k]]] /\ j <= p[k]}
    PROVE  Cardinality(upto) = k
<1>1. PICK n \in Nat : n = Len(s) /\ DOMAIN s = 1..n /\ k \in 1..n
  BY LenProperties
<1>2. /\ p \in [1..n -> 1..n]
      /\ \A i, j \in 1..n : p[i] = p[j] => i = j
      /\ \A i \in 1..n : \E j \in 1..n : p[j] = i
      /\ \A i, j \in 1..n : i < j => Sooner(s, p[i], p[j])
  <2>1. /\ Rearranges(p, Len(s))
        /\ \A i, j \in 1..Len(s) : i < j /\ j <= Len(s) => Sooner(s, p[i], p[j])
    BY DEF Sorting
  <2>2. \A i, j \in 1..n : i < j => Sooner(s, p[i], p[j])
    BY <1>1, <2>1
  <2> QED
    BY <1>1, <2>1, <2>2 DEF Rearranges
<1>3. \A i \in 1..n : p[i] \in 1..n /\ Weight[s[p[i]]] \in Int
  <2>1. \A i \in 1..n : s[i] \in Items
    BY <1>1, ElementOfSeq
  <2>2. \A i \in 1..n : p[i] \in 1..n
    BY <1>2
  <2> QED
    BY <2>1, <2>2, WeightIsInt
<1>4. \A i \in 1..n : p[i] \in upto <=> i <= k
  <2> SUFFICES ASSUME NEW i \in 1..n PROVE p[i] \in upto <=> i <= k
    OBVIOUS
  <2>1. p[i] \in upto <=> \/ Weight[s[p[i]]] < Weight[s[p[k]]]
                          \/ Weight[s[p[i]]] = Weight[s[p[k]]] /\ p[i] <= p[k]
    BY <1>1, <1>3
  <2>2. CASE i < k
    <3>1. Sooner(s, p[i], p[k])
      BY <1>1, <1>2, <2>2
    <3>2. p[i] \in Int /\ p[k] \in Int /\ i <= k
      BY <1>1, <1>3, <2>2
    <3> QED
      BY <2>1, <3>1, <3>2 DEF Sooner
  <2>3. CASE i = k
    <3>1. p[i] \in Int
      BY <1>3
    <3> QED
      BY <2>1, <2>3, <3>1
  <2>4. CASE k < i
    <3>1. Sooner(s, p[k], p[i])
      BY <1>1, <1>2, <2>4
    <3>2. /\ p[i] \in Int /\ p[k] \in Int /\ ~(i <= k)
          /\ Weight[s[p[i]]] \in Int /\ Weight[s[p[k]]] \in Int
      BY <1>1, <1>3, <2>4
    <3> QED
      BY <2>1, <3>1, <3>2 DEF Sooner
  <2> QED
    BY <1>1, <2>2, <2>3, <2>4
<1> DEFINE f == [i \in 1..k |-> p[i]]
<1>5. \A i \in 1..k : i \in 1..n /\ i <= k
  BY <1>1
<1>6. f \in [1..k -> upto]
  BY <1>4, <1>5
<1>7. \A a, b \in 1..k : f[a] = f[b] => a = b
  BY <1>2, <1>5
<1>8. \A x \in upto : \E a \in 1..k : f[a] = x
  <2> SUFFICES ASSUME NEW x \in upto PROVE \E a \in 1..k : f[a] = x
    OBVIOUS
  <2>1. PICK i \in 1..n : p[i] = x
    BY <1>1, <1>2
  <2>2. i \in 1..k
    BY <1>1, <1>4, <2>1
  <2> QED
    BY <2>1, <2>2
<1> HIDE DEF f
<1>9. f \in Bijection(1..k, upto)
  BY <1>6, <1>7, <1>8 DEF Bijection, Injection, Surjection, IsInjective
<1>10. ExistsBijection(1..k, upto)
  BY <1>9 DEF ExistsBijection
<1>11. k \in Nat /\ IsFiniteSet(1..k) /\ Cardinality(1..k) = k
  <2>1. k \in Nat /\ k >= 1
    BY <1>1
  <2>2. Cardinality(1..k) = IF 1 > k THEN 0 ELSE k - 1 + 1
    BY <2>1, FS_Interval
  <2> QED
    BY <2>1, <2>2, FS_Interval
<1> QED
  BY <1>10, <1>11, FS_Bijection

LEMMA SameCardinality == ASSUME NEW S PROVE A!Cardinality(S) = Cardinality(S)
BY DEF A!Cardinality, Cardinality

LEMMA SortedIsStable ==
    ASSUME NEW s \in Seq(Items), NEW t, NEW p, Sorting(s, t, p, Len(s))
    PROVE  A!StableSort(s) = t
<1> DEFINE upto(i) == {j \in DOMAIN s : \/ Weight[s[j]] < Weight[s[i]]
                                        \/ Weight[s[j]] = Weight[s[i]] /\ j <= i}
           place(i) == A!Cardinality(upto(i))
<1>1. A!StableSort(s) = [k \in DOMAIN s |-> s[CHOOSE i \in DOMAIN s : place(i) = k]]
  BY DEF A!StableSort
<1>2. PICK n \in Nat : n = Len(s) /\ DOMAIN s = 1..n
  BY LenProperties
<1>3. /\ t \in Seq(Items) /\ Len(t) = n /\ p \in [1..n -> 1..n]
      /\ \A i \in 1..n : \E j \in 1..n : p[j] = i
      /\ \A i \in 1..n : t[i] = s[p[i]]
  BY <1>2 DEF Sorting, Rearranges
<1>4. \A k \in 1..n : place(p[k]) = k
  BY <1>2, PlaceOf, SameCardinality
<1> HIDE DEF place
<1>5. ASSUME NEW k \in 1..n PROVE (CHOOSE i \in DOMAIN s : place(i) = k) = p[k]
  <2>1. p[k] \in DOMAIN s /\ place(p[k]) = k
    BY <1>2, <1>3, <1>4
  <2>2. ASSUME NEW i \in DOMAIN s, place(i) = k PROVE i = p[k]
    <3>1. PICK j \in 1..n : p[j] = i
      BY <1>2, <1>3
    <3>2. j = k
      BY <1>4, <2>2, <3>1
    <3> QED
      BY <3>1, <3>2
  <2> QED
    BY <2>1, <2>2
<1>6. [k \in DOMAIN s |-> s[CHOOSE i \in DOMAIN s : place(i) = k]] = [k \in 1..n |-> t[k]]
  BY <1>2, <1>3, <1>5
<1>7. t = [k \in 1..n |-> t[k]]
  BY <1>3
<1> QED
  BY <1>1, <1>6, <1>7

\* Where the i-th is from when the one behind the first m has been put behind the
\* first j of them.
Source(m, j, i) == IF i <= j THEN i ELSE IF i = j + 1 THEN m + 1
                   ELSE IF i <= m + 1 THEN i - 1 ELSE i
Shifted(t, m, j) == [i \in 1..Len(t) |-> t[Source(m, j, i)]]

Permutes(n, m, j) ==
    /\ \A i \in 1..n : Source(m, j, i) \in 1..n
    /\ \A a, b \in 1..n : Source(m, j, a) = Source(m, j, b) => a = b
    /\ \A i \in 1..n : \E a \in 1..n : Source(m, j, a) = i
    /\ \A i \in 1..n : i > m + 1 => Source(m, j, i) = i

LEMMA SourceFacts ==
    ASSUME NEW n \in Nat, NEW m \in 1 .. n - 1, NEW j \in 0..m
    PROVE  Permutes(n, m, j)
<1>1. \A i \in 1..n : Source(m, j, i) \in 1..n
  BY DEF Source
<1>2. \A a, b \in 1..n : Source(m, j, a) = Source(m, j, b) => a = b
  BY DEF Source
<1>3. ASSUME NEW i \in 1..n PROVE \E a \in 1..n : Source(m, j, a) = i
  <2>1. CASE i <= j \/ i > m + 1
    <3>1. Source(m, j, i) = i
      BY <2>1 DEF Source
    <3> QED
      BY <3>1
  <2>2. CASE i = m + 1
    <3>1. Source(m, j, j + 1) = i /\ j + 1 \in 1..n
      BY <2>2 DEF Source
    <3> QED
      BY <3>1
  <2>3. CASE i > j /\ i <= m
    <3>1. Source(m, j, i + 1) = i /\ i + 1 \in 1..n
      BY <2>3 DEF Source
    <3> QED
      BY <3>1
  <2> QED
    BY <2>1, <2>2, <2>3
<1>4. \A i \in 1..n : i > m + 1 => Source(m, j, i) = i
  BY DEF Source
<1> QED
  BY <1>1, <1>2, <1>3, <1>4 DEF Permutes

\* The round puts it behind those that are not heavier and before the others.
Fits(t, m, j) == /\ \A i \in 1..j : Weight[t[i]] <= Weight[t[m + 1]]
                 /\ \A i \in j + 1 .. m : Weight[t[i]] > Weight[t[m + 1]]

LEMMA OneMoreSorted ==
    ASSUME NEW s \in Seq(Items), NEW t, NEW p, NEW m \in 1 .. Len(s) - 1, Sorting(s, t, p, m),
           NEW j \in 0..m, Fits(t, m, j)
    PROVE  \E v : Sorting(s, Shifted(t, m, j), v, m + 1)
<1>1. PICK n \in Nat : n = Len(s) /\ m \in 1 .. n - 1
  BY LenProperties
<1>2. /\ t \in Seq(Items) /\ Len(t) = n /\ p \in [1..n -> 1..n]
      /\ \A a, b \in 1..n : p[a] = p[b] => a = b
      /\ \A i \in 1..n : \E a \in 1..n : p[a] = i
      /\ \A i \in 1..n : t[i] = s[p[i]]
      /\ \A i \in 1..n : i > m => p[i] = i
      /\ \A a, b \in 1..n : a < b /\ b <= m => Sooner(s, p[a], p[b])
  BY <1>1 DEF Sorting, Rearranges
<1>3. /\ \A i \in 1..n : Source(m, j, i) \in 1..n
      /\ \A a, b \in 1..n : Source(m, j, a) = Source(m, j, b) => a = b
      /\ \A i \in 1..n : \E a \in 1..n : Source(m, j, a) = i
      /\ \A i \in 1..n : i > m + 1 => Source(m, j, i) = i
  <2>1. Permutes(n, m, j)
    BY <1>1, SourceFacts
  <2> QED
    BY <2>1 DEF Permutes
<1> DEFINE u == Shifted(t, m, j)
           v == [i \in 1..n |-> p[Source(m, j, i)]]
<1>4. \A i \in 1..n : u[i] = t[Source(m, j, i)] /\ v[i] = p[Source(m, j, i)]
  BY <1>2 DEF Shifted
<1>5. u \in Seq(Items) /\ Len(u) = n
  <2>1. \A i \in 1..n : t[i] \in Items
    BY <1>2, ElementOfSeq
  <2>2. u = [i \in 1..n |-> t[Source(m, j, i)]]
    BY <1>2 DEF Shifted
  <2>3. \A i \in 1..n : t[Source(m, j, i)] \in Items
    BY <1>3, <2>1
  <2> QED
    BY <2>2, <2>3, IsASeq
<1>6. Rearranges(v, n)
  <2>1. v \in [1..n -> 1..n]
    BY <1>2, <1>3
  <2> HIDE DEF v
  <2>2. ASSUME NEW a \in 1..n, NEW b \in 1..n, v[a] = v[b] PROVE a = b
    <3>1. PICK x \in 1..n, y \in 1..n : x = Source(m, j, a) /\ y = Source(m, j, b)
      BY <1>3
    <3>2. p[x] = p[y]
      BY <1>4, <2>2, <3>1
    <3>3. x = y
      BY <1>2, <3>2
    <3> QED
      BY <1>3, <3>1, <3>3
  <2>3. ASSUME NEW i \in 1..n PROVE \E a \in 1..n : v[a] = i
    <3>1. PICK b \in 1..n : p[b] = i
      BY <1>2
    <3>2. PICK a \in 1..n : Source(m, j, a) = b
      BY <1>3
    <3> QED
      BY <1>4, <3>1, <3>2
  <2> QED
    BY <2>1, <2>2, <2>3 DEF Rearranges
<1> HIDE DEF u, v
<1>7. ASSUME NEW i \in 1..n PROVE u[i] = s[v[i]] /\ (i > m + 1 => v[i] = i)
  <2>1. PICK x \in 1..n : x = Source(m, j, i)
    BY <1>3
  <2>2. u[i] = t[x] /\ v[i] = p[x] /\ t[x] = s[p[x]] /\ (x > m => p[x] = x)
    BY <1>2, <1>4, <2>1
  <2>3. i > m + 1 => x = i /\ x > m
    BY <1>1, <1>3, <2>1
  <2> QED
    BY <2>2, <2>3
<1>8. ASSUME NEW a \in 1..n, NEW b \in 1..n, a < b, b <= m + 1 PROVE Sooner(s, v[a], v[b])
  <2>1. CASE b = j + 1
    <3>1. Source(m, j, a) = a /\ Source(m, j, b) = m + 1 /\ a \in 1..j /\ m + 1 \in 1..n /\ a \in 1..n
      BY <1>1, <1>8, <2>1 DEF Source
    <3>2. v[a] = p[a] /\ v[b] = m + 1 /\ p[m + 1] = m + 1 /\ p[a] \in 1..n
      <4>1. m + 1 > m
        BY <1>1
      <4>2. p[m + 1] = m + 1 /\ p[a] \in 1..n
        BY <1>2, <3>1, <4>1
      <4> QED
        BY <1>4, <3>1, <4>2
    <3>3. p[a] < m + 1
      <4>1. p[a] # m + 1
        <5>1. a # m + 1
          BY <3>1
        <5> QED
          BY <1>2, <3>1, <3>2, <5>1
      <4>2. ~(p[a] > m + 1)
        <5> SUFFICES ASSUME p[a] > m + 1 PROVE FALSE
          OBVIOUS
        <5>1. p[p[a]] = p[a]
          BY <1>1, <1>2, <3>2
        <5>2. p[a] = a
          BY <1>2, <3>2, <5>1
        <5> QED
          BY <1>1, <3>1, <5>2
      <4> QED
        BY <1>1, <3>2, <4>1, <4>2
    <3>4. Weight[t[a]] <= Weight[t[m + 1]]
      BY <3>1 DEF Fits
    <3>5. Weight[s[p[a]]] <= Weight[s[m + 1]] /\ Weight[s[p[a]]] \in Int /\ Weight[s[m + 1]] \in Int
      <4>1. s[p[a]] \in Items /\ s[m + 1] \in Items /\ t[a] = s[p[a]] /\ t[m + 1] = s[m + 1]
        BY <1>1, <1>2, <3>1, <3>2, ElementOfSeq
      <4> QED
        BY <3>4, <4>1, WeightIsInt
    <3> QED
      BY <3>2, <3>3, <3>5 DEF Sooner
  <2>2. CASE a = j + 1
    <3>1. /\ Source(m, j, a) = m + 1 /\ Source(m, j, b) = b - 1 /\ b - 1 \in j + 1 .. m
          /\ m + 1 \in 1..n /\ b - 1 \in 1..n
      BY <1>1, <1>8, <2>2 DEF Source
    <3>2. v[b] = p[b - 1] /\ v[a] = m + 1 /\ p[m + 1] = m + 1 /\ p[b - 1] \in 1..n
      <4>1. m + 1 > m
        BY <1>1
      <4>2. p[m + 1] = m + 1 /\ p[b - 1] \in 1..n
        BY <1>2, <3>1, <4>1
      <4> QED
        BY <1>4, <3>1, <4>2
    <3>3. Weight[t[b - 1]] > Weight[t[m + 1]]
      BY <3>1 DEF Fits
    <3>4. /\ s[p[b - 1]] \in Items /\ s[m + 1] \in Items
          /\ t[b - 1] = s[p[b - 1]] /\ t[m + 1] = s[m + 1]
      BY <1>1, <1>2, <3>1, <3>2, ElementOfSeq
    <3>5. Weight[s[p[b - 1]]] > Weight[s[m + 1]] /\ Weight[s[p[b - 1]]] \in Int /\ Weight[s[m + 1]] \in Int
      BY <3>3, <3>4, WeightIsInt
    <3> QED
      BY <3>2, <3>5 DEF Sooner
  <2>3. CASE a # j + 1 /\ b # j + 1
    <3>1. /\ Source(m, j, a) \in 1..n /\ Source(m, j, b) \in 1..n
          /\ Source(m, j, a) < Source(m, j, b) /\ Source(m, j, b) <= m
      BY <1>1, <1>8, <2>3 DEF Source
    <3> QED
      BY <1>2, <1>4, <3>1
  <2> QED
    BY <2>1, <2>2, <2>3
<1>9. Sorting(s, u, v, m + 1)
  BY <1>1, <1>5, <1>6, <1>7, <1>8 DEF Sorting
<1> QED
  BY <1>9 DEF u

-----------------------------------------------------------------------------
(* Sorting as links.                                                       *)

LEMMA KeepsTwice ==
    ASSUME NEW q, NEW a, NEW p, NEW C, Keeps(q, a, C, C), Keeps(a, p, C, C)
    PROVE  Keeps(q, p, C, C)
BY DEF Keeps

LEMMA KeepsMore ==
    ASSUME NEW q, NEW p, NEW C, Keeps(q, p, C, C), NEW D, C \subseteq D
    PROVE  Keeps(q, p, D, D)
BY DEF Keeps

\* Walking back from the m-th of r, x fits behind the first that is not heavier.
Found(q, h, r, m, x) ==
    \E j \in 0..m : /\ PlaceFor(q, h, Nodes(h, r)[m], x) = Nodes(h, r)[j]
                    /\ j # 0 => Weight[r[j]] <= Weight[x]
                    /\ \A i \in j + 1 .. m : Weight[r[i]] > Weight[x]

LEMMA PlaceFound ==
    ASSUME NEW q, NEW h \in Heads, NEW r, Chain(q, h, r), NEW m \in 0..Len(r), NEW x \in Items
    PROVE  Found(q, h, r, m, x)
<1> DEFINE N == Nodes(h, r)
           at == Along(q.prev, N[m], Room)
           S == {k \in 0..Room : at[k] = h \/ cmp(at[k], x) <= 0}
<1>1. PlaceFor(q, h, N[m], x) = at[Min(S)]
  BY DEF PlaceFor
<1>2. PICK n \in Nat : n = Len(r) /\ m \in 0..n
  BY ChainItems
<1>3. \A i \in 1..n : r[i] \in Items /\ r[i] # h
  BY <1>2, ChainItems
<1>4. N[0] = h /\ \A i \in 1..n : N[i] = r[i]
  <2>1. r \in Seq(Items)
    BY ChainItems
  <2> QED
    BY <1>2, <2>1, NodesFacts
<1>5. Room \in Nat /\ n + 1 <= Room
  BY <1>2, ChainFits
<1> HIDE DEF N
<1>6. \A k \in 0..m : at[k] = N[m - k]
  <2>1. Loop(q, n, N) /\ m \in 0 .. n + 1
    BY <1>2 DEF Chain, N
  <2>2. \A k \in 0..m : k <= Room => Along(q.prev, N[m], Room)[k] = N[m - k]
    BY <1>5, <2>1, WalkBack
  <2>3. \A k \in 0..m : k <= Room
    BY <1>2, <1>5
  <2> QED
    BY <2>2, <2>3
<1> HIDE DEF at
<1>7. m \in S /\ S \in SUBSET Nat
  <2>1. m \in 0..m /\ m - m = 0 /\ m \in 0..Room
    BY <1>2, <1>5
  <2>2. at[m] = h
    BY <1>4, <1>6, <2>1
  <2> QED
    BY <2>1, <2>2
<1>8. PICK k \in S : \A i \in S : k <= i
  <2> HIDE DEF S
  <2>1. S # {}
    BY <1>7
  <2> QED
    BY <1>7, <2>1, LeastExists
<1>9. Min(S) = k
  <2> HIDE DEF S
  <2> QED
    BY <1>7, <1>8, MinIs
<1>10. /\ k \in 0..m /\ m - k \in 0..m /\ at[k] = N[m - k]
       /\ at[k] = h \/ cmp(at[k], x) <= 0
  BY <1>2, <1>6, <1>7, <1>8
<1>11. ASSUME m - k # 0 PROVE Weight[r[m - k]] <= Weight[x]
  <2>1. m - k \in 1..n
    BY <1>2, <1>10, <1>11
  <2>2. N[m - k] = r[m - k] /\ r[m - k] # h /\ r[m - k] \in Items
    BY <1>3, <1>4, <2>1
  <2>3. cmp(r[m - k], x) <= 0
    BY <1>10, <2>2
  <2> QED
    BY <2>2, <2>3, WeightIsInt DEF cmp
<1>12. ASSUME NEW i \in (m - k) + 1 .. m PROVE Weight[r[i]] > Weight[x]
  <2>1. m - i \in 0..m /\ m - i < k /\ m - (m - i) = i /\ i \in 1..n /\ m - i \in 0..Room
    BY <1>2, <1>5, <1>10
  <2>2. at[m - i] = r[i]
    BY <1>4, <1>6, <2>1
  <2>3. m - i \notin S
    <3>1. ~(k <= m - i)
      BY <1>2, <1>10, <2>1
    <3> HIDE DEF S
    <3> QED
      BY <1>8, <3>1
  <2>4. ~(cmp(r[i], x) <= 0)
    BY <2>1, <2>2, <2>3
  <2>5. r[i] \in Items
    BY <1>3, <2>1
  <2> QED
    BY <2>4, <2>5, WeightIsInt DEF cmp
<1>13. PICK j \in 0..m : j = m - k
  BY <1>10
<1>14. PlaceFor(q, h, N[m], x) = N[j]
  BY <1>1, <1>9, <1>10, <1>13
<1>15. \A i \in j + 1 .. m : Weight[r[i]] > Weight[x]
  BY <1>12, <1>13
<1> QED
  BY <1>11, <1>13, <1>14, <1>15 DEF N, Found

\* Where the m + 1-th of s belongs among the first m.
Spot(s, m, j) == /\ j \in 0..m /\ (j # 0 => Weight[s[j]] <= Weight[s[m + 1]])
                 /\ \A i \in j + 1 .. m : Weight[s[i]] > Weight[s[m + 1]]

LEMMA FunctionIsSeq ==
    ASSUME NEW n \in Nat, NEW r \in [1..n -> Items]
    PROVE  r \in Seq(Items) /\ Len(r) = n
OBVIOUS

LEMMA ShrunkExists ==
    ASSUME NEW s \in Seq(Items), NEW k \in 1..Len(s)
    PROVE  \E r : Shrunk(s, k, r)
<1> DEFINE r == [i \in 1 .. Len(s) - 1 |-> IF i < k THEN s[i] ELSE s[i + 1]]
<1>1. Len(s) \in Nat /\ \A i \in 1..Len(s) : s[i] \in Items
  BY LenProperties, ElementOfSeq
<1>2. Len(s) - 1 \in Nat /\ \A i \in 1 .. Len(s) - 1 : i \in 1..Len(s) /\ i + 1 \in 1..Len(s)
  BY <1>1
<1>3. r \in [1 .. Len(s) - 1 -> Items]
  BY <1>1, <1>2
<1>4. r \in Seq(Items) /\ Len(r) = Len(s) - 1
  <2> HIDE DEF r
  <2>1. PICK n \in Nat : n = Len(s) - 1
    BY <1>2
  <2> QED
    BY <1>3, <2>1, FunctionIsSeq
<1>5. /\ \A i \in 1 .. k - 1 : r[i] = s[i]
      /\ \A i \in k .. Len(s) - 1 : r[i] = s[i + 1]
  <2>1. /\ \A i \in 1 .. k - 1 : i \in 1 .. Len(s) - 1 /\ i < k
        /\ \A i \in k .. Len(s) - 1 : i \in 1 .. Len(s) - 1 /\ ~(i < k)
    BY <1>1
  <2> QED
    BY <2>1
<1> QED
  BY <1>4, <1>5 DEF Shrunk

\* Taken out and put back where it belongs.
LEMMA ShiftedGrown ==
    ASSUME NEW s \in Seq(Items), NEW m \in 1 .. Len(s) - 1, NEW j \in 0..m,
           NEW r, Shrunk(s, m + 1, r)
    PROVE  Grown(r, j, s[m + 1], Shifted(s, m, j))
<1>1. PICK n \in Nat : n = Len(s) /\ m \in 1 .. n - 1 /\ \A i \in 1..n : s[i] \in Items
  BY LenProperties, ElementOfSeq
<1>2. /\ Len(r) = n - 1
      /\ \A i \in 1..m : r[i] = s[i]
      /\ \A i \in m + 1 .. n - 1 : r[i] = s[i + 1]
  <2>1. (m + 1) - 1 = m
    BY <1>1
  <2> QED
    BY <1>1, <2>1 DEF Shrunk
<1> DEFINE t == Shifted(s, m, j)
<1>3. t = [i \in 1..n |-> s[Source(m, j, i)]]
  BY <1>1 DEF Shifted
<1>4. \A i \in 1..n : Source(m, j, i) \in 1..n
  BY <1>1, SourceFacts DEF Permutes
<1>5. t \in Seq(Items) /\ Len(t) = n
  <2>1. t \in [1..n -> Items]
    BY <1>1, <1>3, <1>4
  <2> HIDE DEF t
  <2> QED
    BY <1>1, <2>1, FunctionIsSeq
<1>6. \A i \in 1..n : t[i] = s[Source(m, j, i)]
  BY <1>3
<1> HIDE DEF t
<1>7. n = Len(r) + 1
  BY <1>2
<1>8. ASSUME NEW i \in 1..j PROVE t[i] = r[i]
  <2>1. i \in 1..n /\ i \in 1..m /\ Source(m, j, i) = i
    BY <1>1 DEF Source
  <2> QED
    BY <1>2, <1>6, <2>1
<1>9. t[j + 1] = s[m + 1]
  <2>1. j + 1 \in 1..n /\ Source(m, j, j + 1) = m + 1
    BY <1>1 DEF Source
  <2> QED
    BY <1>6, <2>1
<1>10. ASSUME NEW i \in j + 2 .. n PROVE t[i] = r[i - 1]
  <2>1. CASE i <= m + 1
    <3>1. i \in 1..n /\ Source(m, j, i) = i - 1 /\ i - 1 \in 1..m
      BY <1>1, <2>1 DEF Source
    <3> QED
      BY <1>2, <1>6, <3>1
  <2>2. CASE ~(i <= m + 1)
    <3>1. i \in 1..n /\ Source(m, j, i) = i /\ i - 1 \in m + 1 .. n - 1 /\ (i - 1) + 1 = i
      BY <1>1, <2>2 DEF Source
    <3> QED
      BY <1>2, <1>6, <3>1
  <2> QED
    BY <2>1, <2>2
<1> QED
  BY <1>5, <1>7, <1>8, <1>9, <1>10 DEF Grown, t

LEMMA ChainMoved ==
    ASSUME NEW q \in Links, NEW h \in Heads, NEW s, Chain(q, h, s), NEW m \in 1 .. Len(s) - 1,
           NEW p, p = Moved(q, h, s[m + 1])
    PROVE  \E j \in 0..m : /\ Spot(s, m, j) /\ Chain(p, h, Shifted(s, m, j)) /\ p \in Links
                           /\ Keeps(q, p, Cells(h, s), Cells(h, s))
<1>1. PICK n \in Nat : n = Len(s) /\ m \in 1 .. n - 1
  BY ChainItems
<1>2. /\ s \in Seq(Items)
      /\ \A i \in 1..n : s[i] \in Items /\ s[i] # h
      /\ \A i, j \in 1..n : s[i] = s[j] => i = j
  BY <1>1, ChainItems
<1>3. m + 1 \in 1..n /\ m + 1 \in 1..Len(s) /\ m \in 1..n /\ m \in 0..Len(s) /\ m - 1 \in Nat
  BY <1>1
<1>4. PICK x \in Items : x = s[m + 1]
  BY <1>2, <1>3
<1>5. PICK r : Shrunk(s, m + 1, r)
  BY <1>2, <1>3, ShrunkExists
<1>6. PICK q1 : q1 = ngx_queue_remove(q, x)
  OBVIOUS
<1>7. q1 \in Links /\ Chain(q1, h, r) /\ Keeps(q, q1, Cells(h, s), Cells(h, s))
  BY <1>3, <1>4, <1>5, <1>6, ChainRemove
<1>8. /\ r \in Seq(Items) /\ Len(r) = n - 1
      /\ \A i \in 1..m : r[i] = s[i]
      /\ \A i \in m + 1 .. n - 1 : r[i] = s[i + 1]
  <2>1. (m + 1) - 1 = m
    BY <1>1
  <2> QED
    BY <1>1, <1>5, <2>1 DEF Shrunk
<1>9. m \in 0..Len(r) /\ m \in 1..Len(r)
  BY <1>1, <1>8
<1>10. q.prev[x] = Nodes(h, r)[m]
  <2>1. Edge(q, Nodes(h, s)[m], Nodes(h, s)[m + 1])
    BY <1>3, ChainEdges
  <2>2. Nodes(h, s)[m] = s[m] /\ Nodes(h, s)[m + 1] = x
    BY <1>1, <1>2, <1>3, <1>4, NodesFacts
  <2>3. Nodes(h, r)[m] = r[m]
    BY <1>8, <1>9, NodesFacts
  <2> QED
    BY <1>1, <1>8, <2>1, <2>2, <2>3 DEF Edge
<1>11. PICK j \in 0..m : /\ PlaceFor(q1, h, Nodes(h, r)[m], x) = Nodes(h, r)[j]
                         /\ j # 0 => Weight[r[j]] <= Weight[x]
                         /\ \A i \in j + 1 .. m : Weight[r[i]] > Weight[x]
  <2>1. Found(q1, h, r, m, x)
    BY <1>7, <1>9, PlaceFound
  <2> QED
    BY <2>1 DEF Found
<1>12. Spot(s, m, j)
  <2>1. j # 0 => j \in 1..m
    BY <1>1
  <2>2. \A i \in j + 1 .. m : i \in 1..m
    BY <1>1
  <2> QED
    BY <1>4, <1>8, <1>11, <2>1, <2>2 DEF Spot
<1>13. PICK a : a = Nodes(h, r)[j]
  OBVIOUS
<1>14. PICK b : b = Nodes(h, r)[j + 1]
  OBVIOUS
<1>15. p = ngx_queue_insert_head(q1, a, x)
  BY <1>4, <1>6, <1>10, <1>11, <1>13 DEF Moved
<1>16. \A i \in 1..Len(r) : r[i] # x
  <2>1. ASSUME NEW i \in 1..Len(r) PROVE r[i] # x
    <3>1. CASE i \in 1..m
      BY <1>1, <1>2, <1>3, <1>4, <1>8, <3>1
    <3>2. CASE ~(i \in 1..m)
      <4>1. i \in m + 1 .. n - 1 /\ i + 1 \in 1..n /\ i + 1 # m + 1
        BY <1>1, <1>8, <3>2
      <4> QED
        BY <1>2, <1>3, <1>4, <1>8, <4>1
    <3> QED
      BY <3>1, <3>2
  <2> QED
    BY <2>1
<1>17. j \in 0..Len(r) /\ j \in 0 .. Len(r) + 1 /\ j + 1 \in 0 .. Len(r) + 1
  BY <1>1, <1>8
<1>18. a \in Cells(h, r) /\ b \in Cells(h, r)
  BY <1>8, <1>13, <1>14, <1>17, NodesFacts
<1>19. x \notin Cells(h, r)
  BY <1>2, <1>3, <1>4, <1>16 DEF Cells
<1>20. a \in Memory /\ b \in Memory /\ x \in Memory /\ Edge(q1, a, b)
  BY <1>7, <1>13, <1>14, <1>17, ChainEdges DEF Memory
<1>21. Inserted(q1, p, a, x, b)
  BY <1>7, <1>15, <1>18, <1>19, <1>20, HeadEdges
<1>22. Grown(r, j, x, Shifted(s, m, j))
  BY <1>2, <1>4, <1>5, ShiftedGrown
<1>23. /\ p \in Links /\ Chain(p, h, Shifted(s, m, j))
       /\ Keeps(q1, p, Cells(h, r) \cup {x}, Cells(h, r) \cup {x})
  BY <1>7, <1>13, <1>14, <1>16, <1>17, <1>21, <1>22, ChainInsert
<1>24. Cells(h, r) \cup {x} \subseteq Cells(h, s)
  <2>1. ASSUME NEW i \in 1..Len(r) PROVE r[i] \in {s[k] : k \in 1..Len(s)}
    <3>1. i \in 1..m \/ i \in m + 1 .. n - 1
      BY <1>1, <1>8
    <3>2. i \in 1..n /\ i + 1 \in 1..n
      BY <1>1, <1>8
    <3> QED
      BY <1>1, <1>8, <3>1, <3>2
  <2> QED
    BY <1>3, <1>4, <2>1 DEF Cells
<1>25. Keeps(q, p, Cells(h, s), Cells(h, s))
  <2>1. Keeps(q1, p, Cells(h, s), Cells(h, s))
    BY <1>23, <1>24, KeepsMore
  <2> QED
    BY <1>7, <2>1, KeepsTwice
<1> QED
  BY <1>12, <1>23, <1>25

LEMMA SpotFits ==
    ASSUME NEW s \in Seq(Items), NEW t, NEW p, NEW m \in 1 .. Len(s) - 1, Sorting(s, t, p, m),
           NEW j, Spot(t, m, j)
    PROVE  j \in 0..m /\ Fits(t, m, j)
<1>1. PICK n \in Nat : n = Len(s) /\ m \in 1 .. n - 1 /\ \A i \in 1..n : s[i] \in Items
  BY LenProperties, ElementOfSeq
<1>2. /\ \A i \in 1..n : t[i] = s[p[i]] /\ p[i] \in 1..n
      /\ \A a, b \in 1..n : a < b /\ b <= m => Sooner(s, p[a], p[b])
  BY <1>1 DEF Sorting, Rearranges
<1>3. /\ j \in 0..m /\ (j # 0 => Weight[t[j]] <= Weight[t[m + 1]])
      /\ \A i \in j + 1 .. m : Weight[t[i]] > Weight[t[m + 1]]
  BY DEF Spot
<1>4. \A i \in 1..n : t[i] \in Items /\ Weight[t[i]] \in Int
  BY <1>1, <1>2, WeightIsInt
<1>5. ASSUME NEW i \in 1..j PROVE Weight[t[i]] <= Weight[t[m + 1]]
  <2>1. i \in 1..n /\ j \in 1..n /\ j # 0 /\ j <= m /\ m + 1 \in 1..n /\ i <= j
    BY <1>1, <1>3
  <2>2. Weight[t[i]] <= Weight[t[j]]
    <3>1. CASE i = j
      BY <1>4, <2>1, <3>1
    <3>2. CASE i # j
      <4>1. Sooner(s, p[i], p[j])
        BY <1>2, <2>1, <3>2
      <4> QED
        BY SMTT(40), <1>2, <1>4, <2>1, <4>1 DEF Sooner
    <3> QED
      BY <3>1, <3>2
  <2> QED
    BY <1>3, <1>4, <2>1, <2>2
<1> QED
  BY <1>3, <1>5 DEF Fits

LEMMA SameCells ==
    ASSUME NEW h, NEW s \in Seq(Items), NEW t, NEW p, NEW m, Sorting(s, t, p, m)
    PROVE  Cells(h, t) = Cells(h, s)
<1>1. PICK n \in Nat : n = Len(s)
  BY LenProperties
<1>2. /\ Len(t) = n
      /\ \A i \in 1..n : t[i] = s[p[i]] /\ p[i] \in 1..n
      /\ \A i \in 1..n : \E k \in 1..n : p[k] = i
  BY <1>1 DEF Sorting, Rearranges
<1>3. {t[i] : i \in 1..n} = {s[i] : i \in 1..n}
  <2>1. ASSUME NEW i \in 1..n PROVE t[i] \in {s[k] : k \in 1..n}
    BY <1>2
  <2>2. ASSUME NEW i \in 1..n PROVE s[i] \in {t[k] : k \in 1..n}
    <3>1. PICK k \in 1..n : p[k] = i
      BY <1>2
    <3>2. s[i] = t[k]
      BY <1>2, <3>1
    <3> QED
      BY <3>2
  <2> QED
    BY <2>1, <2>2
<1> QED
  BY <1>1, <1>2, <1>3 DEF Cells

\* As it is, its first is in order.
LEMMA SortingStarts ==
    ASSUME NEW s \in Seq(Items), NEW m \in 0..1
    PROVE  \E p : Sorting(s, s, p, m)
<1>1. PICK n \in Nat : n = Len(s)
  BY LenProperties
<1> DEFINE p == [i \in 1..n |-> i]
<1>2. Rearranges(p, n)
  BY DEF Rearranges
<1>3. \A i \in 1..n : p[i] = i
  OBVIOUS
<1>4. \A i, j \in 1..n : ~(i < j /\ j <= m)
  OBVIOUS
<1> HIDE DEF p
<1>5. Sorting(s, s, p, m)
  BY <1>1, <1>2, <1>3, <1>4 DEF Sorting
<1> QED
  BY <1>5

\* Links c and the item x that is next, after round k of sorting s.
Round(q, h, s, c, x, k) ==
    \E t, p, m : /\ m \in 1..Len(s) /\ (m = Len(s) \/ m = k + 1)
                 /\ Sorting(s, t, p, m) /\ Chain(c, h, t) /\ c \in Links
                 /\ Keeps(q, c, Cells(h, s), Cells(h, s))
                 /\ x = Nodes(h, t)[m + 1]

LEMMA FirstRound ==
    ASSUME NEW q \in Links, NEW h \in Heads, NEW s, Chain(q, h, s), s # <<>>
    PROVE  /\ Round(q, h, s, q, q.next[q.next[h]], 0)
           /\ q.next[q.next[h]] \in Memory
<1>1. PICK n \in Nat : n = Len(s) /\ s \in Seq(Items) /\ n # 0
  BY ChainItems, EmptySeq
<1>2. PICK p : Sorting(s, s, p, 1)
  BY <1>1, SortingStarts
<1>3. /\ Edge(q, Nodes(h, s)[0], Nodes(h, s)[1]) /\ Edge(q, Nodes(h, s)[1], Nodes(h, s)[2])
      /\ Nodes(h, s)[2] \in Memory
  <2>1. 0 \in 0..n /\ 1 \in 0..n /\ 0 + 1 = 1 /\ 1 + 1 = 2
    BY <1>1
  <2> QED
    BY <1>1, <2>1, ChainEdges
<1>4. q.next[q.next[h]] = Nodes(h, s)[1 + 1] /\ q.next[q.next[h]] \in Memory
  <2>1. Nodes(h, s)[0] = h
    BY <1>1, NodesFacts
  <2> QED
    BY <1>3, <2>1 DEF Edge
<1>5. Keeps(q, q, Cells(h, s), Cells(h, s))
  BY DEF Keeps
<1>6. 1 \in 1..Len(s) /\ 1 = 0 + 1
  BY <1>1
<1> QED
  BY <1>2, <1>4, <1>5, <1>6 DEF Round

LEMMA NoMoreRounds ==
    ASSUME NEW q \in Links, NEW h \in Heads, NEW s, Chain(q, h, s),
           NEW c, NEW k \in Nat, Round(q, h, s, c, h, k)
    PROVE  Round(q, h, s, c, h, k + 1)
<1>1. PICK t, p, m : /\ m \in 1..Len(s) /\ (m = Len(s) \/ m = k + 1)
                     /\ Sorting(s, t, p, m) /\ Chain(c, h, t) /\ c \in Links
                     /\ Keeps(q, c, Cells(h, s), Cells(h, s))
                     /\ h = Nodes(h, t)[m + 1]
  BY DEF Round
<1>2. PICK n \in Nat : n = Len(s) /\ n = Len(t) /\ t \in Seq(Items) /\ m \in 1..n
  BY <1>1, ChainItems DEF Sorting
<1>3. m = Len(s)
  <2> SUFFICES ASSUME m # n PROVE FALSE
    BY <1>2
  <2>1. m + 1 \in 1..n
    BY <1>2
  <2> QED
    BY <1>1, <1>2, <2>1, ChainItems, NodesFacts
<1> QED
  BY <1>1, <1>3 DEF Round

LEMMA NextRound ==
    ASSUME NEW q \in Links, NEW h \in Heads, NEW s, Chain(q, h, s),
           NEW c, NEW x, x # h, NEW k \in Nat, Round(q, h, s, c, x, k)
    PROVE  /\ Round(q, h, s, Moved(c, h, x), c.next[x], k + 1)
           /\ Moved(c, h, x) \in Links /\ c.next[x] \in Memory
<1>1. PICK t, p, m : /\ m \in 1..Len(s) /\ (m = Len(s) \/ m = k + 1)
                     /\ Sorting(s, t, p, m) /\ Chain(c, h, t) /\ c \in Links
                     /\ Keeps(q, c, Cells(h, s), Cells(h, s))
                     /\ x = Nodes(h, t)[m + 1]
  BY DEF Round
<1>2. PICK n \in Nat : n = Len(s) /\ n = Len(t) /\ s \in Seq(Items) /\ t \in Seq(Items) /\ m \in 1..n
  BY <1>1, ChainItems DEF Sorting
<1>3. m # n
  BY <1>1, <1>2, NodesFacts
<1>4. /\ m + 1 \in 1..n /\ m + 1 = k + 2 /\ m \in 1 .. n - 1 /\ m + 1 \in 0..n
      /\ m + 2 \in 1 .. n + 1 /\ (m + 1) + 1 = m + 2
  BY <1>1, <1>2, <1>3
<1>5. x = t[m + 1]
  BY <1>1, <1>2, <1>4, NodesFacts
<1>6. PICK d : d = Moved(c, h, x)
  OBVIOUS
<1>7. PICK j \in 0..m : /\ Spot(t, m, j) /\ Chain(d, h, Shifted(t, m, j)) /\ d \in Links
                        /\ Keeps(c, d, Cells(h, t), Cells(h, t))
  BY <1>1, <1>2, <1>4, <1>5, <1>6, ChainMoved
<1>8. PICK u : u = Shifted(t, m, j)
  OBVIOUS
<1>9. PICK v : Sorting(s, u, v, m + 1)
  <2>1. Fits(t, m, j)
    BY <1>1, <1>2, <1>4, <1>7, SpotFits
  <2> QED
    BY <1>1, <1>2, <1>4, <1>8, <2>1, OneMoreSorted
<1>10. Keeps(q, d, Cells(h, s), Cells(h, s))
  <2>1. Cells(h, t) = Cells(h, s)
    BY <1>1, <1>2, SameCells
  <2> QED
    BY <1>1, <1>7, <2>1, KeepsTwice
<1>11. c.next[x] = Nodes(h, t)[m + 2] /\ c.next[x] \in Memory
  <2>1. PICK i \in 0..n : i = m + 1
    BY <1>4
  <2>2. Edge(c, Nodes(h, t)[i], Nodes(h, t)[i + 1]) /\ Nodes(h, t)[i + 1] \in Memory
    BY <1>1, <1>2, <2>1, ChainEdges
  <2>3. x = Nodes(h, t)[i] /\ i + 1 = m + 2
    BY <1>1, <1>4, <2>1
  <2> QED
    BY <2>2, <2>3 DEF Edge
<1>12. Nodes(h, t)[m + 2] = Nodes(h, u)[m + 2]
  <2>1. u \in Seq(Items) /\ Len(u) = n
    BY <1>2, <1>9 DEF Sorting
  <2>2. CASE m + 2 = n + 1
    BY <1>2, <2>1, <2>2, NodesFacts
  <2>3. CASE m + 2 # n + 1
    <3>1. m + 2 \in 1..n /\ Source(m, j, m + 2) = m + 2
      BY <1>4, <2>3 DEF Source
    <3>2. u[m + 2] = t[m + 2]
      BY <1>2, <1>8, <3>1 DEF Shifted
    <3> QED
      BY <1>2, <2>1, <3>1, <3>2, NodesFacts
  <2> QED
    BY <2>2, <2>3
<1>13. PICK w : w = m + 1
  OBVIOUS
<1>14. /\ w \in 1..Len(s) /\ w = (k + 1) + 1 /\ Sorting(s, u, v, w)
       /\ c.next[x] = Nodes(h, u)[w + 1]
  BY <1>2, <1>4, <1>9, <1>11, <1>12, <1>13
<1>15. Round(q, h, s, d, c.next[x], k + 1)
  BY <1>7, <1>8, <1>10, <1>14 DEF Round
<1> QED
  BY <1>6, <1>7, <1>11, <1>15

After(h, e) == IF e.x = h THEN e ELSE [q |-> Moved(e.q, h, e.x), x |-> e.q.next[e.x]]

LEMMA Rounds ==
    ASSUME NEW q \in Links, NEW h \in Heads, NEW s, Chain(q, h, s), s # <<>>,
           NEW n \in Nat, NEW f, f[0] = [q |-> q, x |-> q.next[q.next[h]]],
           \A k \in 1..n : f[k - 1] \in [q : Links, x : Memory] => f[k] = After(h, f[k - 1])
    PROVE  \A k \in 0..n : f[k] \in [q : Links, x : Memory] /\ Round(q, h, s, f[k].q, f[k].x, k)
<1> DEFINE S == {k \in Nat : k <= n => /\ f[k] \in [q : Links, x : Memory]
                                       /\ Round(q, h, s, f[k].q, f[k].x, k)}
<1>1. 0 \in S
  <2>1. f[0].q = q /\ f[0].x = q.next[q.next[h]]
    OBVIOUS
  <2>2. Round(q, h, s, f[0].q, f[0].x, 0) /\ q.next[q.next[h]] \in Memory
    BY <2>1, FirstRound
  <2> QED
    BY <2>2
<1>2. ASSUME NEW k \in Nat, k \in S PROVE k + 1 \in S
  <2> SUFFICES ASSUME k + 1 <= n
               PROVE  /\ f[k + 1] \in [q : Links, x : Memory]
                      /\ Round(q, h, s, f[k + 1].q, f[k + 1].x, k + 1)
    OBVIOUS
  <2>1. k + 1 \in 1..n /\ (k + 1) - 1 = k /\ k <= n
    OBVIOUS
  <2>2. f[k] \in [q : Links, x : Memory] /\ Round(q, h, s, f[k].q, f[k].x, k)
    BY <1>2, <2>1
  <2>3. f[k + 1] = After(h, f[k])
    BY <2>1, <2>2
  <2>4. PICK c \in Links, x \in Memory : f[k] = [q |-> c, x |-> x] /\ f[k].q = c /\ f[k].x = x
    BY <2>2
  <2>5. Round(q, h, s, c, x, k)
    BY <2>2, <2>4
  <2>6. CASE x = h
    <3>1. f[k + 1] = f[k]
      BY <2>3, <2>4, <2>6 DEF After
    <3>2. Round(q, h, s, c, x, k + 1)
      BY <2>5, <2>6, NoMoreRounds
    <3> QED
      BY <2>2, <2>4, <3>1, <3>2
  <2>7. CASE x # h
    <3>1. f[k + 1] = [q |-> Moved(c, h, x), x |-> c.next[x]]
      BY <2>3, <2>4, <2>7 DEF After
    <3>2. /\ Round(q, h, s, Moved(c, h, x), c.next[x], k + 1)
          /\ Moved(c, h, x) \in Links /\ c.next[x] \in Memory
      BY <2>5, <2>7, NextRound
    <3> QED
      BY <3>1, <3>2
  <2> QED
    BY <2>6, <2>7
<1> HIDE DEF S
<1>3. \A k \in Nat : k \in S
  BY <1>1, <1>2, EveryNumber
<1> QED
  BY <1>3 DEF S

\* The rounds of ngx_queue_sort exist, and come to an end.
LEMMA RoundsAre ==
    ASSUME NEW q \in Links, NEW h \in Heads, NEW s, Chain(q, h, s), s # <<>>,
           q.next[h] # q.prev[h], NEW p, p = ngx_queue_sort(q, h)
    PROVE  \E x : Round(q, h, s, p, x, Room)
<1> DEFINE first == [q |-> q, x |-> q.next[q.next[h]]]
           Body(f) == [k \in 0..Room |->
                         IF k = 0 THEN first
                         ELSE LET before == f[k - 1] IN
                              IF before.x = h THEN before
                              ELSE [q |-> Moved(before.q, h, before.x),
                                    x |-> before.q.next[before.x]]]
           round == CHOOSE f : f = Body(f)
           step == [e \in [q : Links, x : Memory] |-> After(h, e)]
<1>1. p = round[Room].q
  BY DEF ngx_queue_sort
<1>2. Room \in Nat
  BY ChainFits
<1>3. \A f : Body(f) = [k \in 0..Room |-> IF k = 0 THEN first ELSE After(h, f[k - 1])]
  BY DEF After
<1> HIDE DEF Body
<1>4. PICK g : Iterates(g, Room, first, step)
  BY <1>2, IterationExists
<1>5. /\ g = [k \in 0..Room |-> g[k]] /\ g[0] = first
      /\ \A k \in 1..Room : g[k] = step[g[k - 1]]
  BY <1>4 DEF Iterates
<1>6. \A k \in 1..Room : g[k - 1] \in [q : Links, x : Memory] => g[k] = After(h, g[k - 1])
  BY <1>5
<1>7. \A k \in 0..Room : g[k] \in [q : Links, x : Memory]
  BY <1>2, <1>5, <1>6, Rounds
<1>8. g = Body(g)
  <2>1. \A k \in 0..Room : g[k] = IF k = 0 THEN first ELSE After(h, g[k - 1])
    <3>1. \A k \in 0..Room : k = 0 \/ (k \in 1..Room /\ k - 1 \in 0..Room)
      BY <1>2
    <3> QED
      BY <1>5, <1>6, <1>7, <3>1
  <2> QED
    BY <1>3, <1>5, <2>1
<1>9. round = Body(round)
  BY <1>8
<1> HIDE DEF round
<1>10. round[0] = first /\ \A k \in 1..Room : round[k] = After(h, round[k - 1])
  <2>1. 0 \in 0..Room /\ \A k \in 1..Room : k \in 0..Room /\ k # 0
    BY <1>2
  <2>2. round = [k \in 0..Room |-> IF k = 0 THEN first ELSE After(h, round[k - 1])]
    BY <1>3, <1>9
  <2>3. \A k \in 0..Room : round[k] = IF k = 0 THEN first ELSE After(h, round[k - 1])
    BY <2>2
  <2> QED
    BY <2>1, <2>3
<1>11. Round(q, h, s, round[Room].q, round[Room].x, Room)
  <2>1. \A k \in 0..Room : Round(q, h, s, round[k].q, round[k].x, k)
    BY <1>2, <1>10, Rounds
  <2> QED
    BY <1>2, <2>1
<1> QED
  BY <1>1, <1>11

LEMMA ChainSort ==
    ASSUME NEW q \in Links, NEW h \in Heads, NEW s, Chain(q, h, s),
           NEW p, p = ngx_queue_sort(q, h)
    PROVE  /\ p \in Links /\ Chain(p, h, A!StableSort(s))
           /\ Keeps(q, p, Cells(h, s), Cells(h, s))
           /\ Cells(h, A!StableSort(s)) = Cells(h, s)
<1>1. PICK n \in Nat : n = Len(s) /\ s \in Seq(Items)
  BY ChainItems
<1>2. CASE q.next[h] = q.prev[h]
  <2>1. p = q
    BY <1>2 DEF ngx_queue_sort
  <2>2. /\ Edge(q, Nodes(h, s)[0], Nodes(h, s)[1]) /\ Edge(q, Nodes(h, s)[n], Nodes(h, s)[n + 1])
    <3>1. 0 \in 0..n /\ 0 + 1 = 1 /\ n \in 0..n
      OBVIOUS
    <3> QED
      BY <1>1, <3>1, ChainEdges
  <2>3. Nodes(h, s)[0] = h /\ Nodes(h, s)[n + 1] = h /\ \A i \in 1..n : Nodes(h, s)[i] = s[i]
    BY <1>1, NodesFacts
  <2>4. n \in 0..1
    <3> SUFFICES ASSUME n > 1 PROVE FALSE
      OBVIOUS
    <3>1. 1 \in 1..n /\ n \in 1..n /\ n # 1
      OBVIOUS
    <3>2. s[1] = s[n]
      BY <1>2, <2>2, <2>3, <3>1 DEF Edge
    <3> QED
      BY <1>1, <3>1, <3>2, ChainItems
  <2>5. PICK v : Sorting(s, s, v, n)
    BY <1>1, <2>4, SortingStarts
  <2>6. A!StableSort(s) = s
    BY <1>1, <2>5, SortedIsStable
  <2>7. Keeps(q, q, Cells(h, s), Cells(h, s))
    BY DEF Keeps
  <2> QED
    BY <2>1, <2>6, <2>7
<1>3. CASE q.next[h] # q.prev[h]
  <2>1. s # <<>>
    <3>1. ASSUME n = 0 PROVE FALSE
      <4>1. 0 \in 0..n /\ n + 1 = 1 /\ 0 + 1 = 1
        BY <3>1
      <4>2. Nodes(h, s)[0] = h /\ Nodes(h, s)[1] = h
        BY <1>1, <4>1, NodesFacts
      <4>3. Edge(q, h, h)
        BY <1>1, <4>1, <4>2, ChainEdges
      <4> QED
        BY <1>3, <4>3 DEF Edge
    <3> QED
      BY <1>1, <3>1, EmptySeq
  <2>2. PICK x : Round(q, h, s, p, x, Room)
    BY <1>3, <2>1, RoundsAre
  <2>3. PICK t, v, m : /\ m \in 1..Len(s) /\ (m = Len(s) \/ m = Room + 1)
                       /\ Sorting(s, t, v, m) /\ Chain(p, h, t) /\ p \in Links
                       /\ Keeps(q, p, Cells(h, s), Cells(h, s))
    BY <2>2 DEF Round
  <2>4. m = Len(s)
    BY <2>3, ChainFits
  <2>5. A!StableSort(s) = t
    BY <1>1, <2>3, <2>4, SortedIsStable
  <2>6. Cells(h, t) = Cells(h, s)
    BY <1>1, <2>3, SameCells
  <2> QED
    BY <2>3, <2>5, <2>6
<1> QED
  BY <1>2, <1>3

-----------------------------------------------------------------------------
(* All lists at once.                                                      *)

Represents(q, H, L) ==
    /\ q \in Links /\ H \in SUBSET Heads /\ L \in [Heads -> Seq(Items) \cup {NoList}]
    /\ \A h \in Heads \ H : L[h] = NoList
    /\ \A h \in H : Chain(q, h, L[h])
    /\ \A g, h \in H : g # h => Cells(g, L[g]) \cap Cells(h, L[h]) = {}

LEMMA NoListIsNone == NoList \notin Seq(Items)
<1> SUFFICES ASSUME NoList \in Seq(Items) PROVE FALSE
  OBVIOUS
<1>1. 1 \in 1..Len(NoList) /\ NoList[1] = Nowhere
  BY DEF NoList
<1>2. Nowhere \in Items
  BY <1>1, ElementOfSeq
<1> QED
  BY <1>2, QueueAssumption

LEMMA ItemsAreFound ==
    ASSUME NEW h, NEW s \in Seq(Items), NEW x, x \in Cells(h, s), x # h
    PROVE  \E i \in 1..Len(s) : s[i] = x
BY DEF Cells

LEMMA OtherHead ==
    ASSUME NEW g \in Heads, NEW h \in Heads, g # h, NEW s \in Seq(Items)
    PROVE  h \notin Cells(g, s)
<1>1. \A i \in 1..Len(s) : s[i] \in Items
  BY ElementOfSeq
<1> QED
  BY <1>1, QueueAssumption DEF Cells

\* Lists G are changed, which cuts edges in C only.
Changes(q, H, L, p, I, M, C, G) ==
    /\ p \in Links /\ Keeps(q, p, C, C)
    /\ I \in SUBSET Heads /\ M \in [Heads -> Seq(Items) \cup {NoList}]
    /\ \A h \in Heads \ I : M[h] = NoList
    /\ \A h \in I : h \notin G => h \in H /\ M[h] = L[h] /\ C \cap Cells(h, L[h]) = {}
    /\ \A h \in I : h \in G => Chain(p, h, M[h]) /\ Cells(h, M[h]) \subseteq C
    /\ \A g, h \in I : g \in G /\ h \in G /\ g # h => Cells(g, M[g]) \cap Cells(h, M[h]) = {}

LEMMA ChangeKeeps ==
    ASSUME NEW q, NEW H, NEW L, Represents(q, H, L),
           NEW p, NEW I, NEW M, NEW C, NEW G, Changes(q, H, L, p, I, M, C, G)
    PROVE  Represents(p, I, M)
<1> USE DEF Changes
<1>1. /\ \A h \in H : h \in Heads /\ Chain(q, h, L[h])
      /\ \A g, h \in H : g # h => Cells(g, L[g]) \cap Cells(h, L[h]) = {}
  BY DEF Represents
<1>2. ASSUME NEW h \in I PROVE Chain(p, h, M[h])
  <2>1. CASE h \in G
    BY <2>1
  <2>2. CASE h \notin G
    BY <1>1, <2>2, ChainStays
  <2> QED
    BY <2>1, <2>2
<1>3. ASSUME NEW g \in I, NEW h \in I, g # h PROVE Cells(g, M[g]) \cap Cells(h, M[h]) = {}
  <2>1. CASE g \in G /\ h \in G
    BY <1>3, <2>1
  <2>2. CASE g \in G /\ h \notin G
    <3>1. Cells(g, M[g]) \subseteq C /\ C \cap Cells(h, M[h]) = {}
      BY <2>2
    <3> QED
      BY <3>1
  <2>3. CASE g \notin G /\ h \in G
    <3>1. Cells(h, M[h]) \subseteq C /\ C \cap Cells(g, M[g]) = {}
      BY <2>3
    <3> QED
      BY <3>1
  <2>4. CASE g \notin G /\ h \notin G
    BY <1>1, <1>3, <2>4
  <2> QED
    BY <2>1, <2>2, <2>3, <2>4
<1> QED
  BY <1>2, <1>3 DEF Represents

\* The list of h becomes t.
LEMMA OneChanged ==
    ASSUME NEW q, NEW H, NEW L, Represents(q, H, L), NEW h \in Heads,
           NEW p \in Links, NEW C, Keeps(q, p, C, C),
           \A g \in H : g # h => C \cap Cells(g, L[g]) = {},
           NEW t, Chain(p, h, t), Cells(h, t) \subseteq C
    PROVE  Represents(p, H \cup {h}, [L EXCEPT ![h] = t])
<1> DEFINE M == [L EXCEPT ![h] = t]
<1>1. /\ H \in SUBSET Heads /\ L \in [Heads -> Seq(Items) \cup {NoList}]
      /\ \A g \in Heads \ H : L[g] = NoList
  BY DEF Represents
<1>2. t \in Seq(Items)
  BY DEF Chain
<1>3. M \in [Heads -> Seq(Items) \cup {NoList}] /\ M[h] = t /\ \A g \in Heads : g # h => M[g] = L[g]
  BY <1>1, <1>2
<1> HIDE DEF M
<1>4. PICK I : I = H \cup {h} /\ I \in SUBSET Heads
  <2>1. H \cup {h} \in SUBSET Heads
    BY <1>1
  <2> QED
    BY <2>1
<1>5. \A g \in Heads \ I : M[g] = NoList
  BY <1>1, <1>3, <1>4
<1>6. \A g \in I : g \notin {h} => g \in H /\ M[g] = L[g] /\ C \cap Cells(g, L[g]) = {}
  <2>1. ASSUME NEW g \in I, g # h
        PROVE  g \in H /\ M[g] = L[g] /\ C \cap Cells(g, L[g]) = {}
    <3>1. g \in H /\ g \in Heads
      BY <1>1, <1>4, <2>1
    <3> QED
      BY <1>3, <2>1, <3>1
  <2> QED
    BY <2>1
<1>7. \A g \in I : g \in {h} => Chain(p, g, M[g]) /\ Cells(g, M[g]) \subseteq C
  BY <1>3
<1>8. \A f, g \in I : f \in {h} /\ g \in {h} => f = g
  OBVIOUS
<1>9. Changes(q, H, L, p, I, M, C, {h})
  BY <1>3, <1>4, <1>5, <1>6, <1>7, <1>8 DEF Changes
<1>10. Represents(p, I, M)
  BY <1>9, ChangeKeeps
<1> QED
  BY <1>4, <1>10 DEF M

LEMMA Created ==
    ASSUME NEW q, NEW H, NEW L, Represents(q, H, L), NEW h \in Heads, h \notin H,
           NEW p, p = ngx_queue_init(q, h)
    PROVE  Represents(p, H \cup {h}, [L EXCEPT ![h] = <<>>])
<1>1. q \in Links /\ \A g \in H : g \in Heads /\ L[g] \in Seq(Items)
  BY DEF Represents, Chain
<1>2. p \in Links /\ Chain(p, h, <<>>) /\ Keeps(q, p, {h}, {h})
  BY <1>1, ChainInit
<1>3. \A g \in H : g # h => {h} \cap Cells(g, L[g]) = {}
  BY <1>1, OtherHead
<1>4. Cells(h, <<>>) \subseteq {h}
  BY EmptySeq DEF Cells
<1> QED
  BY <1>2, <1>3, <1>4, OneChanged

LEMMA PutIn ==
    ASSUME NEW q, NEW H, NEW L, Represents(q, H, L), NEW h \in H, NEW x \in Items,
           \A g \in H : x \notin Cells(g, L[g]),
           NEW s, s = L[h], NEW k \in 0..Len(s), NEW p,
           Inserted(q, p, Nodes(h, s)[k], x, Nodes(h, s)[k + 1]), NEW t, Grown(s, k, x, t)
    PROVE  Represents(p, H, [L EXCEPT ![h] = t])
<1>1. /\ h \in Heads /\ Chain(q, h, s) /\ \A i \in 1..Len(s) : s[i] # x
      /\ \A g \in H : g # h => Cells(h, s) \cap Cells(g, L[g]) = {}
  <2>1. h \in Heads /\ Chain(q, h, s)
    BY DEF Represents
  <2>2. x \notin Cells(h, s)
    OBVIOUS
  <2>3. \A i \in 1..Len(s) : s[i] # x
    BY <2>2 DEF Cells
  <2>4. \A g \in H : g # h => Cells(h, s) \cap Cells(g, L[g]) = {}
    BY DEF Represents
  <2> QED
    BY <2>1, <2>3, <2>4
<1>2. /\ p \in Links /\ Chain(p, h, t)
      /\ Keeps(q, p, Cells(h, s) \cup {x}, Cells(h, s) \cup {x})
  BY <1>1, ChainInsert
<1>3. PICK C : C = Cells(h, s) \cup {x}
  OBVIOUS
<1>4. \A g \in H : g # h => C \cap Cells(g, L[g]) = {}
  BY <1>1, <1>3
<1>5. Cells(h, t) \subseteq C
  <2>1. PICK n \in Nat : n = Len(s) /\ k \in 0..n
    BY <1>1, ChainItems
  <2>2. /\ Len(t) = n + 1 /\ t[k + 1] = x
        /\ \A i \in 1..k : t[i] = s[i]
        /\ \A i \in k + 2 .. n + 1 : t[i] = s[i - 1]
    BY <2>1 DEF Grown
  <2>3. ASSUME NEW i \in 1 .. n + 1 PROVE t[i] \in {s[j] : j \in 1..n} \cup {x}
    <3>1. i \in 1..k \/ i = k + 1 \/ i \in k + 2 .. n + 1
      BY <2>1
    <3>2. (i \in 1..k => i \in 1..n) /\ (i \in k + 2 .. n + 1 => i - 1 \in 1..n)
      BY <2>1
    <3> QED
      BY <2>2, <3>1, <3>2
  <2> QED
    BY <1>3, <2>1, <2>2, <2>3 DEF Cells
<1>6. Represents(p, H \cup {h}, [L EXCEPT ![h] = t])
  BY <1>1, <1>2, <1>3, <1>4, <1>5, OneChanged
<1>7. H \cup {h} = H
  OBVIOUS
<1> QED
  BY <1>6, <1>7

LEMMA AddedFirst ==
    ASSUME NEW q, NEW H, NEW L, Represents(q, H, L), NEW h \in H, NEW x \in Items,
           \A g \in H : x \notin Cells(g, L[g]),
           NEW p, p = ngx_queue_insert_head(q, h, x), NEW t, Grown(L[h], 0, x, t)
    PROVE  Represents(p, H, [L EXCEPT ![h] = t])
<1>1. PICK s : s = L[h]
  OBVIOUS
<1>2. q \in Links /\ h \in Heads /\ Chain(q, h, s) /\ s \in Seq(Items)
  BY <1>1 DEF Represents, Chain
<1>3. PICK n \in Nat : n = Len(s) /\ 0 \in 0..n /\ 0 + 1 = 1 /\ 1 \in 0 .. n + 1
  BY <1>2, ChainItems
<1>4. /\ Edge(q, h, Nodes(h, s)[1]) /\ Nodes(h, s)[1] \in Memory /\ Nodes(h, s)[0] = h
      /\ Nodes(h, s)[1] \in Cells(h, s) /\ h \in Cells(h, s)
  BY <1>2, <1>3, ChainEdges, NodesFacts DEF Cells
<1>5. x # h /\ x # Nodes(h, s)[1] /\ x \in Memory /\ h \in Memory
  BY <1>1, <1>2, <1>4 DEF Memory
<1>6. Inserted(q, p, h, x, Nodes(h, s)[1])
  BY <1>2, <1>4, <1>5, HeadEdges
<1>7. Inserted(q, p, Nodes(h, s)[0], x, Nodes(h, s)[0 + 1])
  BY <1>3, <1>4, <1>6
<1> QED
  BY <1>1, <1>3, <1>7, PutIn

LEMMA AddedLast ==
    ASSUME NEW q, NEW H, NEW L, Represents(q, H, L), NEW h \in H, NEW x \in Items,
           \A g \in H : x \notin Cells(g, L[g]),
           NEW p, p = ngx_queue_insert_tail(q, h, x), NEW t, Grown(L[h], Len(L[h]), x, t)
    PROVE  Represents(p, H, [L EXCEPT ![h] = t])
<1>1. PICK s : s = L[h]
  OBVIOUS
<1>2. q \in Links /\ h \in Heads /\ Chain(q, h, s) /\ s \in Seq(Items)
  BY <1>1 DEF Represents, Chain
<1>3. PICK n \in Nat : n = Len(s) /\ n \in 0..n /\ n \in 0 .. n + 1
  BY <1>2, ChainItems
<1>4. PICK a : a = Nodes(h, s)[n]
  OBVIOUS
<1>5. /\ Edge(q, a, h) /\ a \in Memory /\ Nodes(h, s)[n + 1] = h
      /\ a \in Cells(h, s) /\ h \in Cells(h, s)
  BY <1>2, <1>3, <1>4, ChainEdges, NodesFacts DEF Cells
<1>6. x # h /\ x # a /\ x \in Memory /\ h \in Memory
  BY <1>1, <1>2, <1>5 DEF Memory
<1>7. Inserted(q, p, a, x, h)
  BY <1>2, <1>5, <1>6, TailEdges
<1>8. Inserted(q, p, Nodes(h, s)[n], x, Nodes(h, s)[n + 1])
  BY <1>4, <1>5, <1>7
<1> QED
  BY <1>1, <1>3, <1>8, PutIn

LEMMA TakenOut ==
    ASSUME NEW q, NEW H, NEW L, Represents(q, H, L), NEW h \in H,
           NEW s, s = L[h], NEW k \in 1..Len(s), NEW x, x = s[k], NEW t, Shrunk(s, k, t), NEW p,
           p = [ngx_queue_remove(q, x) EXCEPT !.prev[x] = Nowhere, !.next[x] = Nowhere]
    PROVE  Represents(p, H, [L EXCEPT ![h] = t])
<1>1. /\ q \in Links /\ h \in Heads /\ Chain(q, h, s) /\ s \in Seq(Items)
      /\ \A g \in H : g # h => Cells(h, s) \cap Cells(g, L[g]) = {}
  BY DEF Represents, Chain
<1>2. PICK n \in Nat : n = Len(s) /\ k \in 1..n
  BY <1>1, ChainItems
<1>3. /\ \A i \in 1..n : s[i] \in Items /\ s[i] # h
      /\ \A i, j \in 1..n : s[i] = s[j] => i = j
  BY <1>1, <1>2, ChainItems
<1>4. x \in Memory
  BY <1>2, <1>3 DEF Memory
<1>5. PICK q1 : q1 = ngx_queue_remove(q, x)
  OBVIOUS
<1>6. q1 \in Links /\ Chain(q1, h, t) /\ Keeps(q, q1, Cells(h, s), Cells(h, s))
  BY <1>1, <1>5, ChainRemove
<1>7. p = [q1 EXCEPT !.prev[x] = Nowhere, !.next[x] = Nowhere]
  BY <1>5
<1>8. p \in Links /\ Keeps(q1, p, {x}, {x})
  BY <1>4, <1>6, <1>7, ForgetEdges
<1>9. /\ Len(t) = n - 1
      /\ \A i \in 1 .. k - 1 : t[i] = s[i]
      /\ \A i \in k .. n - 1 : t[i] = s[i + 1]
  BY <1>2 DEF Shrunk
<1>10. \A i \in 1 .. n - 1 : \E j \in 1..n : j # k /\ t[i] = s[j]
  <2>1. ASSUME NEW i \in 1 .. n - 1 PROVE \E j \in 1..n : j # k /\ t[i] = s[j]
    <3>1. CASE i < k
      <4>1. i \in 1 .. k - 1 /\ i \in 1..n /\ i # k
        BY <1>2, <3>1
      <4> QED
        BY <1>9, <4>1
    <3>2. CASE ~(i < k)
      <4>1. i \in k .. n - 1 /\ i + 1 \in 1..n /\ i + 1 # k
        BY <1>2, <3>2
      <4> QED
        BY <1>9, <4>1
    <3> QED
      BY <3>1, <3>2
  <2> QED
    BY <2>1
<1>11. Cells(h, t) \subseteq Cells(h, s) /\ {x} \cap Cells(h, t) = {} /\ {x} \subseteq Cells(h, s)
  <2>1. ASSUME NEW i \in 1 .. n - 1 PROVE t[i] \in {s[j] : j \in 1..n} /\ t[i] # x
    BY <1>2, <1>3, <1>4, <1>10
  <2>2. x # h
    BY <1>2, <1>3, <1>4
  <2>3. Cells(h, t) = {h} \cup {t[i] : i \in 1 .. n - 1}
    BY <1>9 DEF Cells
  <2>4. Cells(h, s) = {h} \cup {s[i] : i \in 1..n}
    BY <1>2 DEF Cells
  <2> QED
    BY <1>2, <2>1, <2>2, <2>3, <2>4
<1>12. Chain(p, h, t)
  BY <1>1, <1>6, <1>8, <1>11, ChainStays
<1>13. Keeps(q, p, Cells(h, s), Cells(h, s))
  <2>1. Keeps(q1, p, Cells(h, s), Cells(h, s))
    BY <1>8, <1>11, KeepsMore
  <2> QED
    BY <1>6, <2>1, KeepsTwice
<1>14. Represents(p, H \cup {h}, [L EXCEPT ![h] = t])
  BY <1>1, <1>8, <1>11, <1>12, <1>13, OneChanged
<1>15. H \cup {h} = H
  OBVIOUS
<1> QED
  BY <1>14, <1>15

LEMMA SortedIn ==
    ASSUME NEW q, NEW H, NEW L, Represents(q, H, L), NEW h \in H,
           NEW p, p = ngx_queue_sort(q, h)
    PROVE  Represents(p, H, [L EXCEPT ![h] = A!StableSort(L[h])])
<1>1. PICK s : s = L[h]
  OBVIOUS
<1>2. /\ q \in Links /\ h \in Heads /\ Chain(q, h, s)
      /\ \A g \in H : g # h => Cells(h, s) \cap Cells(g, L[g]) = {}
  BY <1>1 DEF Represents
<1>3. PICK t : t = A!StableSort(s)
  OBVIOUS
<1>4. /\ p \in Links /\ Chain(p, h, t) /\ Keeps(q, p, Cells(h, s), Cells(h, s))
      /\ Cells(h, t) = Cells(h, s)
  BY <1>2, <1>3, ChainSort
<1>5. Represents(p, H \cup {h}, [L EXCEPT ![h] = t])
  BY <1>2, <1>4, OneChanged
<1>6. H \cup {h} = H
  OBVIOUS
<1> QED
  BY <1>1, <1>3, <1>5, <1>6

LEMMA SplitOff ==
    ASSUME NEW q, NEW H, NEW L, Represents(q, H, L), NEW h \in H, NEW y \in Heads, y \notin H,
           NEW s, s = L[h], NEW k \in 1..Len(s), NEW p, p = ngx_queue_split(q, h, s[k], y),
           NEW t, NEW r, CutAt(s, k, t, r)
    PROVE  Represents(p, H \cup {y}, [L EXCEPT ![h] = t, ![y] = r])
<1>1. /\ q \in Links /\ h \in Heads /\ Chain(q, h, s) /\ y # h
      /\ H \in SUBSET Heads /\ L \in [Heads -> Seq(Items) \cup {NoList}]
      /\ \A g \in Heads \ H : L[g] = NoList
      /\ \A g \in H : L[g] \in Seq(Items)
      /\ \A g \in H : g # h => Cells(h, s) \cap Cells(g, L[g]) = {}
  BY DEF Represents, Chain
<1>2. PICK n \in Nat : n = Len(s) /\ k \in 1..n /\ s \in Seq(Items)
  BY <1>1, ChainItems
<1>3. /\ \A i \in 1..n : s[i] \in Items
      /\ \A i, j \in 1..n : s[i] = s[j] => i = j
  BY <1>1, <1>2, ChainItems
<1>4. PICK C : C = Cells(h, s) \cup {y}
  OBVIOUS
<1>5. p \in Links /\ Chain(p, h, t) /\ Chain(p, y, r) /\ Keeps(q, p, C, C)
  BY <1>1, <1>4, ChainSplit
<1>6. /\ t \in Seq(Items) /\ Len(t) = k - 1 /\ \A i \in 1 .. k - 1 : t[i] = s[i]
      /\ r \in Seq(Items) /\ Len(r) = n - k + 1
      /\ \A i \in 1 .. n - k + 1 : r[i] = s[k + i - 1]
  BY <1>2 DEF CutAt
<1> DEFINE M == [L EXCEPT ![h] = t, ![y] = r]
<1>7. /\ M \in [Heads -> Seq(Items) \cup {NoList}] /\ M[h] = t /\ M[y] = r
      /\ \A g \in Heads : g # h /\ g # y => M[g] = L[g]
  BY <1>1, <1>6
<1> HIDE DEF M
<1>8. /\ \A i \in 1 .. k - 1 : i \in 1..n
      /\ \A i \in 1 .. n - k + 1 : k + i - 1 \in 1..n /\ k + i - 1 >= k
  BY <1>2
<1>9. Cells(h, t) \subseteq C /\ Cells(y, r) \subseteq C
  <2>1. ASSUME NEW i \in 1 .. k - 1 PROVE t[i] \in {s[j] : j \in 1..n}
    BY <1>6, <1>8
  <2>2. ASSUME NEW i \in 1 .. n - k + 1 PROVE r[i] \in {s[j] : j \in 1..n}
    BY <1>6, <1>8
  <2>3. Cells(h, t) = {h} \cup {t[i] : i \in 1 .. k - 1}
    BY <1>6 DEF Cells
  <2>4. Cells(y, r) = {y} \cup {r[i] : i \in 1 .. n - k + 1}
    BY <1>6 DEF Cells
  <2>5. {h, y} \subseteq C /\ \A z \in {s[i] : i \in 1..n} : z \in C
    BY <1>2, <1>4 DEF Cells
  <2>6. \A i \in 1 .. k - 1 : t[i] \in C
    BY <2>1, <2>5
  <2>7. \A i \in 1 .. n - k + 1 : r[i] \in C
    BY <2>2, <2>5
  <2>8. Cells(h, t) \subseteq C
    BY <2>3, <2>5, <2>6
  <2>9. Cells(y, r) \subseteq C
    BY <2>4, <2>5, <2>7
  <2> QED
    BY <2>8, <2>9
<1>10. Cells(h, t) \cap Cells(y, r) = {}
  <2>1. y \notin Cells(h, t) /\ h \notin Cells(y, r)
    BY <1>1, <1>6, OtherHead
  <2>2. ASSUME NEW i \in 1 .. k - 1, NEW j \in 1 .. n - k + 1, t[i] = r[j] PROVE FALSE
    <3>1. PICK l \in 1..n : l = k + j - 1 /\ l >= k
      BY <1>8
    <3>2. i \in 1..n /\ i # l
      BY <1>2, <3>1
    <3>3. s[i] = s[l]
      BY <1>6, <2>2, <3>1
    <3> QED
      BY <1>3, <3>2, <3>3
  <2>3. Cells(h, t) = {h} \cup {t[i] : i \in 1 .. k - 1}
    BY <1>6 DEF Cells
  <2>4. Cells(y, r) = {y} \cup {r[i] : i \in 1 .. n - k + 1}
    BY <1>6 DEF Cells
  <2>5. ASSUME NEW c \in Cells(h, t), c \in Cells(y, r) PROVE FALSE
    <3>1. c # h /\ c # y
      BY <2>1, <2>5
    <3>2. PICK i \in 1 .. k - 1 : c = t[i]
      BY <2>3, <3>1
    <3>3. PICK j \in 1 .. n - k + 1 : c = r[j]
      BY <2>4, <2>5, <3>1
    <3> QED
      BY <2>2, <3>2, <3>3
  <2> QED
    BY <2>5
<1>11. PICK I : I = H \cup {y} /\ I \in SUBSET Heads
  <2>1. H \cup {y} \in SUBSET Heads
    BY <1>1
  <2> QED
    BY <2>1
<1>12. \A g \in I : g \notin {h, y} => g \in H /\ M[g] = L[g] /\ C \cap Cells(g, L[g]) = {}
  <2>1. ASSUME NEW g \in I, g # h, g # y
        PROVE  g \in H /\ M[g] = L[g] /\ C \cap Cells(g, L[g]) = {}
    <3>1. g \in H /\ g \in Heads /\ L[g] \in Seq(Items)
      BY <1>1, <1>11, <2>1
    <3>2. y \notin Cells(g, L[g])
      BY <2>1, <3>1, OtherHead
    <3> QED
      BY <1>1, <1>4, <1>7, <2>1, <3>1, <3>2
  <2> QED
    BY <2>1
<1>13. \A g \in I : g \in {h, y} => Chain(p, g, M[g]) /\ Cells(g, M[g]) \subseteq C
  BY <1>5, <1>7, <1>9
<1>14. \A f, g \in I : f \in {h, y} /\ g \in {h, y} /\ f # g => Cells(f, M[f]) \cap Cells(g, M[g]) = {}
  <2>1. Cells(y, r) \cap Cells(h, t) = {}
    BY <1>10
  <2> QED
    BY <1>7, <1>10, <2>1
<1>15. \A g \in Heads \ I : M[g] = NoList
  BY <1>1, <1>7, <1>11
<1>16. Changes(q, H, L, p, I, M, C, {h, y})
  BY <1>5, <1>7, <1>11, <1>12, <1>13, <1>14, <1>15 DEF Changes
<1> QED
  BY <1>11, <1>16, ChangeKeeps DEF M

LEMMA MergedIn ==
    ASSUME NEW q, NEW H, NEW L, Represents(q, H, L), NEW h \in H, NEW y \in H, y # h,
           NEW p, p = ngx_queue_add(q, h, y), NEW t, Concatenated(L[h], L[y], t)
    PROVE  Represents(p, H \ {y}, [L EXCEPT ![h] = t, ![y] = NoList])
<1>1. PICK s, r : s = L[h] /\ r = L[y]
  OBVIOUS
<1>2. /\ q \in Links /\ h \in Heads /\ y \in Heads /\ Chain(q, h, s) /\ Chain(q, y, r)
      /\ H \in SUBSET Heads /\ L \in [Heads -> Seq(Items) \cup {NoList}]
      /\ \A g \in Heads \ H : L[g] = NoList
      /\ Cells(h, s) \cap Cells(y, r) = {}
      /\ \A g \in H : g # h => Cells(h, s) \cap Cells(g, L[g]) = {}
      /\ \A g \in H : g # y => Cells(y, r) \cap Cells(g, L[g]) = {}
  BY <1>1 DEF Represents
<1>3. PICK C : C = Cells(h, s) \cup Cells(y, r)
  OBVIOUS
<1>4. p \in Links /\ Chain(p, h, t) /\ Keeps(q, p, C, C)
  BY <1>1, <1>2, <1>3, ChainJoin
<1>5. PICK n \in Nat, m \in Nat : n = Len(s) /\ m = Len(r)
  BY <1>2, ChainItems
<1>6. /\ t \in Seq(Items) /\ Len(t) = n + m
      /\ \A i \in 1..n : t[i] = s[i]
      /\ \A i \in 1..m : t[n + i] = r[i]
  BY <1>1, <1>5 DEF Concatenated
<1>7. Cells(h, t) \subseteq C
  <2>1. ASSUME NEW i \in 1 .. n + m PROVE t[i] \in {s[j] : j \in 1..n} \cup {r[j] : j \in 1..m}
    <3>1. CASE i <= n
      BY <1>6, <3>1
    <3>2. CASE ~(i <= n)
      <4>1. PICK j \in 1..m : n + j = i
        <5>1. i - n \in 1..m /\ n + (i - n) = i
          BY <3>2
        <5> QED
          BY <5>1
      <4> QED
        BY <1>6, <4>1
    <3> QED
      BY <3>1, <3>2
  <2>2. h \in C /\ \A z \in {s[j] : j \in 1..n} \cup {r[j] : j \in 1..m} : z \in C
    BY <1>3, <1>5 DEF Cells
  <2>3. Cells(h, t) = {h} \cup {t[i] : i \in 1 .. n + m}
    BY <1>6 DEF Cells
  <2>4. \A i \in 1 .. n + m : t[i] \in C
    BY <2>1, <2>2
  <2> QED
    BY <2>2, <2>3, <2>4
<1> DEFINE M == [L EXCEPT ![h] = t, ![y] = NoList]
<1>8. /\ M \in [Heads -> Seq(Items) \cup {NoList}] /\ M[h] = t /\ M[y] = NoList
      /\ \A g \in Heads : g # h /\ g # y => M[g] = L[g]
  BY <1>2, <1>6
<1> HIDE DEF M
<1>9. PICK I : I = H \ {y} /\ I \in SUBSET Heads
  <2>1. H \ {y} \in SUBSET Heads
    BY <1>2
  <2> QED
    BY <2>1
<1>10. \A g \in I : g \notin {h} => g \in H /\ M[g] = L[g] /\ C \cap Cells(g, L[g]) = {}
  <2>1. ASSUME NEW g \in I, g # h
        PROVE  g \in H /\ M[g] = L[g] /\ C \cap Cells(g, L[g]) = {}
    <3>1. g \in H /\ g \in Heads /\ g # y
      BY <1>9
    <3>2. Cells(h, s) \cap Cells(g, L[g]) = {} /\ Cells(y, r) \cap Cells(g, L[g]) = {}
      BY <1>2, <2>1, <3>1
    <3> QED
      BY <1>3, <1>8, <2>1, <3>1, <3>2
  <2> QED
    BY <2>1
<1>11. \A g \in I : g \in {h} => Chain(p, g, M[g]) /\ Cells(g, M[g]) \subseteq C
  BY <1>4, <1>7, <1>8
<1>12. \A f, g \in I : f \in {h} /\ g \in {h} => f = g
  OBVIOUS
<1>13. \A g \in Heads \ I : M[g] = NoList
  BY <1>2, <1>8, <1>9
<1>14. Changes(q, H, L, p, I, M, C, {h})
  BY <1>4, <1>8, <1>9, <1>10, <1>11, <1>12, <1>13 DEF Changes
<1> QED
  BY <1>9, <1>14, ChangeKeeps DEF M

-----------------------------------------------------------------------------
(* The steps.                                                              *)

IInv == \E L : Represents(links, heads, L)

\* What ListOf makes of any links and heads.
Reads(q, H, h) == IF h \in H /\ Ring(q.prev, h) = Reverse(Ring(q.next, h))
                  THEN Ring(q.next, h) ELSE NoList

LEMMA ReadsIs ==
    ASSUME NEW q, NEW H, NEW L, Represents(q, H, L)
    PROVE  [h \in Heads |-> Reads(q, H, h)] = L
<1>1. /\ L \in [Heads -> Seq(Items) \cup {NoList}] /\ \A h \in Heads \ H : L[h] = NoList
      /\ \A h \in H : h \in Heads /\ Chain(q, h, L[h])
  BY DEF Represents
<1>2. ASSUME NEW h \in Heads PROVE Reads(q, H, h) = L[h]
  <2>1. CASE h \in H
    <3>1. PICK s : s = L[h]
      OBVIOUS
    <3>2. Ring(q.next, h) = s /\ Ring(q.prev, h) = Reverse(s)
      BY <1>1, <2>1, <3>1, ChainIsRead
    <3> QED
      BY <2>1, <3>1, <3>2 DEF Reads
  <2>2. CASE h \notin H
    BY <1>1, <2>2 DEF Reads
  <2> QED
    BY <2>1, <2>2
<1> QED
  BY <1>1, <1>2

LEMMA ReadNow ==
    ASSUME NEW L, Represents(links, heads, L)
    PROVE  [h \in Heads |-> ListOf(h)] = L
<1>1. \A h \in Heads : ListOf(h) = Reads(links, heads, h)
  BY DEF ListOf, Reads, Forth, Back
<1>2. [h \in Heads |-> Reads(links, heads, h)] = L
  BY ReadsIs
<1> QED
  BY <1>1, <1>2

LEMMA ReadNext ==
    ASSUME NEW L, Represents(links', heads', L)
    PROVE  [h \in Heads |-> ListOf(h)]' = L
<1>1. \A h \in Heads : ListOf(h)' = Reads(links', heads', h)
  BY DEF ListOf, Reads, Forth, Back
<1>2. [h \in Heads |-> Reads(links', heads', h)] = L
  BY ReadsIs
<1> QED
  BY <1>1, <1>2

LEMMA ItemsRead ==
    ASSUME NEW L, Represents(links, heads, L)
    PROVE  /\ \A h \in heads : /\ h \in Heads /\ L[h] \in Seq(Items) /\ Forth(h) = L[h]
                               /\ \A x \in ItemsOf(h) : \E k \in 1..Len(L[h]) : L[h][k] = x
           /\ \A x \in Items : ~Linked(x) => \A g \in heads : x \notin Cells(g, L[g])
<1>1. ASSUME NEW h \in heads
      PROVE  /\ h \in Heads /\ L[h] \in Seq(Items) /\ Forth(h) = L[h]
             /\ ItemsOf(h) = {L[h][k] : k \in 1..Len(L[h])}
  <2>1. h \in Heads /\ Chain(links, h, L[h]) /\ L[h] \in Seq(Items)
    BY DEF Represents, Chain
  <2>2. PICK s \in Seq(Items) : s = L[h]
    BY <2>1
  <2>3. Forth(h) = s
    BY <2>1, <2>2, ChainIsRead DEF Forth
  <2>4. DOMAIN s = 1..Len(s) /\ \A k \in 1..Len(s) : s[k] \in Items
    BY LenProperties, ElementOfSeq
  <2>5. ItemsOf(h) = {s[k] : k \in 1..Len(s)}
    BY <2>3, <2>4 DEF ItemsOf, ToSet
  <2> QED
    BY <2>1, <2>2, <2>3, <2>5
<1>2. ASSUME NEW x \in Items, ~Linked(x), NEW g \in heads PROVE x \notin Cells(g, L[g])
  <2>1. x # g
    BY <1>1, QueueAssumption
  <2>2. x \notin ItemsOf(g)
    BY <1>2 DEF Linked
  <2> QED
    BY <1>1, <2>1, <2>2 DEF Cells
<1> QED
  BY <1>1, <1>2

LEMMA CreateSteps ==
    ASSUME NEW L, Represents(links, heads, L), NEW h \in Heads, Create(h)
    PROVE  IInv' /\ A!Next
<1>1. h \notin heads /\ heads' = heads \cup {h} /\ links' = ngx_queue_init(links, h)
  BY DEF Create
<1>2. PICK M : M = [L EXCEPT ![h] = <<>>]
  OBVIOUS
<1>3. Represents(links', heads', M)
  BY <1>1, <1>2, Created
<1>4. L[h] = NoList
  BY <1>1 DEF Represents
<1>5. [g \in Heads |-> ListOf(g)] = L /\ [g \in Heads |-> ListOf(g)]' = M
  BY <1>3, ReadNow, ReadNext
<1>6. A!Start(h)
  BY <1>2, <1>4, <1>5 DEF A!Start
<1> QED
  BY <1>3, <1>6 DEF IInv, A!Next

LEMMA ListsAreHeads ==
    ASSUME NEW L, Represents(links, heads, L)
    PROVE  A!Lists = heads
<1>1. /\ heads \in SUBSET Heads /\ \A h \in Heads \ heads : L[h] = NoList
      /\ \A h \in heads : L[h] \in Seq(Items)
  BY DEF Represents, Chain
<1>2. [h \in Heads |-> ListOf(h)] = L
  BY ReadNow
<1>3. A!Lists = {h \in Heads : L[h] # NoList}
  BY <1>2 DEF A!Lists
<1> QED
  BY <1>1, <1>3, NoListIsNone

LEMMA FreeIsFree ==
    ASSUME NEW L, Represents(links, heads, L), NEW x \in Items, ~Linked(x)
    PROVE  A!Free(x)
<1>1. [h \in Heads |-> ListOf(h)] = L
  BY ReadNow
<1>2. /\ \A h \in heads : L[h] \in Seq(Items)
      /\ \A h \in heads : x \notin Cells(h, L[h])
  BY ItemsRead
<1>3. ASSUME NEW h \in heads PROVE x \notin A!ToSet(L[h])
  <2>1. PICK s \in Seq(Items) : s = L[h]
    BY <1>2
  <2>2. \A k \in 1..Len(s) : s[k] # x
    BY <1>2, <2>1 DEF Cells
  <2>3. DOMAIN s = 1..Len(s)
    BY LenProperties
  <2> QED
    BY <2>1, <2>2, <2>3 DEF A!ToSet
<1>4. A!Lists = heads
  BY ListsAreHeads
<1> QED
  BY <1>1, <1>3, <1>4 DEF A!Free

LEMMA GrownFirst ==
    ASSUME NEW s \in Seq(Items), NEW x \in Items
    PROVE  Grown(s, 0, x, <<x>> \o s)
<1>1. PICK n \in Nat : n = Len(s)
  BY LenProperties
<1>2. <<x>> \in Seq(Items) /\ Len(<<x>>) = 1 /\ <<x>>[1] = x
  OBVIOUS
<1>3. PICK t : t = <<x>> \o s
  OBVIOUS
<1>4. /\ t \in Seq(Items) /\ Len(t) = 1 + n
      /\ \A i \in 1 .. 1 + n : t[i] = IF i <= 1 THEN <<x>>[i] ELSE s[i - 1]
  BY <1>1, <1>2, <1>3, ConcatProperties
<1>5. /\ Len(t) = n + 1 /\ t[0 + 1] = x
      /\ \A i \in 1..0 : t[i] = s[i]
      /\ \A i \in 0 + 2 .. n + 1 : t[i] = s[i - 1]
  BY <1>2, <1>4
<1> QED
  BY <1>1, <1>3, <1>4, <1>5 DEF Grown

LEMMA GrownLast ==
    ASSUME NEW s \in Seq(Items), NEW x \in Items
    PROVE  Grown(s, Len(s), x, Append(s, x))
<1>1. PICK n \in Nat : n = Len(s)
  BY LenProperties
<1>2. PICK t : t = Append(s, x)
  OBVIOUS
<1>3. /\ t \in Seq(Items) /\ Len(t) = n + 1 /\ t[n + 1] = x
      /\ \A i \in 1..n : t[i] = s[i]
  BY <1>1, <1>2
<1>4. \A i \in n + 2 .. n + 1 : t[i] = s[i - 1]
  OBVIOUS
<1> QED
  BY <1>1, <1>2, <1>3, <1>4 DEF Grown

LEMMA CutIs ==
    ASSUME NEW s \in Seq(Items), NEW k \in 1..Len(s)
    PROVE  CutAt(s, k, SubSeq(s, 1, k - 1), SubSeq(s, k, Len(s)))
<1>1. PICK n \in Nat : n = Len(s) /\ k \in 1..n /\ \A i \in 1..n : s[i] \in Items
  BY LenProperties, ElementOfSeq
<1>2. PICK t, r : t = SubSeq(s, 1, k - 1) /\ r = SubSeq(s, k, n)
  OBVIOUS
<1>3. /\ t \in Seq(Items) /\ Len(t) = k - 1
      /\ \A i \in 1 .. k - 1 : t[i] = s[i]
  BY <1>1, <1>2
<1>4. /\ r \in Seq(Items) /\ Len(r) = n - k + 1
      /\ \A i \in 1 .. n - k + 1 : r[i] = s[k + i - 1]
  BY <1>1, <1>2
<1> QED
  BY <1>1, <1>2, <1>3, <1>4 DEF CutAt

LEMMA ShrunkIs ==
    ASSUME NEW s \in Seq(Items), NEW k \in 1..Len(s)
    PROVE  Shrunk(s, k, A!RemoveAt(s, k))
<1>1. PICK n \in Nat : n = Len(s) /\ k \in 1..n /\ \A i \in 1..n : s[i] \in Items
  BY LenProperties, ElementOfSeq
<1>2. PICK t, r : t = SubSeq(s, 1, k - 1) /\ r = SubSeq(s, k + 1, n)
  OBVIOUS
<1>3. /\ t \in Seq(Items) /\ Len(t) = k - 1
      /\ \A i \in 1 .. k - 1 : t[i] = s[i]
  BY <1>1, <1>2
<1>4. /\ r \in Seq(Items) /\ Len(r) = n - k
      /\ \A i \in 1 .. n - k : r[i] = s[k + i]
  BY <1>1, <1>2
<1>5. PICK u : u = t \o r
  OBVIOUS
<1>6. /\ u \in Seq(Items) /\ Len(u) = (k - 1) + (n - k)
      /\ \A i \in 1 .. (k - 1) + (n - k) : u[i] = IF i <= k - 1 THEN t[i] ELSE r[i - (k - 1)]
  <2>1. PICK a \in Nat, b \in Nat : a = k - 1 /\ b = n - k
    <3>1. k - 1 \in Nat /\ n - k \in Nat
      BY <1>1
    <3> QED
      BY <3>1
  <2>2. Len(t) = a /\ Len(r) = b
    BY <1>3, <1>4, <2>1
  <2>3. t \in Seq(Items) /\ r \in Seq(Items)
    BY <1>3, <1>4
  <2>4. /\ t \o r \in Seq(Items) /\ Len(t \o r) = Len(t) + Len(r)
        /\ \A i \in 1 .. Len(t) + Len(r) :
              (t \o r)[i] = IF i <= Len(t) THEN t[i] ELSE r[i - Len(t)]
    BY <2>3, ConcatProperties
  <2>5. /\ u \in Seq(Items) /\ Len(u) = a + b
        /\ \A i \in 1 .. a + b : u[i] = IF i <= a THEN t[i] ELSE r[i - a]
    BY <1>5, <2>2, <2>4
  <2> QED
    BY <2>1, <2>5
<1>7. A!RemoveAt(s, k) = u
  BY <1>1, <1>2, <1>5 DEF A!RemoveAt
<1>8. Len(u) = n - 1 /\ \A i \in 1 .. k - 1 : u[i] = s[i]
  BY <1>1, <1>3, <1>6
<1>9. ASSUME NEW i \in k .. n - 1 PROVE u[i] = s[i + 1]
  <2>1. /\ i \in 1 .. (k - 1) + (n - k) /\ ~(i <= k - 1) /\ i - (k - 1) \in 1 .. n - k
        /\ k + (i - (k - 1)) = i + 1
    BY <1>1
  <2>2. u[i] = r[i - (k - 1)]
    BY <1>6, <2>1
  <2> QED
    BY <1>4, <2>1, <2>2
<1> QED
  BY <1>1, <1>6, <1>7, <1>8, <1>9 DEF Shrunk

LEMMA ConcatenatedIs ==
    ASSUME NEW s \in Seq(Items), NEW r \in Seq(Items)
    PROVE  Concatenated(s, r, s \o r)
<1>1. PICK n \in Nat, m \in Nat : n = Len(s) /\ m = Len(r)
  BY LenProperties
<1>2. PICK t : t = s \o r
  OBVIOUS
<1>3. /\ t \in Seq(Items) /\ Len(t) = n + m
      /\ \A i \in 1 .. n + m : t[i] = IF i <= n THEN s[i] ELSE r[i - n]
  BY <1>1, <1>2, ConcatProperties
<1>4. \A i \in 1..n : t[i] = s[i]
  BY <1>3
<1>5. ASSUME NEW i \in 1..m PROVE t[n + i] = r[i]
  <2>1. n + i \in 1 .. n + m /\ ~(n + i <= n) /\ (n + i) - n = i
    OBVIOUS
  <2> QED
    BY <1>3, <2>1
<1> QED
  BY <1>1, <1>2, <1>3, <1>4, <1>5 DEF Concatenated

LEMMA AddFirstSteps ==
    ASSUME NEW L, Represents(links, heads, L), NEW h \in heads, NEW x \in Items, AddFirst(h, x)
    PROVE  IInv' /\ A!Next
<1>1. ~Linked(x) /\ links' = ngx_queue_insert_head(links, h, x) /\ heads' = heads
  BY DEF AddFirst
<1>2. /\ L[h] \in Seq(Items) /\ \A g \in heads : x \notin Cells(g, L[g])
  BY <1>1, ItemsRead
<1>3. PICK t : t = <<x>> \o L[h]
  OBVIOUS
<1>4. Grown(L[h], 0, x, t)
  BY <1>2, <1>3, GrownFirst
<1>5. PICK M : M = [L EXCEPT ![h] = t]
  OBVIOUS
<1>6. Represents(links', heads', M)
  BY <1>1, <1>2, <1>4, <1>5, AddedFirst
<1>7. [g \in Heads |-> ListOf(g)] = L /\ [g \in Heads |-> ListOf(g)]' = M
  BY <1>6, ReadNow, ReadNext
<1>8. M = [L EXCEPT ![h] = <<x>> \o @]
  BY <1>3, <1>5
<1>9. A!PutFirst(h, x)
  BY <1>1, <1>7, <1>8, FreeIsFree DEF A!PutFirst
<1>10. h \in A!Lists
  BY ListsAreHeads
<1> QED
  BY <1>6, <1>9, <1>10 DEF IInv, A!Next

LEMMA AddLastSteps ==
    ASSUME NEW L, Represents(links, heads, L), NEW h \in heads, NEW x \in Items, AddLast(h, x)
    PROVE  IInv' /\ A!Next
<1>1. ~Linked(x) /\ links' = ngx_queue_insert_tail(links, h, x) /\ heads' = heads
  BY DEF AddLast
<1>2. /\ L[h] \in Seq(Items) /\ \A g \in heads : x \notin Cells(g, L[g])
  BY <1>1, ItemsRead
<1>3. PICK t : t = Append(L[h], x)
  OBVIOUS
<1>4. Grown(L[h], Len(L[h]), x, t)
  BY <1>2, <1>3, GrownLast
<1>5. PICK M : M = [L EXCEPT ![h] = t]
  OBVIOUS
<1>6. Represents(links', heads', M)
  BY <1>1, <1>2, <1>4, <1>5, AddedLast
<1>7. [g \in Heads |-> ListOf(g)] = L /\ [g \in Heads |-> ListOf(g)]' = M
  BY <1>6, ReadNow, ReadNext
<1>8. M = [L EXCEPT ![h] = Append(@, x)]
  BY <1>3, <1>5
<1>9. A!PutLast(h, x)
  BY <1>1, <1>7, <1>8, FreeIsFree DEF A!PutLast
<1>10. h \in A!Lists
  BY ListsAreHeads
<1> QED
  BY <1>6, <1>9, <1>10 DEF IInv, A!Next

LEMMA TakeOutSteps ==
    ASSUME NEW L, Represents(links, heads, L), NEW h \in heads, NEW x \in Items, TakeOut(h, x)
    PROVE  IInv' /\ A!Next
<1>1. /\ x \in ItemsOf(h) /\ heads' = heads
      /\ links' = [ngx_queue_remove(links, x) EXCEPT !.prev[x] = Nowhere, !.next[x] = Nowhere]
  BY DEF TakeOut
<1>2. PICK s \in Seq(Items) : s = L[h]
  BY ItemsRead
<1>3. PICK k \in 1..Len(s) : s[k] = x
  BY <1>1, <1>2, ItemsRead
<1>4. PICK t : t = A!RemoveAt(s, k)
  OBVIOUS
<1>5. Shrunk(s, k, t)
  BY <1>2, <1>4, ShrunkIs
<1>6. PICK M : M = [L EXCEPT ![h] = t]
  OBVIOUS
<1>7. Represents(links', heads', M)
  <2>1. x = s[k]
    BY <1>3
  <2>2. Represents(links', heads, [L EXCEPT ![h] = t])
    BY <1>1, <1>2, <1>5, <2>1, TakenOut
  <2> QED
    BY <1>1, <1>6, <2>2
<1>8. [g \in Heads |-> ListOf(g)] = L /\ [g \in Heads |-> ListOf(g)]' = M
  BY <1>7, ReadNow, ReadNext
<1>9. M = [L EXCEPT ![h] = A!RemoveAt(@, k)]
  BY <1>2, <1>4, <1>6
<1>10. A!Leave(h, k)
  BY <1>8, <1>9 DEF A!Leave
<1>11. h \in A!Lists /\ h \in Heads
  BY ListsAreHeads, ItemsRead
<1>12. k \in DOMAIN [g \in Heads |-> ListOf(g)][h]
  BY <1>2, <1>8, LenProperties
<1> QED
  BY <1>7, <1>10, <1>11, <1>12 DEF IInv, A!Next

LEMMA SplitSteps ==
    ASSUME NEW L, Represents(links, heads, L), NEW h \in heads, NEW x \in Items, NEW n \in Heads,
           Split(h, x, n)
    PROVE  IInv' /\ A!Next
<1>1. /\ x \in ItemsOf(h) /\ n \notin heads /\ heads' = heads \cup {n}
      /\ links' = ngx_queue_split(links, h, x, n)
  BY DEF Split
<1>2. PICK s \in Seq(Items) : s = L[h]
  BY ItemsRead
<1>3. PICK k \in 1..Len(s) : s[k] = x
  BY <1>1, <1>2, ItemsRead
<1>4. PICK t, r : t = SubSeq(s, 1, k - 1) /\ r = SubSeq(s, k, Len(s))
  OBVIOUS
<1>5. CutAt(s, k, t, r)
  BY <1>2, <1>4, CutIs
<1>6. PICK M : M = [L EXCEPT ![h] = t, ![n] = r]
  OBVIOUS
<1>7. Represents(links', heads', M)
  BY <1>1, <1>2, <1>3, <1>5, <1>6, SplitOff
<1>8. [g \in Heads |-> ListOf(g)] = L /\ [g \in Heads |-> ListOf(g)]' = M
  BY <1>7, ReadNow, ReadNext
<1>9. L[n] = NoList
  BY <1>1 DEF Represents
<1>10. M = [L EXCEPT ![h] = SubSeq(@, 1, k - 1), ![n] = SubSeq(L[h], k, Len(L[h]))]
  BY <1>2, <1>4, <1>6
<1>11. A!Cut(h, n, k)
  BY <1>8, <1>9, <1>10 DEF A!Cut
<1>12. h \in A!Lists /\ h \in Heads
  BY ListsAreHeads, ItemsRead
<1>13. k \in DOMAIN [g \in Heads |-> ListOf(g)][h]
  BY <1>2, <1>8, LenProperties
<1> QED
  BY <1>7, <1>11, <1>12, <1>13 DEF IInv, A!Next

LEMMA MergeSteps ==
    ASSUME NEW L, Represents(links, heads, L), NEW h \in heads, NEW n \in heads, Merge(h, n)
    PROVE  IInv' /\ A!Next
<1>1. h # n /\ links' = ngx_queue_add(links, h, n) /\ heads' = heads \ {n}
  BY DEF Merge
<1>2. L[h] \in Seq(Items) /\ L[n] \in Seq(Items)
  BY ItemsRead
<1>3. PICK t : t = L[h] \o L[n]
  OBVIOUS
<1>4. Concatenated(L[h], L[n], t)
  BY <1>2, <1>3, ConcatenatedIs
<1>5. PICK M : M = [L EXCEPT ![h] = t, ![n] = NoList]
  OBVIOUS
<1>6. Represents(links', heads', M)
  BY <1>1, <1>4, <1>5, MergedIn
<1>7. [g \in Heads |-> ListOf(g)] = L /\ [g \in Heads |-> ListOf(g)]' = M
  BY <1>6, ReadNow, ReadNext
<1>8. M = [L EXCEPT ![h] = @ \o L[n], ![n] = NoList]
  BY <1>3, <1>5
<1>9. A!Join(h, n)
  BY <1>1, <1>7, <1>8 DEF A!Join
<1>10. h \in A!Lists /\ n \in A!Lists
  BY ListsAreHeads
<1> QED
  BY <1>6, <1>9, <1>10 DEF IInv, A!Next

LEMMA SortSteps ==
    ASSUME NEW L, Represents(links, heads, L), NEW h \in heads, Sort(h)
    PROVE  IInv' /\ A!Next
<1>1. links' = ngx_queue_sort(links, h) /\ heads' = heads
  BY DEF Sort
<1>2. PICK M : M = [L EXCEPT ![h] = A!StableSort(L[h])]
  OBVIOUS
<1>3. Represents(links', heads', M)
  BY <1>1, <1>2, SortedIn
<1>4. [g \in Heads |-> ListOf(g)] = L /\ [g \in Heads |-> ListOf(g)]' = M
  BY <1>3, ReadNow, ReadNext
<1>5. M = [L EXCEPT ![h] = A!StableSort(@)]
  BY <1>2
<1>6. A!Sort(h)
  BY <1>4, <1>5 DEF A!Sort
<1>7. h \in A!Lists
  BY ListsAreHeads
<1> QED
  BY <1>3, <1>6, <1>7 DEF IInv, A!Next

LEMMA StutterSteps ==
    ASSUME UNCHANGED queueVars, IInv
    PROVE  IInv' /\ [h \in Heads |-> ListOf(h)]' = [h \in Heads |-> ListOf(h)]
<1>1. links' = links /\ heads' = heads
  BY DEF queueVars
<1>2. PICK L : Represents(links, heads, L)
  BY DEF IInv
<1>3. Represents(links', heads', L)
  BY <1>1, <1>2
<1> QED
  BY <1>2, <1>3, ReadNow, ReadNext DEF IInv

LEMMA InitHolds ==
    ASSUME QueueInit
    PROVE  IInv /\ A!Init
<1>1. heads = {} /\ links \in Links
  BY DEF QueueInit, Links, Memory
<1>2. PICK L : L = [h \in Heads |-> NoList]
  OBVIOUS
<1>3. Represents(links, heads, L)
  BY <1>1, <1>2 DEF Represents
<1>4. [h \in Heads |-> ListOf(h)] = L
  BY <1>3, ReadNow
<1> QED
  BY <1>2, <1>3, <1>4 DEF IInv, A!Init

LEMMA NextHolds ==
    ASSUME IInv, QueueNext
    PROVE  IInv' /\ A!Next
<1>1. PICK L : Represents(links, heads, L)
  BY DEF IInv
<1>2. CASE \E h \in Heads : Create(h)
  BY <1>1, <1>2, CreateSteps
<1>3. CASE \E h \in heads, x \in Items : AddFirst(h, x)
  BY <1>1, <1>3, AddFirstSteps
<1>4. CASE \E h \in heads, x \in Items : AddLast(h, x)
  BY <1>1, <1>4, AddLastSteps
<1>5. CASE \E h \in heads, x \in Items : TakeOut(h, x)
  BY <1>1, <1>5, TakeOutSteps
<1>6. CASE \E h \in heads, x \in Items, n \in Heads : Split(h, x, n)
  BY <1>1, <1>6, SplitSteps
<1>7. CASE \E h \in heads, n \in heads : Merge(h, n)
  BY <1>1, <1>7, MergeSteps
<1>8. CASE \E h \in heads : Sort(h)
  BY <1>1, <1>8, SortSteps
<1> QED
  BY <1>2, <1>3, <1>4, <1>5, <1>6, <1>7, <1>8 DEF QueueNext

-----------------------------------------------------------------------------
LEMMA IInvHolds == QueueSpec => []IInv
<1>1. QueueInit => IInv
  BY InitHolds
<1>2. IInv /\ [QueueNext]_queueVars => IInv'
  BY NextHolds, StutterSteps
<1> QED
  BY <1>1, <1>2, PTL DEF QueueSpec

\* Through every sequence of insertions, removals, splits, joins and sorts, the
\* two walks of ngx_queue_middle end at the middle item, and never on the head
\* or on an item that has been taken out.
THEOREM MiddleIsAlwaysMiddle == QueueSpec => []MiddleIsMiddle
<1>1. IInv => MiddleIsMiddle
  <2> SUFFICES ASSUME IInv, NEW h \in heads, Forth(h) # <<>>
               PROVE  ngx_queue_middle(links, h) = Forth(h)[Len(Forth(h)) \div 2 + 1]
    BY DEF MiddleIsMiddle
  <2>1. PICK L : Represents(links, heads, L)
    BY DEF IInv
  <2>2. Forth(h) = L[h] /\ h \in Heads /\ Chain(links, h, L[h])
    BY <2>1, ItemsRead DEF Represents
  <2> QED
    BY <2>2, ChainMiddle
<1> QED
  BY <1>1, IInvHolds, PTL

\* What the macros and functions do to the links is what they would do to
\* sequences: an item joins or leaves one list and no other is disturbed,
\* split and add cut and join, and the insertion sort is a stable one, for
\* any number of lists and items and any weights.
THEOREM QueueImplementsLists == QueueSpec => ImplementsLists
<1>1. QueueInit => A!Init
  BY InitHolds
<1>2. IInv /\ [QueueNext]_queueVars => [A!Next]_[h \in Heads |-> ListOf(h)]
  BY NextHolds, StutterSteps
<1> QED
  BY <1>1, <1>2, IInvHolds, PTL DEF QueueSpec, ImplementsLists, A!Spec
=============================================================================
