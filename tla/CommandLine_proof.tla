------------------------- MODULE CommandLine_proof -------------------------
(***************************************************************************)
(* Theorems about module CommandLine, for any letters, lines, symbols and  *)
(* sizes.  Split is a function defined by itself from right to left: that  *)
(* there is one, and what it returns, is shown by induction along the      *)
(* buffer.                                                                 *)
(***************************************************************************)
EXTENDS CommandLineProps, WellFoundedInduction, FiniteSetTheorems, SequenceTheorems, TLAPS

-----------------------------------------------------------------------------
(* Numbers.                                                                *)

\* The order of the numbers is well founded.
LEMMA LessIsWellFounded == IsWellFoundedOn({ss \in Nat \X Nat : ss[1] < ss[2]}, Nat)
BY NatLessThanWellFounded DEF OpToRel

\* Every set of numbers has a least one.
LEMMA LeastExists ==
    ASSUME NEW S \in SUBSET Nat, S # {}
    PROVE  \E i \in S : \A j \in S : i <= j
<1> DEFINE R == {ss \in Nat \X Nat : ss[1] < ss[2]}
<1>1. PICK i \in S : \A j \in S : ~(<<j, i>> \in R)
  <2> HIDE DEF R
  <2>1. IsWellFoundedOn(R, Nat)
    BY LessIsWellFounded DEF R
  <2> QED
    BY <2>1, WFMin
<1>2. ASSUME NEW j \in S PROVE i <= j
  <2>1. i \in Nat /\ j \in Nat
    OBVIOUS
  <2>2. <<j, i>> \in R <=> j < i
    BY <2>1, Zenon
  <2>3. ~(<<j, i>> \in R)
    BY <1>1
  <2> HIDE DEF R
  <2> QED
    BY <2>1, <2>2, <2>3
<1> QED
  BY <1>2

\* Induction for a set instead of a formula.
LEMMA EveryNumber ==
    ASSUME NEW S, 0 \in S, \A n \in Nat : n \in S => n + 1 \in S
    PROVE  \A n \in Nat : n \in S
<1> SUFFICES ASSUME Nat \ S # {} PROVE FALSE
  OBVIOUS
<1>1. PICK i \in Nat \ S : \A j \in Nat \ S : i <= j
  <2> DEFINE T == Nat \ S
  <2>1. T \in SUBSET Nat /\ T # {}
    OBVIOUS
  <2> HIDE DEF T
  <2>2. \E i \in T : \A j \in T : i <= j
    BY <2>1, LeastExists
  <2> QED
    BY <2>2 DEF T
<1>2. i # 0 /\ i - 1 \in Nat
  BY <1>1
<1>3. i - 1 \in S
  BY <1>1, <1>2
<1>4. (i - 1) + 1 \in S
  BY <1>2, <1>3
<1> QED
  BY <1>1, <1>4

-----------------------------------------------------------------------------
(* Functions defined from right to left.                                   *)

\* A function that prepends pieces to its value further right.
Prepends(g, n, next, piece, W) ==
    /\ g \in [1..n + 1 -> Seq(W)]
    /\ g[n + 1] = <<>>
    /\ \A i \in 1..n : g[i] = piece[i] \o g[next[i]]

LEMMA BackwardFunction ==
    ASSUME NEW n \in Nat, NEW W, NEW next, NEW piece,
           \A i \in 1..n : next[i] \in (i + 1)..(n + 1) /\ piece[i] \in Seq(W)
    PROVE  \E g : Prepends(g, n, next, piece, W)
<1> DEFINE Part(g, k) == /\ g \in [(n + 1 - k)..(n + 1) -> Seq(W)]
                         /\ g[n + 1] = <<>>
                         /\ \A i \in (n + 1 - k)..n : g[i] = piece[i] \o g[next[i]]
           S == {k \in Nat : k <= n => \E g : Part(g, k)}
<1>1. 0 \in S
  <2> DEFINE g == [i \in (n + 1)..(n + 1) |-> <<>>]
  <2>1. g \in [(n + 1 - 0)..(n + 1) -> Seq(W)]
    OBVIOUS
  <2>2. g[n + 1] = <<>>
    OBVIOUS
  <2>3. (n + 1 - 0)..n = {}
    OBVIOUS
  <2> HIDE DEF g
  <2>4. Part(g, 0)
    BY <2>1, <2>2, <2>3
  <2> HIDE DEF Part
  <2> QED
    BY <2>4
<1>2. ASSUME NEW k \in Nat, k \in S PROVE k + 1 \in S
  <2> HIDE DEF Part
  <2> SUFFICES ASSUME k + 1 <= n PROVE \E g : Part(g, k + 1)
    OBVIOUS
  <2>1. PICK f : Part(f, k)
    BY <1>2
  <2> USE DEF Part
  <2> DEFINE a == n - k
             g == [i \in a..(n + 1) |-> IF i = a THEN piece[a] \o f[next[a]] ELSE f[i]]
  <2>2. a \in 1..n /\ n + 1 - (k + 1) = a /\ n + 1 - k = a + 1
    OBVIOUS
  <2>3. next[a] \in (a + 1)..(n + 1) /\ piece[a] \in Seq(W)
    BY <2>2
  <2> HIDE DEF a
  <2>4. f[next[a]] \in Seq(W) /\ piece[a] \o f[next[a]] \in Seq(W)
    BY <2>1, <2>2, <2>3, ConcatProperties
  <2>5. g \in [a..(n + 1) -> Seq(W)]
    <3>1. \A i \in a..(n + 1) : i # a => f[i] \in Seq(W)
      BY <2>1, <2>2
    <3> QED
      BY <3>1, <2>4
  <2>6. g[n + 1] = <<>>
    BY <2>1, <2>2
  <2>7. ASSUME NEW i \in a..n PROVE g[i] = piece[i] \o g[next[i]]
    <3>1. next[i] \in (i + 1)..(n + 1)
      BY <2>2
    <3>2. g[next[i]] = f[next[i]]
      BY <3>1, <2>2
    <3>3. CASE i = a
      <4>1. a \in a..(n + 1)
        BY <2>2
      <4>2. g[a] = piece[a] \o f[next[a]]
        BY <4>1
      <4> HIDE DEF g
      <4> QED
        BY <3>2, <3>3, <4>2
    <3>4. CASE i # a
      <4>1. g[i] = f[i] /\ i \in (n + 1 - k)..n
        BY <3>4, <2>2
      <4> QED
        BY <4>1, <3>2, <2>1
    <3> QED
      BY <3>3, <3>4
  <2> HIDE DEF g
  <2>8. Part(g, k + 1)
    BY <2>2, <2>5, <2>6, <2>7
  <2> HIDE DEF Part
  <2> QED
    BY <2>8
<1>3. n \in S
  <2> HIDE DEF S
  <2> QED
    BY <1>1, <1>2, EveryNumber
<1>4. PICK g : Part(g, n)
  <2> HIDE DEF Part
  <2> QED
    BY <1>3
<1>5. n + 1 - n = 1
  OBVIOUS
<1> QED
  BY <1>4, <1>5 DEF Prepends

-----------------------------------------------------------------------------
(* Split, one character at a time.                                         *)

\* At the character i of the buffer no word ends.
Skipped(b, i) == b[i] = Blank \/ EndOf(b, i) = {}

\* The equation of Split's function from.
IsScan(b, from) ==
    \A i \in 1..Len(b) + 1 :
        from[i] = IF i > Len(b) THEN <<>>
                  ELSE IF b[i] = Blank \/ EndOf(b, i) = {} THEN from[i + 1]
                  ELSE <<SubSeq(b, i, Min(EndOf(b, i)) - 1)>> \o from[Min(EndOf(b, i)) + 1]

LEMMA LeastOf ==
    ASSUME NEW S \in SUBSET Nat, S # {}
    PROVE  Min(S) \in S /\ \A j \in S : Min(S) <= j
<1>1. \E i \in S : \A j \in S : i <= j
  BY LeastExists
<1> QED
  BY <1>1, Zenon DEF Min

LEMMA FirstEnd ==
    ASSUME NEW C, NEW b \in Seq(C), NEW i \in 1..Len(b), EndOf(b, i) # {}
    PROVE  /\ Min(EndOf(b, i)) \in i..Len(b)
           /\ b[Min(EndOf(b, i))] \in Spaces
           /\ \A j \in i..(Min(EndOf(b, i)) - 1) : b[j] \notin Spaces
<1>1. EndOf(b, i) \in SUBSET Nat
  BY DEF EndOf
<1>2. Min(EndOf(b, i)) \in EndOf(b, i) /\ \A j \in EndOf(b, i) : Min(EndOf(b, i)) <= j
  BY <1>1, LeastOf
<1> DEFINE e == Min(EndOf(b, i))
<1>3. e \in EndOf(b, i) /\ \A j \in EndOf(b, i) : e <= j
  BY <1>2
<1> HIDE DEF e
<1>4. e \in i..Len(b) /\ b[e] \in Spaces /\ \A j \in i..(e - 1) : b[j] \notin Spaces
  BY <1>3 DEF EndOf
<1> QED
  BY <1>4 DEF e

LEMMA WordIsSeq ==
    ASSUME NEW C, NEW b \in Seq(C), NEW i \in 1..Len(b), NEW e \in i..Len(b)
    PROVE  /\ SubSeq(b, i, e - 1) \in Seq(C)
           /\ Len(SubSeq(b, i, e - 1)) = e - i
           /\ e = i => SubSeq(b, i, e - 1) = <<>>
           /\ e > i => SubSeq(b, i, e - 1) # <<>>
<1>1. \A j \in i..(e - 1) : b[j] \in C
  BY ElementOfSeq
<1>2. /\ SubSeq(b, i, e - 1) \in Seq(C)
      /\ Len(SubSeq(b, i, e - 1)) = IF i <= e - 1 THEN (e - 1) - i + 1 ELSE 0
  <2>1. i \in Int /\ e - 1 \in Int
    OBVIOUS
  <2> QED
    BY <1>1, <2>1, SubSeqProperties
<1>3. Len(SubSeq(b, i, e - 1)) = e - i
  BY <1>2
<1> QED
  BY <1>2, <1>3, EmptySeq

LEMMA SplitScans ==
    ASSUME NEW C, NEW b \in Seq(C)
    PROVE  \E from : IsScan(b, from) /\ Split(b) = from[1]
<1> DEFINE n == Len(b)
           e(i) == Min(EndOf(b, i))
           next == [i \in 1..n |-> IF Skipped(b, i) THEN i + 1 ELSE e(i) + 1]
           piece == [i \in 1..n |-> IF Skipped(b, i) THEN <<>>
                                    ELSE <<SubSeq(b, i, e(i) - 1)>>]
           Body(g) == [i \in 1..Len(b) + 1 |->
                         IF i > Len(b) THEN <<>>
                         ELSE IF b[i] = Blank \/ EndOf(b, i) = {} THEN g[i + 1]
                         ELSE <<SubSeq(b, i, Min(EndOf(b, i)) - 1)>>
                                  \o g[Min(EndOf(b, i)) + 1]]
           F == CHOOSE g : g = Body(g)
<1>1. n \in Nat
  OBVIOUS
<1>2. ASSUME NEW i \in 1..n
      PROVE  next[i] \in (i + 1)..(n + 1) /\ piece[i] \in Seq(Seq(C))
  <2>1. CASE Skipped(b, i)
    BY <2>1, <1>1
  <2>2. CASE ~Skipped(b, i)
    <3>1. e(i) \in i..n
      BY <2>2, FirstEnd DEF Skipped
    <3> HIDE DEF e
    <3>2. SubSeq(b, i, e(i) - 1) \in Seq(C)
      BY <3>1, WordIsSeq
    <3>3. next[i] = e(i) + 1 /\ piece[i] = <<SubSeq(b, i, e(i) - 1)>>
      BY <2>2
    <3> QED
      BY <1>1, <3>1, <3>2, <3>3
  <2> QED
    BY <2>1, <2>2
<1>3. PICK g : Prepends(g, n, next, piece, Seq(C))
  <2> HIDE DEF n, next, piece
  <2> QED
    BY <1>1, <1>2, BackwardFunction
<1>4. ASSUME NEW i \in 1..n + 1 PROVE g[i] = Body(g)[i]
  <2>0. i <= n => g[i] = piece[i] \o g[next[i]]
    <3>1. \A j \in 1..n : g[j] = piece[j] \o g[next[j]]
      BY <1>3, Zenon DEF Prepends
    <3>2. i <= n => i \in 1..n
      BY <1>1
    <3> QED
      BY <3>1, <3>2, Zenon
  <2>1. CASE i > n
    BY <2>1, <1>1, <1>3 DEF Prepends
  <2>2. CASE i <= n /\ Skipped(b, i)
    <3>1. g[i] = <<>> \o g[i + 1]
      <4>1. next[i] = i + 1 /\ piece[i] = <<>>
        BY <2>2, <1>1
      <4> HIDE DEF next, piece
      <4> QED
        BY <4>1, <2>0, <2>2
    <3>2. g[i + 1] \in Seq(Seq(C))
      BY <2>2, <1>1, <1>3 DEF Prepends
    <3>3. g[i] = g[i + 1]
      BY <3>1, <3>2, ConcatEmptySeq
    <3> QED
      BY <3>3, <2>2 DEF Skipped
  <2>3. CASE i <= n /\ ~Skipped(b, i)
    <3>1. next[i] = e(i) + 1 /\ piece[i] = <<SubSeq(b, i, e(i) - 1)>>
      BY <2>3, <1>1
    <3>2. g[i] = piece[i] \o g[next[i]]
      BY <2>0, <2>3
    <3>3. g[i] = <<SubSeq(b, i, e(i) - 1)>> \o g[e(i) + 1]
      BY <3>1, <3>2
    <3> QED
      BY <2>3, <3>3 DEF Skipped
  <2> QED
    BY <2>1, <2>2, <2>3, <1>1
<1>5. g = Body(g)
  <2>1. DOMAIN g = 1..Len(b) + 1
    BY <1>3 DEF Prepends
  <2>2. g = [i \in 1..Len(b) + 1 |-> g[i]]
    BY <1>3 DEF Prepends
  <2> QED
    BY <1>4, <2>1, <2>2
<1>6. F = Body(F)
  <2> HIDE DEF Body
  <2> QED
    BY <1>5, Zenon
<1>7. IsScan(b, F)
  <2> HIDE DEF F
  <2> QED
    BY <1>6 DEF IsScan
<1>8. Split(b) = F[1]
  BY DEF Split
<1> QED
  BY <1>7, <1>8

-----------------------------------------------------------------------------
(* The words that a scan returns are the runs of the buffer, in order.     *)

RunsFrom(b, i) == {r \in Runs(b) : r[1] >= i}
Word(b, r) == SubSeq(b, r[1], r[2])
Filled(words) == {k \in DOMAIN words : words[k] # <<>>}
Plain(b) == ~Tabbed(b) /\ \A j \in 1..(Len(b) - 1) : b[j] # Newline

\* P lists the runs from i on and Q the places of the words that are not empty,
\* which are the same; in a buffer without tabs they have the first places.
Matches(b, words, i, m, P, Q) ==
    /\ m \in Nat /\ P \in [1..m -> RunsFrom(b, i)] /\ Q \in [1..m -> Filled(words)]
    /\ \A j, k \in 1..m : j < k => P[j][1] < P[k][1] /\ Q[j] < Q[k]
    /\ \A r \in RunsFrom(b, i) : \E k \in 1..m : P[k] = r
    /\ \A l \in Filled(words) : \E k \in 1..m : Q[k] = l
    /\ \A k \in 1..m : words[Q[k]] = Word(b, P[k])
    /\ Plain(b) => \A k \in 1..m : Q[k] = k

Agree(b, words, i) == \E m, P, Q : Matches(b, words, i, m, P, Q)

LEMMA Prepended ==
    ASSUME NEW W, NEW x \in W, NEW w \in Seq(W)
    PROVE  /\ <<x>> \o w \in Seq(W)
           /\ Len(<<x>> \o w) = Len(w) + 1
           /\ DOMAIN (<<x>> \o w) = 1..(Len(w) + 1)
           /\ (<<x>> \o w)[1] = x
           /\ \A k \in 1..Len(w) : (<<x>> \o w)[k + 1] = w[k]
<1>1. <<x>> \in Seq(W) /\ Len(<<x>>) = 1 /\ <<x>>[1] = x
  OBVIOUS
<1> DEFINE u == <<x>>
           v == u \o w
<1>2. u \in Seq(W) /\ Len(u) = 1 /\ u[1] = x
  BY <1>1
<1> HIDE DEF u
<1>3. /\ v \in Seq(W) /\ Len(v) = Len(u) + Len(w)
      /\ \A i \in 1..Len(u) + Len(w) : v[i] = IF i <= Len(u) THEN u[i] ELSE w[i - Len(u)]
  BY <1>2, ConcatProperties
<1>4. Len(w) \in Nat /\ DOMAIN v = 1..Len(v)
  BY <1>3, LenProperties
<1> HIDE DEF v
<1>5. v[1] = x /\ Len(v) = Len(w) + 1
  BY <1>2, <1>3, <1>4
<1>6. ASSUME NEW k \in 1..Len(w) PROVE v[k + 1] = w[k]
  <2>1. k + 1 \in 1..Len(u) + Len(w) /\ ~(k + 1 <= Len(u)) /\ (k + 1) - Len(u) = k
    BY <1>2, <1>4
  <2> QED
    BY <2>1, <1>3
<1> QED
  BY <1>3, <1>4, <1>5, <1>6 DEF u, v

\* An empty word in front.
LEMMA EmptyInFront ==
    ASSUME NEW W, <<>> \in W, NEW w \in Seq(W), NEW b, NEW i, NEW h,
           Agree(b, w, h), RunsFrom(b, i) = RunsFrom(b, h), Plain(b) => RunsFrom(b, h) = {}
    PROVE  Agree(b, <<<<>>>> \o w, i)
<1>0. PICK m, P, Q : Matches(b, w, h, m, P, Q)
  BY DEF Agree
<1> USE <1>0
<1> DEFINE v == <<<<>>>> \o w
           R == [k \in 1..m |-> Q[k] + 1]
<1>1. /\ v \in Seq(W) /\ Len(v) = Len(w) + 1 /\ DOMAIN v = 1..(Len(w) + 1)
      /\ v[1] = <<>> /\ \A k \in 1..Len(w) : v[k + 1] = w[k]
  BY Prepended
<1>2. Len(w) \in Nat /\ DOMAIN w = 1..Len(w)
  BY LenProperties
<1> HIDE DEF v
<1>3. ASSUME NEW l \in Filled(w) PROVE l \in 1..Len(w) /\ l + 1 \in Filled(v) /\ v[l + 1] = w[l]
  BY <1>1, <1>2 DEF Filled
<1>4. ASSUME NEW l \in Filled(v) PROVE l - 1 \in Filled(w) /\ l \in Nat
  <2>1. l \in 1..(Len(w) + 1) /\ v[l] # <<>>
    BY <1>1 DEF Filled
  <2>2. l - 1 \in 1..Len(w) /\ (l - 1) + 1 = l
    BY <2>1, <1>1, <1>2
  <2>3. w[l - 1] = v[l]
    BY <2>2, <1>1
  <2> QED
    BY <2>1, <2>2, <2>3, <1>2 DEF Filled
<1>5. m \in Nat /\ Q \in [1..m -> Filled(w)] /\ \A k \in 1..m : Q[k] \in Nat
  <2>1. m \in Nat /\ Q \in [1..m -> Filled(w)]
    BY DEF Matches
  <2>2. \A k \in 1..m : Q[k] \in 1..Len(w)
    BY <2>1, <1>3
  <2> QED
    BY <2>1, <2>2, <1>2
<1>6. R \in [1..m -> Filled(v)]
  BY <1>3, <1>5
<1>7. \A j, k \in 1..m : j < k => R[j] < R[k]
  BY <1>5 DEF Matches
<1>8. ASSUME NEW l \in Filled(v) PROVE \E k \in 1..m : R[k] = l
  <2>1. PICK k \in 1..m : Q[k] = l - 1
    BY <1>4 DEF Matches
  <2> QED
    BY <2>1, <1>4
<1>9. ASSUME NEW k \in 1..m PROVE v[R[k]] = Word(b, P[k])
  <2>1. w[Q[k]] = Word(b, P[k])
    BY DEF Matches
  <2>2. v[Q[k] + 1] = w[Q[k]]
    BY <1>3, <1>5
  <2> QED
    BY <2>1, <2>2
<1>10. Plain(b) => \A k \in 1..m : R[k] = k
  <2>1. Plain(b) => m = 0
    <3> SUFFICES ASSUME Plain(b) PROVE m = 0
      OBVIOUS
    <3>1. P \in [1..m -> {}]
      BY DEF Matches
    <3> QED
      BY <3>1, <1>5
  <2> QED
    BY <2>1
<1> HIDE DEF R
<1>11. Matches(b, v, i, m, P, R)
  BY <1>5, <1>6, <1>7, <1>8, <1>9, <1>10 DEF Matches
<1> QED
  BY <1>11 DEF Agree, v

\* A run as a word in front.
LEMMA RunInFront ==
    ASSUME NEW W, NEW x \in W, NEW w \in Seq(W), NEW b, NEW i \in Nat, NEW h \in Nat, i < h,
           Agree(b, w, h), Runs(b) \subseteq Nat \X Nat,
           NEW r \in RunsFrom(b, i), r[1] = i, x = Word(b, r), x # <<>>,
           \A s \in RunsFrom(b, i) : s = r \/ s \in RunsFrom(b, h),
           \A s \in RunsFrom(b, h) : s \in RunsFrom(b, i)
    PROVE  Agree(b, <<x>> \o w, i)
<1>0. PICK m, P, Q : Matches(b, w, h, m, P, Q)
  BY DEF Agree
<1> USE <1>0
<1> DEFINE v == <<x>> \o w
           S == [k \in 1..(m + 1) |-> IF k = 1 THEN r ELSE P[k - 1]]
           R == [k \in 1..(m + 1) |-> IF k = 1 THEN 1 ELSE Q[k - 1] + 1]
<1>1. /\ v \in Seq(W) /\ Len(v) = Len(w) + 1 /\ DOMAIN v = 1..(Len(w) + 1)
      /\ v[1] = x /\ \A k \in 1..Len(w) : v[k + 1] = w[k]
  BY Prepended
<1>2. Len(w) \in Nat /\ DOMAIN w = 1..Len(w)
  BY LenProperties
<1> HIDE DEF v
<1>3. ASSUME NEW l \in Filled(w) PROVE l \in 1..Len(w) /\ l + 1 \in Filled(v) /\ v[l + 1] = w[l]
  BY <1>1, <1>2 DEF Filled
<1>4. 1 \in Filled(v)
  BY <1>1, <1>2 DEF Filled
<1>5. ASSUME NEW l \in Filled(v), l # 1 PROVE l - 1 \in Filled(w) /\ l \in Nat
  <2>1. l \in 1..(Len(w) + 1) /\ v[l] # <<>>
    BY <1>1 DEF Filled
  <2>2. l - 1 \in 1..Len(w) /\ (l - 1) + 1 = l
    BY <2>1, <1>5, <1>2
  <2>3. w[l - 1] = v[l]
    BY <2>2, <1>1
  <2> QED
    BY <2>1, <2>2, <2>3, <1>2 DEF Filled
<1>6. /\ m \in Nat /\ P \in [1..m -> RunsFrom(b, h)] /\ Q \in [1..m -> Filled(w)]
      /\ \A k \in 1..m : Q[k] \in Nat /\ Q[k] >= 1
  <2>1. m \in Nat /\ P \in [1..m -> RunsFrom(b, h)] /\ Q \in [1..m -> Filled(w)]
    BY DEF Matches
  <2>2. \A k \in 1..m : Q[k] \in 1..Len(w)
    BY <2>1, <1>3
  <2> QED
    BY <2>1, <2>2, <1>2
<1>7. ASSUME NEW k \in 1..(m + 1), k # 1
      PROVE k - 1 \in 1..m /\ S[k] = P[k - 1] /\ R[k] = Q[k - 1] + 1
  BY <1>6, <1>7
<1>8. S[1] = r /\ R[1] = 1
  BY <1>6
<1>9. \A k \in 1..m : k + 1 \in 1..(m + 1) /\ S[k + 1] = P[k] /\ R[k + 1] = Q[k] + 1
  BY <1>6
<1>10. S \in [1..(m + 1) -> RunsFrom(b, i)]
  <2>1. \A k \in 1..(m + 1) : S[k] \in RunsFrom(b, i)
    BY <1>6, <1>7, <1>8
  <2> QED
    BY <2>1
<1>11. R \in [1..(m + 1) -> Filled(v)]
  <2>1. \A k \in 1..(m + 1) : R[k] \in Filled(v)
    BY <1>3, <1>4, <1>6, <1>7, <1>8
  <2> QED
    BY <2>1
<1> HIDE DEF R, S
<1>12. ASSUME NEW j \in 1..(m + 1), NEW k \in 1..(m + 1), j < k
       PROVE  S[j][1] < S[k][1] /\ R[j] < R[k]
  <2>1. k # 1 /\ k - 1 \in 1..m /\ S[k] = P[k - 1] /\ R[k] = Q[k - 1] + 1
    BY <1>6, <1>7, <1>12
  <2>2. CASE j = 1
    <3>1. P[k - 1] \in RunsFrom(b, h) /\ Q[k - 1] \in Nat /\ Q[k - 1] >= 1
      BY <1>6, <2>1
    <3>2. P[k - 1][1] >= h /\ P[k - 1][1] \in Nat
      BY <3>1 DEF RunsFrom
    <3> QED
      BY <1>8, <2>1, <2>2, <3>1, <3>2
  <2>3. CASE j # 1
    <3>1. j - 1 \in 1..m /\ S[j] = P[j - 1] /\ R[j] = Q[j - 1] + 1 /\ j - 1 < k - 1
      BY <1>7, <2>3, <1>12
    <3>2. P[j - 1][1] < P[k - 1][1] /\ Q[j - 1] < Q[k - 1]
      BY <2>1, <3>1 DEF Matches
    <3>3. Q[j - 1] \in Nat /\ Q[k - 1] \in Nat
      BY <1>6, <2>1, <3>1
    <3> QED
      BY <2>1, <3>1, <3>2, <3>3
  <2> QED
    BY <2>2, <2>3
<1>13. ASSUME NEW s \in RunsFrom(b, i) PROVE \E k \in 1..(m + 1) : S[k] = s
  <2>1. CASE s = r
    BY <2>1, <1>6, <1>8
  <2>2. CASE s \in RunsFrom(b, h)
    <3>1. PICK k \in 1..m : P[k] = s
      BY <2>2 DEF Matches
    <3> QED
      BY <3>1, <1>9
  <2> QED
    BY <2>1, <2>2
<1>14. ASSUME NEW l \in Filled(v) PROVE \E k \in 1..(m + 1) : R[k] = l
  <2>1. CASE l = 1
    BY <2>1, <1>6, <1>8
  <2>2. CASE l # 1
    <3>1. PICK k \in 1..m : Q[k] = l - 1
      BY <2>2, <1>5 DEF Matches
    <3>2. R[k + 1] = l
      BY <3>1, <1>5, <1>9, <2>2
    <3> QED
      BY <3>2, <1>9
  <2> QED
    BY <2>1, <2>2
<1>15. ASSUME NEW k \in 1..(m + 1) PROVE v[R[k]] = Word(b, S[k])
  <2>1. CASE k = 1
    BY <2>1, <1>1, <1>8
  <2>2. CASE k # 1
    <3>1. k - 1 \in 1..m /\ S[k] = P[k - 1] /\ R[k] = Q[k - 1] + 1
      BY <2>2, <1>7
    <3>2. w[Q[k - 1]] = Word(b, P[k - 1])
      BY <3>1 DEF Matches
    <3>3. v[Q[k - 1] + 1] = w[Q[k - 1]]
      BY <1>3, <1>6, <3>1
    <3> QED
      BY <3>1, <3>2, <3>3
  <2> QED
    BY <2>1, <2>2
<1>16. ASSUME Plain(b), NEW k \in 1..(m + 1) PROVE R[k] = k
  <2>1. CASE k = 1
    BY <2>1, <1>8
  <2>2. CASE k # 1
    <3>1. k - 1 \in 1..m /\ R[k] = Q[k - 1] + 1
      BY <2>2, <1>7
    <3>2. Q[k - 1] = k - 1
      BY <3>1, <1>16 DEF Matches
    <3> QED
      BY <3>1, <3>2, <1>6
  <2> QED
    BY <2>1, <2>2
<1>17. Matches(b, v, i, m + 1, S, R)
  <2> HIDE <1>0
  <2>1. m + 1 \in Nat
    BY <1>6
  <2> QED
    BY <2>1, <1>10, <1>11, <1>12, <1>13, <1>14, <1>15, <1>16, Zenon DEF Matches
<1> QED
  BY <1>17 DEF Agree, v

-----------------------------------------------------------------------------
(* What Split returns.                                                     *)

\* A word may begin at i, or none is ended any more.
MayStart(b, i) == i = 1 \/ b[i - 1] \in Spaces \/ EndOf(b, i) = {}

\* What holds of the words from i on.
Scanned(C, b, words, i) ==
    /\ words \in Seq(Seq(C)) /\ Len(words) <= Len(b) + 1 - i
    /\ Agree(b, words, i)

LEMMA RunsType ==
    ASSUME NEW C, NEW b \in Seq(C)
    PROVE  Runs(b) \subseteq Nat \X Nat
BY DEF Runs

\* Behind a character that is a space, or in front of no space, no run is lost.
LEMMA NoRunHere ==
    ASSUME NEW C, NEW b \in Seq(C), NEW i \in 1..Len(b),
           b[i] \in Spaces \/ EndOf(b, i) = {}
    PROVE  RunsFrom(b, i) = RunsFrom(b, i + 1)
<1>1. ASSUME NEW r \in RunsFrom(b, i) PROVE r[1] >= i + 1
  <2>1. r[1] \in 1..Len(b) /\ r[2] \in 1..Len(b) /\ r[1] >= i /\ r[1] <= r[2] /\ r[2] < Len(b)
    BY DEF RunsFrom, Runs
  <2>2. b[r[2] + 1] \in Spaces /\ \A j \in r[1]..r[2] : b[j] \notin Spaces
    BY DEF RunsFrom, Runs
  <2>3. r[2] + 1 \in EndOf(b, i)
    BY <2>1, <2>2 DEF EndOf
  <2>4. b[r[1]] \notin Spaces
    BY <2>1, <2>2
  <2> QED
    BY <2>1, <2>3, <2>4
<1>2. ASSUME NEW r \in RunsFrom(b, i + 1) PROVE r[1] >= i
  <2>1. r[1] \in 1..Len(b) /\ r[1] >= i + 1
    BY DEF RunsFrom, Runs
  <2> QED
    BY <2>1
<1> QED
  BY <1>1, <1>2 DEF RunsFrom

LEMMA NoRunBehind ==
    ASSUME NEW C, NEW b \in Seq(C)
    PROVE  RunsFrom(b, Len(b) + 1) = {}
<1> SUFFICES ASSUME NEW r \in RunsFrom(b, Len(b) + 1) PROVE FALSE
  OBVIOUS
<1>1. r[1] \in 1..Len(b) /\ r[1] >= Len(b) + 1
  BY DEF RunsFrom, Runs
<1> QED
  BY <1>1

\* A letter where a word may start begins a run up to the next space.
LEMMA RunHere ==
    ASSUME NEW C, NEW b \in Seq(C), NEW i \in 1..Len(b), i = 1 \/ b[i - 1] \in Spaces,
           NEW e \in i..Len(b), b[i] \notin Spaces, b[e] \in Spaces,
           \A j \in i..(e - 1) : b[j] \notin Spaces
    PROVE  /\ <<i, e - 1>> \in RunsFrom(b, i)
           /\ \A s \in RunsFrom(b, i) : s = <<i, e - 1>> \/ s \in RunsFrom(b, e + 1)
           /\ \A s \in RunsFrom(b, e + 1) : s \in RunsFrom(b, i)
<1> DEFINE r == <<i, e - 1>>
<1>1. e # i /\ e - 1 \in i..Len(b) /\ (e - 1) + 1 = e
  OBVIOUS
<1>2. r \in Runs(b)
  <2>1. r \in (1..Len(b)) \X (1..Len(b)) /\ r[1] = i /\ r[2] = e - 1
    BY <1>1
  <2> HIDE DEF r
  <2>2. r[1] <= r[2] /\ r[2] < Len(b) /\ b[r[2] + 1] \in Spaces
    BY <1>1, <2>1
  <2>3. (\A j \in r[1]..r[2] : b[j] \notin Spaces) /\ (r[1] = 1 \/ b[r[1] - 1] \in Spaces)
    BY <2>1
  <2> QED
    BY <2>1, <2>2, <2>3 DEF Runs
<1>3. r \in RunsFrom(b, i)
  BY <1>2 DEF RunsFrom
<1>4. ASSUME NEW s \in RunsFrom(b, i), s \notin RunsFrom(b, e + 1) PROVE s = r
  <2>1. /\ s \in (1..Len(b)) \X (1..Len(b)) /\ s[1] >= i /\ s[1] <= s[2] /\ s[2] < Len(b)
        /\ \A j \in s[1]..s[2] : b[j] \notin Spaces
        /\ s[1] = 1 \/ b[s[1] - 1] \in Spaces
        /\ b[s[2] + 1] \in Spaces
    BY DEF RunsFrom, Runs
  <2>2. s[1] < e + 1
    BY <2>1, <1>4 DEF RunsFrom
  <2>3. s[1] = i
    <3>1. s[1] # e
      BY <2>1
    <3>2. CASE s[1] > i
      <4>1. s[1] - 1 \in i..(e - 1) /\ s[1] # 1
        BY <2>1, <2>2, <3>1, <3>2
      <4> QED
        BY <4>1, <2>1
    <3> QED
      BY <3>2, <2>1
  <2>4. s[2] = e - 1
    <3>1. CASE s[2] > e - 1
      <4>1. e \in s[1]..s[2]
        BY <2>1, <2>3, <3>1
      <4> QED
        BY <4>1, <2>1
    <3>2. CASE s[2] < e - 1
      <4>1. s[2] + 1 \in i..(e - 1)
        BY <2>1, <2>3, <3>2
      <4> QED
        BY <4>1, <2>1
    <3> QED
      BY <3>1, <3>2, <2>1
  <2> QED
    BY <2>1, <2>3, <2>4
<1>5. ASSUME NEW s \in RunsFrom(b, e + 1) PROVE s \in RunsFrom(b, i)
  <2>1. s \in Runs(b) /\ s[1] \in Nat /\ s[1] >= e + 1
    BY DEF RunsFrom, Runs
  <2> QED
    BY <2>1 DEF RunsFrom
<1> QED
  BY <1>3, <1>4, <1>5

LEMMA ScanStep ==
    ASSUME NEW C, NEW b \in Seq(C), NEW from, IsScan(b, from), NEW i \in 1..Len(b), MayStart(b, i),
           \A h \in (i + 1)..(Len(b) + 1) : MayStart(b, h) => Scanned(C, b, from[h], h)
    PROVE  Scanned(C, b, from[i], i)
<1>00. i \in 1..Len(b) + 1 /\ ~(i > Len(b))
  OBVIOUS
<1>0. i + 1 \in (i + 1)..(Len(b) + 1) /\ (i + 1) - 1 = i
  OBVIOUS
<1>1. CASE Skipped(b, i)
  <2>1. b[i] \in Spaces \/ EndOf(b, i) = {}
    BY <1>1 DEF Skipped, Spaces
  <2>2. from[i] = from[i + 1]
    BY <1>1, <1>00, Zenon DEF IsScan, Skipped
  <2>3. MayStart(b, i + 1)
    <3>1. EndOf(b, i + 1) \subseteq EndOf(b, i)
      BY DEF EndOf
    <3> QED
      BY <2>1, <3>1, <1>0 DEF MayStart
  <2>4. Scanned(C, b, from[i + 1], i + 1)
    BY <1>0, <2>3
  <2>5. RunsFrom(b, i) = RunsFrom(b, i + 1)
    BY <2>1, NoRunHere
  <2>6. PICK m, P, Q : Matches(b, from[i + 1], i + 1, m, P, Q)
    BY <2>4 DEF Scanned, Agree
  <2>7. Matches(b, from[i], i, m, P, Q)
    BY <2>2, <2>5, <2>6 DEF Matches
  <2>8. from[i] \in Seq(Seq(C)) /\ Len(from[i]) <= Len(b) + 1 - i
    <3>1. from[i] \in Seq(Seq(C)) /\ Len(from[i]) <= Len(b) + 1 - (i + 1)
      BY <2>2, <2>4 DEF Scanned
    <3>2. Len(from[i]) \in Nat
      BY <3>1, LenProperties
    <3> QED
      BY <3>1, <3>2
  <2> QED
    BY <2>7, <2>8 DEF Scanned, Agree
<1>2. CASE ~Skipped(b, i)
  <2> DEFINE e == Min(EndOf(b, i))
             x == SubSeq(b, i, e - 1)
             w == from[e + 1]
  <2>1. e \in i..Len(b) /\ b[e] \in Spaces /\ \A j \in i..(e - 1) : b[j] \notin Spaces
    BY <1>2, FirstEnd DEF Skipped
  <2>2. from[i] = <<x>> \o w
    BY <1>2, <1>00, Zenon DEF IsScan, Skipped
  <2> HIDE DEF e
  <2>3. /\ x \in Seq(C)
        /\ e = i => x = <<>>
        /\ e > i => x # <<>>
    BY <2>1, WordIsSeq
  <2>4. e + 1 \in (i + 1)..(Len(b) + 1) /\ (e + 1) - 1 = e
    BY <2>1
  <2>5. Scanned(C, b, w, e + 1)
    <3>1. MayStart(b, e + 1)
      BY <2>1, <2>4 DEF MayStart
    <3> QED
      BY <2>4, <3>1
  <2>6. w \in Seq(Seq(C)) /\ Len(w) <= Len(b) + 1 - (e + 1) /\ Len(w) \in Nat
    BY <2>5, LenProperties DEF Scanned
  <2>7. Agree(b, w, e + 1)
    BY <2>5 DEF Scanned
  <2> HIDE DEF x, w
  <2>8. <<x>> \o w \in Seq(Seq(C)) /\ Len(<<x>> \o w) = Len(w) + 1
    BY <2>3, <2>6, Prepended
  <2>9. Len(from[i]) <= Len(b) + 1 - i
    BY <2>1, <2>2, <2>6, <2>8
  <2>10. Agree(b, from[i], i)
    <3>1. CASE b[i] \in Spaces
      <4>1. e = i
        BY <3>1, <2>1
      <4>2. RunsFrom(b, i) = RunsFrom(b, e + 1)
        BY <3>1, <4>1, NoRunHere
      <4>3. Plain(b) => RunsFrom(b, e + 1) = {}
        <5> SUFFICES ASSUME Plain(b) PROVE RunsFrom(b, e + 1) = {}
          OBVIOUS
        <5>1. b[i] = Newline
          <6>1. b[i] # Blank /\ b[i] # Tab
            BY <1>2 DEF Skipped, Plain, Tabbed
          <6> QED
            BY <6>1, <3>1 DEF Spaces
        <5>2. i = Len(b)
          BY <5>1 DEF Plain
        <5> QED
          BY <5>2, <4>1, NoRunBehind
      <4>4. x = <<>>
        BY <4>1, <2>3
      <4>5. <<>> \in Seq(C)
        BY EmptySeq
      <4>6. Agree(b, <<<<>>>> \o w, i)
        BY <2>6, <2>7, <4>2, <4>3, <4>5, EmptyInFront
      <4> QED
        BY <4>4, <4>6, <2>2
    <3>2. CASE b[i] \notin Spaces
      <4> DEFINE r == <<i, e - 1>>
      <4>1. i = 1 \/ b[i - 1] \in Spaces
        BY <1>2 DEF MayStart, Skipped
      <4>2. /\ r \in RunsFrom(b, i)
            /\ \A s \in RunsFrom(b, i) : s = r \/ s \in RunsFrom(b, e + 1)
            /\ \A s \in RunsFrom(b, e + 1) : s \in RunsFrom(b, i)
        BY <4>1, <3>2, <2>1, RunHere
      <4>3. r[1] = i /\ x = Word(b, r)
        BY DEF Word, x
      <4>4. e > i /\ i < e + 1 /\ i \in Nat /\ e + 1 \in Nat
        BY <2>1, <3>2
      <4>5. x # <<>>
        BY <4>4, <2>3
      <4> HIDE DEF r
      <4>6. Runs(b) \subseteq Nat \X Nat
        BY RunsType
      <4>7. Agree(b, <<x>> \o w, i)
        BY <2>3, <2>6, <2>7, <4>2, <4>3, <4>4, <4>5, <4>6, RunInFront
      <4> QED
        BY <4>7, <2>2
    <3> QED
      BY <3>1, <3>2
  <2> QED
    BY <2>2, <2>8, <2>9, <2>10 DEF Scanned
<1> QED
  BY <1>1, <1>2

LEMMA SplitMatches ==
    ASSUME NEW C, NEW b \in Seq(C)
    PROVE  Scanned(C, b, Split(b), 1)
<1>1. PICK from : IsScan(b, from) /\ Split(b) = from[1]
  BY SplitScans
<1> DEFINE n == Len(b)
           S == {k \in Nat : \A h \in 1..(n + 1) :
                     h >= n + 1 - k /\ MayStart(b, h) => Scanned(C, b, from[h], h)}
<1>2. n \in Nat
  OBVIOUS
<1>3. Scanned(C, b, from[n + 1], n + 1)
  <2>1. from[n + 1] = <<>>
    <3>1. n + 1 \in 1..Len(b) + 1 /\ n + 1 > Len(b)
      OBVIOUS
    <3> HIDE DEF n
    <3> QED
      BY <3>1, <1>1, Zenon DEF IsScan
  <2>2. RunsFrom(b, n + 1) = {}
    BY NoRunBehind
  <2>3. /\ <<>> \in Seq(Seq(C)) /\ Len(<<>>) = 0 /\ Len(<<>>) <= n + 1 - (n + 1)
    BY EmptySeq
  <2>4. Matches(b, <<>>, n + 1, 0, <<>>, <<>>)
    <3>1. Filled(<<>>) = {} /\ 1..0 = {}
      BY DEF Filled
    <3>2. <<>> \in [1..0 -> {}]
      OBVIOUS
    <3> QED
      BY <2>2, <3>1, <3>2 DEF Matches
  <2> QED
    BY <2>1, <2>3, <2>4 DEF Scanned, Agree
<1>4. 0 \in S
  <2>1. \A h \in 1..(n + 1) : h >= n + 1 - 0 => h = n + 1
    OBVIOUS
  <2> HIDE DEF n
  <2> QED
    BY <2>1, <1>3
<1>5. ASSUME NEW k \in Nat, k \in S PROVE k + 1 \in S
  <2> SUFFICES ASSUME NEW i \in 1..(n + 1), i >= n + 1 - (k + 1), MayStart(b, i)
               PROVE  Scanned(C, b, from[i], i)
    OBVIOUS
  <2>1. \A h \in 1..(n + 1) : h >= n + 1 - k /\ MayStart(b, h) => Scanned(C, b, from[h], h)
    BY <1>5
  <2> HIDE DEF S
  <2>2. CASE i >= n + 1 - k
    BY <2>1, <2>2
  <2>3. CASE i < n + 1 - k
    <3>1. \A h \in (i + 1)..(n + 1) : h \in 1..(n + 1) /\ h >= n + 1 - k
      BY <2>3
    <3>2. \A h \in (i + 1)..(n + 1) : MayStart(b, h) => Scanned(C, b, from[h], h)
      BY <2>1, <3>1
    <3>3. CASE i = n + 1
      BY <3>3, <1>3
    <3>4. CASE i # n + 1
      <4>1. i \in 1..n
        BY <3>4
      <4> QED
        BY <4>1, <3>2, <1>1, ScanStep
    <3> QED
      BY <3>3, <3>4
  <2> QED
    BY <2>2, <2>3, <1>2
<1>6. n \in S
  <2> HIDE DEF S
  <2> QED
    BY <1>2, <1>4, <1>5, EveryNumber
<1>7. Scanned(C, b, from[1], 1)
  <2>1. 1 \in 1..(n + 1) /\ 1 >= n + 1 - n
    BY <1>2
  <2>2. MayStart(b, 1)
    BY DEF MayStart
  <2> QED
    BY <1>6, <2>1, <2>2
<1> QED
  BY <1>1, <1>7

-----------------------------------------------------------------------------
(* Counting what is listed.                                                *)

Firsts(f, k) == {f[j] : j \in 1..k}

LEMMA Listed ==
    ASSUME NEW m \in Nat, NEW f, \A j, k \in 1..m : j # k => f[j] # f[k]
    PROVE  Cardinality(Firsts(f, m)) = m
<1> DEFINE T == {f[k] : k \in 1..m}
           g == [k \in 1..m |-> f[k]]
<1>1. g \in [1..m -> T]
  OBVIOUS
<1>2. \A j, k \in 1..m : g[j] = g[k] => j = k
  OBVIOUS
<1>3. \A t \in T : \E k \in 1..m : g[k] = t
  OBVIOUS
<1> HIDE DEF g, T
<1>4. g \in Bijection(1..m, T)
  BY <1>1, <1>2, <1>3 DEF Bijection, Injection, Surjection, IsInjective
<1>5. ExistsBijection(1..m, T)
  BY <1>4 DEF ExistsBijection
<1>6. Cardinality(T) = m
  BY <1>5, FS_CountingElements
<1> QED
  BY <1>6 DEF T, Firsts

\* In a listing in ascending order, an element has as many predecessors as
\* there are before it.
LEMMA ListedBefore ==
    ASSUME NEW m \in Nat, NEW f, \A j, k \in 1..m : j # k => f[j] # f[k], NEW k \in 0..m
    PROVE  Cardinality(Firsts(f, k)) = k
<1>1. k \in Nat /\ \A i, j \in 1..k : i # j => f[i] # f[j]
  OBVIOUS
<1> QED
  BY <1>1, Listed

LEMMA TypedAreListed ==
    ASSUME NEW C, NEW b \in Seq(C), NEW words, NEW m, NEW P, NEW Q, Matches(b, words, 1, m, P, Q)
    PROVE  Typed(b) = [k \in 1..m |-> Word(b, P[k])]
<1> DEFINE Before(r) == {s \in Runs(b) : s[1] < r[1]}
           Nth(k) == CHOOSE r \in Runs(b) : Cardinality(Before(r)) = k - 1
<1>1. RunsFrom(b, 1) = Runs(b) /\ \A r \in Runs(b) : r[1] \in Nat
  BY DEF RunsFrom, Runs
<1>2. /\ m \in Nat /\ \A k \in 1..m : P[k] \in Runs(b) /\ P[k][1] \in Nat
      /\ \A j, k \in 1..m : j < k => P[j][1] < P[k][1]
      /\ \A r \in Runs(b) : \E k \in 1..m : P[k] = r
  <2>1. /\ m \in Nat /\ P \in [1..m -> Runs(b)]
        /\ \A j, k \in 1..m : j < k => P[j][1] < P[k][1] /\ Q[j] < Q[k]
        /\ \A r \in Runs(b) : \E k \in 1..m : P[k] = r
    BY <1>1, Zenon DEF Matches
  <2> QED
    BY <1>1, <2>1
<1>3. \A j, k \in 1..m : j # k => P[j] # P[k]
  BY <1>2
<1>4. ASSUME NEW k \in 1..m PROVE Cardinality(Before(P[k])) = k - 1
  <2>1. Before(P[k]) = Firsts(P, k - 1)
    <3>1. ASSUME NEW s \in Before(P[k]) PROVE \E j \in 1..(k - 1) : P[j] = s
      <4>1. PICK j \in 1..m : P[j] = s
        BY <1>2
      <4>2. P[j][1] < P[k][1]
        BY <4>1
      <4>3. j < k
        BY <4>2, <1>2
      <4> QED
        BY <4>1, <4>3
    <3>2. ASSUME NEW j \in 1..(k - 1) PROVE P[j] \in Before(P[k])
      <4>1. j \in 1..m /\ j < k
        BY <1>2
      <4> QED
        BY <4>1, <1>2
    <3> HIDE DEF Before
    <3>3. Before(P[k]) \subseteq {P[j] : j \in 1..(k - 1)}
      BY <3>1
    <3>4. {P[j] : j \in 1..(k - 1)} \subseteq Before(P[k])
      BY <3>2
    <3> QED
      BY <3>3, <3>4 DEF Firsts
  <2>2. k - 1 \in 0..m
    BY <1>2
  <2>3. Cardinality(Firsts(P, k - 1)) = k - 1
    BY <1>2, <1>3, <2>2, ListedBefore
  <2> HIDE DEF Before
  <2> QED
    BY <2>1, <2>3
<1>5. Cardinality(Runs(b)) = m
  <2>1. Runs(b) = Firsts(P, m)
    BY <1>2 DEF Firsts
  <2> QED
    BY <2>1, <1>2, <1>3, Listed
<1>6. ASSUME NEW k \in 1..m PROVE Nth(k) = P[k]
  <2> HIDE DEF Before
  <2>1. P[k] \in Runs(b) /\ Cardinality(Before(P[k])) = k - 1
    BY <1>2, <1>4
  <2>2. Nth(k) \in Runs(b) /\ Cardinality(Before(Nth(k))) = k - 1
    BY <2>1, Zenon
  <2> HIDE DEF Nth
  <2>3. PICK j \in 1..m : P[j] = Nth(k)
    BY <2>2, <1>2
  <2>4. j - 1 = k - 1
    BY <2>2, <2>3, <1>4
  <2>5. j = k
    BY <2>4, <1>2
  <2> QED
    BY <2>3, <2>5
<1>7. Typed(b) = [k \in 1..m |-> SubSeq(b, Nth(k)[1], Nth(k)[2])]
  BY <1>5 DEF Typed
<1> HIDE DEF Nth
<1>8. \A k \in 1..m : SubSeq(b, Nth(k)[1], Nth(k)[2]) = Word(b, P[k])
  BY <1>6 DEF Word
<1> QED
  BY <1>7, <1>8

\* The words that are not empty are those typed, the n-th the n-th.
WordsAreTyped(words, b) ==
    /\ Cardinality(Filled(words)) = Len(Typed(b))
    /\ \A i \in Filled(words) : words[i] = Typed(b)[Cardinality({j \in Filled(words) : j <= i})]
    /\ Plain(b) => IsPrefix(Typed(b), words)

LEMMA SplitIsTyped ==
    ASSUME NEW C, NEW b \in Seq(C)
    PROVE  /\ Split(b) \in Seq(Seq(C)) /\ Len(Split(b)) <= Len(b)
           /\ Typed(b) \in Seq(Seq(C))
           /\ WordsAreTyped(Split(b), b)
<1> DEFINE words == Split(b)
           F == Filled(words)
<1>1. Scanned(C, b, words, 1)
  BY SplitMatches
<1> HIDE DEF words
<1>2. words \in Seq(Seq(C)) /\ Len(words) <= Len(b)
  <2>1. words \in Seq(Seq(C)) /\ Len(words) <= Len(b) + 1 - 1
    BY <1>1 DEF Scanned
  <2> QED
    BY <2>1
<1>3. PICK m, P, Q : Matches(b, words, 1, m, P, Q)
  BY <1>1 DEF Scanned, Agree
<1>4. Typed(b) = [k \in 1..m |-> Word(b, P[k])]
  BY <1>3, TypedAreListed
<1>5. Len(words) \in Nat /\ DOMAIN words = 1..Len(words)
  BY <1>2, LenProperties
<1>6. /\ m \in Nat /\ Q \in [1..m -> F]
      /\ \A j, k \in 1..m : j < k => Q[j] < Q[k]
      /\ \A l \in F : \E k \in 1..m : Q[k] = l
      /\ \A k \in 1..m : words[Q[k]] = Word(b, P[k])
      /\ Plain(b) => \A k \in 1..m : Q[k] = k
  BY <1>3, Zenon DEF Matches
<1>7. \A l \in F : l \in 1..Len(words) /\ l \in Nat
  BY <1>5 DEF Filled
<1> HIDE DEF F
<1>8. \A j, k \in 1..m : j # k => Q[j] # Q[k]
  BY <1>6, <1>7
<1>9. ASSUME NEW k \in 1..m PROVE Word(b, P[k]) = words[Q[k]] /\ words[Q[k]] \in Seq(C)
  BY <1>2, <1>6, <1>7, ElementOfSeq
<1>10. Typed(b) \in Seq(Seq(C)) /\ Len(Typed(b)) = m /\ \A k \in 1..m : Typed(b)[k] = words[Q[k]]
  <2>1. \A k \in 1..m : Word(b, P[k]) \in Seq(C)
    BY <1>9
  <2> QED
    BY <1>4, <1>6, <1>9, <2>1
<1>11. Cardinality(F) = m
  <2>1. F = Firsts(Q, m)
    BY <1>6 DEF Firsts
  <2> QED
    BY <2>1, <1>6, <1>8, Listed
<1>12. ASSUME NEW i \in F PROVE words[i] = Typed(b)[Cardinality({j \in F : j <= i})]
  <2>1. PICK k \in 1..m : Q[k] = i
    BY <1>6
  <2>2. {j \in F : j <= i} = Firsts(Q, k)
    <3>1. ASSUME NEW j \in F, j <= i PROVE \E l \in 1..k : Q[l] = j
      <4>1. PICK l \in 1..m : Q[l] = j
        BY <1>6
      <4>2. l <= k
        BY <2>1, <3>1, <4>1, <1>6, <1>7
      <4> QED
        BY <4>1, <4>2
    <3>2. ASSUME NEW l \in 1..k PROVE Q[l] \in F /\ Q[l] <= i
      <4>1. l \in 1..m /\ (l < k \/ l = k)
        BY <1>6
      <4>2. Q[l] < Q[k] \/ Q[l] = Q[k]
        BY <4>1, <1>6
      <4> QED
        BY <4>1, <4>2, <2>1, <1>6, <1>7
    <3> QED
      BY <3>1, <3>2 DEF Firsts
  <2>3. k \in 0..m
    BY <1>6
  <2>4. Cardinality(Firsts(Q, k)) = k
    BY <2>3, <1>6, <1>8, ListedBefore
  <2> QED
    BY <2>1, <2>2, <2>4, <1>10
<1>13. ASSUME Plain(b) PROVE IsPrefix(Typed(b), words)
  <2>1. \A k \in 1..m : Q[k] = k /\ k \in 1..Len(words)
    BY <1>6, <1>7, <1>13
  <2>2. m <= Len(words)
    BY <2>1, <1>5, <1>6
  <2>3. \A k \in 1..m : Typed(b)[k] = words[k]
    BY <2>1, <1>10
  <2> QED
    BY <2>2, <2>3, <1>2, <1>6, <1>10 DEF IsPrefix
<1>14. WordsAreTyped(words, b)
  BY <1>10, <1>11, <1>12, <1>13 DEF WordsAreTyped, F
<1> QED
  BY <1>2, <1>10, <1>14 DEF words

-----------------------------------------------------------------------------
(* The inductive invariant.                                                *)

LEMMA LeastOfTwo ==
    ASSUME NEW x \in Nat, NEW y \in Nat
    PROVE  Min({x, y}) \in Nat /\ Min({x, y}) <= x /\ Min({x, y}) <= y
<1> DEFINE S == {x, y}
<1>1. S \in SUBSET Nat /\ S # {} /\ x \in S /\ y \in S
  OBVIOUS
<1> HIDE DEF S
<1>2. Min(S) \in S /\ \A j \in S : Min(S) <= j
  BY <1>1, LeastOf
<1>3. Min(S) \in Nat /\ Min(S) <= x /\ Min(S) <= y
  BY <1>1, <1>2
<1> QED
  BY <1>3 DEF S

\* Any piece of a line is one.
LEMMA PieceOfLine ==
    ASSUME NEW s, IsLine(s), NEW i \in 1..(Len(s) + 1), NEW j \in (i - 1)..Len(s)
    PROVE  IsLine(SubSeq(s, i, j)) /\ Len(SubSeq(s, i, j)) = j - i + 1
<1> DEFINE C == Letters \cup Spaces
           t == SubSeq(s, i, j)
<1>1. s \in Seq(C) /\ \A k \in 1..(Len(s) - 1) : s[k] # Newline
  BY DEF IsLine
<1>2. \A k \in i..j : s[k] \in C
  BY <1>1, ElementOfSeq
<1> HIDE DEF C
<1>3. /\ t \in Seq(C) /\ Len(t) = IF i <= j THEN j - i + 1 ELSE 0
      /\ \A k \in 1..(j - i + 1) : t[k] = s[i + k - 1]
  <2>1. i \in Int /\ j \in Int
    BY <1>1
  <2> QED
    BY <1>2, <2>1, SubSeqProperties
<1>4. Len(t) = j - i + 1
  BY <1>1, <1>3
<1> HIDE DEF t
<1>5. ASSUME NEW k \in 1..(Len(t) - 1) PROVE t[k] # Newline
  <2>1. k \in 1..(j - i + 1) /\ i + k - 1 \in 1..(Len(s) - 1)
    BY <1>1, <1>4
  <2> QED
    BY <2>1, <1>1, <1>3
<1> QED
  BY <1>3, <1>4, <1>5 DEF IsLine, C, t

LEMMA InitIInv == Init => IInv
<1> SUFFICES ASSUME Init PROVE IInv
  OBVIOUS
<1>1. IsLine(<<>>)
  BY DEF IsLine
<1> QED
  BY <1>1, SizeAssumption DEF Init, IInv

LEMMA TypeStep == IInv /\ Type => IInv'
<1> SUFFICES ASSUME IInv, Type PROVE IInv'
  OBVIOUS
<1>1. input' \in Lines \/ input' = input
  BY DEF Type
<1>2. IsLine(input')
  BY <1>1, LinesAssumption DEF IInv, IsLine
<1>3. funs' = funs /\ pc' = "prompt" /\ nelts' = nelts
  BY DEF Type
<1> QED
  BY <1>2, <1>3 DEF IInv

LEMMA get_commandStep == IInv /\ get_command => IInv'
<1> SUFFICES ASSUME IInv, get_command PROVE IInv'
  OBVIOUS
<1> DEFINE n == Min({BufSize - 1, Len(input)})
           C == Letters \cup Spaces
<1>1. /\ buf' = SubSeq(input, 1, n) /\ input' = SubSeq(input, n + 1, Len(input))
      /\ Push(Split(buf')) /\ funs' = funs
  BY DEF get_command
<1>2. IsLine(input) /\ Len(input) \in Nat /\ BufSize - 1 \in Nat
  BY SizeAssumption DEF IInv, IsLine
<1>3. n \in Nat /\ n <= BufSize - 1 /\ n <= Len(input)
  BY <1>2, LeastOfTwo
<1> HIDE DEF n
<1>4. IsLine(buf') /\ Len(buf') = n
  <2>1. 1 \in 1..(Len(input) + 1) /\ n \in (1 - 1)..Len(input) /\ n - 1 + 1 = n
    BY <1>2, <1>3
  <2> QED
    BY <1>1, <1>2, <2>1, PieceOfLine
<1>5. IsLine(input')
  <2>1. n + 1 \in 1..(Len(input) + 1) /\ Len(input) \in (n + 1 - 1)..Len(input)
    BY <1>2, <1>3
  <2> QED
    BY <1>1, <1>2, <2>1, PieceOfLine
<1>6. buf' \in Seq(C)
  BY <1>4 DEF IsLine
<1> DEFINE words == Split(buf')
<1>7. words \in Seq(Seq(C)) /\ Len(words) <= Len(buf')
  BY <1>6, SplitIsTyped
<1>8. /\ nelts' = Len(words)
      /\ elts' = [k \in 0..MaxWords |-> IF k < Len(words) THEN words[k + 1] ELSE elts[k]]
  BY <1>1 DEF Push
<1> HIDE DEF words
<1>9. Len(words) \in Nat /\ Len(words) <= MaxWords + 1 /\ MaxWords \in Nat
  BY <1>2, <1>3, <1>4, <1>7, SizeAssumption
<1>10. Read' = words
  <2>1. ASSUME NEW k \in 1..Len(words) PROVE elts'[k - 1] = words[k]
    <3>1. k - 1 \in 0..MaxWords /\ k - 1 < Len(words) /\ (k - 1) + 1 = k
      BY <1>9
    <3> QED
      BY <3>1, <1>8
  <2>2. Read' = [k \in 1..Len(words) |-> elts'[k - 1]]
    BY <1>8 DEF Read
  <2>3. Read' = [k \in 1..Len(words) |-> words[k]]
    BY <2>1, <2>2
  <2>4. words = [k \in 1..Len(words) |-> words[k]]
    BY <1>7
  <2> QED
    BY <2>3, <2>4
<1>11. Len(buf') < BufSize
  BY <1>3, <1>4, SizeAssumption
<1>12. nelts' \in 0..(MaxWords + 1)
  BY <1>8, <1>9
<1> QED
  BY <1>1, <1>4, <1>5, <1>10, <1>11, <1>12 DEF IInv, words

LEMMA play_commandStep == IInv /\ play_command => IInv'
<1> SUFFICES ASSUME IInv, play_command PROVE IInv'
  OBVIOUS
<1>1. input' = input /\ nelts' = nelts /\ pc' \in {"prompt", "exited", "crashed"} /\ funs' \in {funs, Symbols}
  BY DEF play_command, command_break, command_dbug, command_attach, command_watch, command_exit,
         ConvertArgument, Argumentless
<1> QED
  BY <1>1 DEF IInv

LEMMA Steps == IInv /\ [Next]_vars => IInv'
<1> SUFFICES ASSUME IInv, [Next]_vars PROVE IInv'
  OBVIOUS
<1>1. CASE UNCHANGED vars
  BY <1>1 DEF vars, IInv, Read
<1>2. CASE Ended
  BY <1>1, <1>2 DEF Ended
<1> QED
  BY <1>1, <1>2, TypeStep, get_commandStep, play_commandStep DEF Next

LEMMA Invariant == Spec => []IInv
BY InitIInv, Steps, PTL DEF Spec

-----------------------------------------------------------------------------
(* The theorems.                                                           *)

LEMMA ReadIsTyped ==
    ASSUME IInv, pc = "play"
    PROVE  /\ buf \in Seq(Letters \cup Spaces)
           /\ Read \in Seq(Seq(Letters \cup Spaces)) /\ Len(Read) = nelts /\ DOMAIN Read = 1..nelts
           /\ Typed(buf) \in Seq(Seq(Letters \cup Spaces))
           /\ WordsAreTyped(Read, buf)
           /\ ~Tabbed(buf) => Plain(buf)
<1> DEFINE C == Letters \cup Spaces
<1>1. IsLine(buf) /\ Read = Split(buf)
  BY DEF IInv
<1>2. buf \in Seq(C)
  BY <1>1 DEF IsLine
<1> HIDE DEF C
<1>3. Read \in Seq(Seq(C)) /\ Typed(buf) \in Seq(Seq(C)) /\ WordsAreTyped(Read, buf)
  BY <1>1, <1>2, SplitIsTyped
<1>4. DOMAIN Read = 1..nelts
  BY DEF Read
<1>5. Len(Read) \in Nat /\ DOMAIN Read = 1..Len(Read)
  BY <1>3, LenProperties
<1>6. Len(Read) = nelts
  BY <1>4, <1>5, SizeAssumption DEF IInv
<1> QED
  BY <1>1, <1>2, <1>3, <1>4, <1>6 DEF IsLine, Plain, C

\* SplitIsRight, for any letters, lines and size of the buffer: the words read
\* are those typed, in order and whole (get_command).
THEOREM LinesAreSplitRight == Spec => []SplitIsRight
<1>1. IInv => SplitIsRight
  <2> SUFFICES ASSUME IInv, pc = "play" PROVE SplitIsRight
    BY DEF SplitIsRight
  <2>1. WordsAreTyped(Read, buf) /\ (~Tabbed(buf) => Plain(buf))
    BY ReadIsTyped
  <2> QED
    BY <2>1, Zenon DEF SplitIsRight, WordsAreTyped, Filled
<1> QED
  BY <1>1, Invariant, PTL

LEMMA Found ==
    ASSUME NEW word
    PROVE  /\ Lookup(word) # 0 => Lookup(word) \in DOMAIN cmd_set /\ cmd_set[Lookup(word)].name = word
           /\ Lookup(word) = 0 => \A i \in DOMAIN cmd_set : cmd_set[i].name # word
<1> DEFINE I == {i \in 1..Len(cmd_set) : cmd_set[i].name = word}
<1>1. DOMAIN cmd_set = 1..Len(cmd_set) /\ Len(cmd_set) \in Nat
  BY DEF cmd_set
<1>2. Lookup(word) = IF I # {} THEN Min(I) ELSE 0
  BY DEF Lookup, SelectInSeq
<1>3. I # {} => Min(I) \in I
  <2>1. I \in SUBSET Nat
    BY <1>1
  <2> HIDE DEF I
  <2> QED
    BY <1>1, <2>1, LeastOf
<1> QED
  BY <1>1, <1>2, <1>3

LEMMA SymbolFound ==
    ASSUME NEW word, word # Unset, funs \in {<<>>, Symbols}
    PROVE  LET matches == {i \in DOMAIN funs : IsPrefix(word, funs[i])}
           IN IF matches = {} THEN find_func(word) = 0 ELSE find_func(word) \in matches
<1> DEFINE I == {i \in 1..Len(funs) : IsPrefix(word, funs[i])}
<1>1. DOMAIN funs = 1..Len(funs) /\ Len(funs) \in Nat
  BY SymbolsAssumption
<1>2. find_func(word) = IF I # {} THEN Min(I) ELSE 0
  BY DEF find_func, SelectInSeq
<1>3. I # {} => Min(I) \in I
  <2>1. I \in SUBSET Nat
    BY <1>1
  <2> HIDE DEF I
  <2> QED
    BY <1>1, <2>1, LeastOf
<1> QED
  BY <1>1, <1>2, <1>3

\* What is in front of the array is what was typed.
LEMMA WordsInPlace ==
    ASSUME IInv, pc = "play", ~Tabbed(buf), NEW k \in 1..Len(Typed(buf))
    PROVE  elts[k - 1] = Typed(buf)[k] /\ elts[k - 1] # Unset
<1> DEFINE C == Letters \cup Spaces
           typed == Typed(buf)
<1>1. /\ Read \in Seq(Seq(C)) /\ Len(Read) = nelts
      /\ typed \in Seq(Seq(C)) /\ IsPrefix(typed, Read)
  BY ReadIsTyped DEF WordsAreTyped
<1>2. k \in 1..Len(typed)
  OBVIOUS
<1> HIDE DEF typed
<1>3. typed[k] = Read[k] /\ k \in 1..nelts
  <2>1. Len(typed) \in Nat /\ Len(Read) \in Nat
    BY <1>1, LenProperties
  <2>2. Len(typed) <= Len(Read) /\ SubSeq(typed, 1, Len(typed)) = SubSeq(Read, 1, Len(typed))
    BY <1>1 DEF IsPrefix
  <2>3. /\ SubSeq(typed, 1, Len(typed))[k] = typed[1 + k - 1]
        /\ SubSeq(Read, 1, Len(typed))[k] = Read[1 + k - 1]
    <3> HIDE DEF C
    <3>0. /\ \A i \in 1..Len(typed) : typed[i] \in Seq(C)
          /\ \A i \in 1..Len(Read) : Read[i] \in Seq(C)
      BY <1>1, ElementOfSeq
    <3>1. /\ \A i \in 1..Len(typed) : typed[i] \in Seq(C)
          /\ \A i \in 1..Len(typed) : Read[i] \in Seq(C)
      BY <2>1, <2>2, <3>0
    <3>2. k \in 1..(Len(typed) - 1 + 1) /\ Len(typed) \in Int /\ 1 \in Int
      BY <1>2, <2>1
    <3> QED
      BY <3>1, <3>2, SubSeqProperties
  <2>4. 1 + k - 1 = k
    BY <1>2
  <2> QED
    BY <1>1, <1>2, <2>1, <2>2, <2>3, <2>4
<1>4. Read[k] = elts[k - 1]
  BY <1>3 DEF Read
<1>5. typed[k] \in Seq(C)
  BY <1>1, <1>2
<1>6. Unset \notin Seq(C)
  <2> SUFFICES ASSUME Unset \in Seq(C) PROVE FALSE
    OBVIOUS
  <2>1. Unset[1] \in C /\ Unset[1] = "NULL"
    BY DEF Unset
  <2>2. "NULL" \notin C
    BY LettersAssumption DEF Spaces, Blank, Tab, Newline
  <2> QED
    BY <2>1, <2>2
<1> QED
  BY <1>3, <1>4, <1>5, <1>6 DEF typed

LEMMA PlaysWhatWasTyped ==
    ASSUME IInv
    PROVE  PlayedAsTyped
<1> SUFFICES ASSUME play_command, ~Tabbed(buf), Typed(buf) # <<>> PROVE PlayedAsTyped
  BY DEF PlayedAsTyped
<1> DEFINE typed == Typed(buf)
           it == Lookup(elts[0])
           fun == IF it = 0 THEN "none" ELSE cmd_set[it].fun
<1>1. pc = "play"
  BY DEF play_command
<1>2. typed \in Seq(Seq(Letters \cup Spaces)) /\ Len(Read) = nelts /\ Len(typed) <= Len(Read)
  BY <1>1, ReadIsTyped DEF WordsAreTyped, IsPrefix
<1>3. Len(typed) \in Nat /\ Len(typed) >= 1
  BY <1>2, EmptySeq
<1>4. \A k \in 1..Len(typed) : elts[k - 1] = typed[k] /\ elts[k - 1] # Unset
  BY <1>1, WordsInPlace
<1> HIDE DEF typed
<1>5. elts[0] = typed[1]
  <2>1. 1 \in 1..Len(typed) /\ 1 - 1 = 0
    BY <1>3
  <2> QED
    BY <2>1, <1>4
<1>6. Len(typed) > 1 => elts[1] = typed[2] /\ elts[1] # Unset
  <2>1. Len(typed) > 1 => 2 \in 1..Len(typed) /\ 2 - 1 = 1
    BY <1>3
  <2> QED
    BY <2>1, <1>4
<1>7. /\ it # 0 => it \in DOMAIN cmd_set /\ cmd_set[it].name = typed[1]
      /\ it = 0 => \A i \in DOMAIN cmd_set : cmd_set[i].name # typed[1]
  BY <1>5, Found
<1>8. \/ fun = "break" /\ command_break
      \/ fun = "dbug" /\ command_dbug
      \/ fun = "attach" /\ command_attach
      \/ fun = "watch" /\ command_watch
      \/ fun = "exit" /\ command_exit
      \/ fun \in {"continue", "show", "showreg", "showbps", "none"} /\ Argumentless(fun)
  BY DEF play_command
<1> HIDE DEF it
<1>9. it # 0 => fun # "none"
  BY <1>7 DEF cmd_set
<1> HIDE DEF fun
<1>10. /\ call'.fun = fun
       /\ fun \in {"break", "attach", "watch", "dbug"} => call'.arg = elts[1]
       /\ fun = "dbug" => call'.argv = Argv
       /\ fun = "break" => call'.sym = find_func(elts[1])
  BY <1>8 DEF command_break, command_dbug, command_attach, command_watch, command_exit,
              ConvertArgument, Argumentless
<1>11. LET named == {c \in ToSet(cmd_set) : c.name = typed[1]}
       IN IF named = {} THEN call'.fun = "none" ELSE \E c \in named : call'.fun = c.fun
  <2> DEFINE named == {c \in ToSet(cmd_set) : c.name = typed[1]}
  <2>1. CASE it = 0
    <3>1. named = {}
      BY <2>1, <1>7 DEF ToSet
    <3>2. call'.fun = "none"
      BY <2>1, <1>10 DEF fun
    <3> QED
      BY <3>1, <3>2
  <2>2. CASE it # 0
    <3>1. cmd_set[it] \in named /\ call'.fun = cmd_set[it].fun
      BY <2>2, <1>7, <1>10 DEF ToSet, fun
    <3> QED
      BY <3>1
  <2> QED
    BY <2>1, <2>2
<1>12. ASSUME fun = "dbug", NEW k \in 2..Len(typed) PROVE call'.argv[k - 2] = typed[k]
  <2>1. k - 2 \in 0..(nelts - 1) /\ (k - 2) + 1 = k - 1 /\ k \in 1..Len(typed)
    BY <1>2, <1>3, SizeAssumption DEF IInv
  <2>2. Argv[k - 2] = elts[k - 1]
    BY <2>1 DEF Argv
  <2> QED
    BY <2>1, <2>2, <1>4, <1>10, <1>12
<1>13. ASSUME fun = "break", Len(typed) > 1
       PROVE  LET matches == {i \in DOMAIN funs : IsPrefix(typed[2], funs[i])}
              IN IF matches = {} THEN call'.sym = 0 ELSE call'.sym \in matches
  <2>1. funs \in {<<>>, Symbols}
    BY DEF IInv
  <2>2. LET matches == {i \in DOMAIN funs : IsPrefix(elts[1], funs[i])}
        IN IF matches = {} THEN find_func(elts[1]) = 0 ELSE find_func(elts[1]) \in matches
    BY <1>6, <1>13, <2>1, SymbolFound
  <2>3. call'.sym = find_func(elts[1]) /\ elts[1] = typed[2]
    BY <1>6, <1>10, <1>13
  <2> QED
    BY <2>2, <2>3
<1> QED
  BY <1>6, <1>10, <1>11, <1>12, <1>13 DEF PlayedAsTyped, typed

\* CallsWhatWasTyped, for any letters, lines, symbols and sizes: the function run
\* is the one named and gets the words of this line (play_command, find_func and
\* the functions it calls).
THEOREM CommandsGetWhatWasTyped == Spec => CallsWhatWasTyped
<1>1. IInv => PlayedAsTyped
  BY PlaysWhatWasTyped
<1> QED
  BY <1>1, Invariant, PTL DEF Spec, CallsWhatWasTyped
=============================================================================
