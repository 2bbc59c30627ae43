----------------------------- MODULE Pool_proof -----------------------------
(***************************************************************************)
(* The pool is safe for every block size, any callers, descriptors, arrays *)
(* and any bounds: an inductive invariant, kept by every action, and what  *)
(* follows from it.                                                        *)
(***************************************************************************)
EXTENDS Pool, WellFoundedInduction, FiniteSetTheorems, SequenceTheorems, TLAPS

-----------------------------------------------------------------------------
(* Numbers.                                                                *)

\* The order of the numbers is well founded.
LEMMA LessIsWellFounded == IsWellFoundedOn({ss \in Nat \X Nat : ss[1] < ss[2]}, Nat)
BY NatLessThanWellFounded DEF OpToRel

\* Every set of numbers has a least one.
LEMMA LeastExists ==
    ASSUME NEW S \in SUBSET Nat, S # {}
    PROVE  \E i \in S : \A j \in S : i <= j
<1> DEFINE R == {ss \in Nat \X Nat : ss[1] < ss[2]}
<1>1. PICK i \in S : \A j \in S : ~(<<j, i>> \in R)
  <2> HIDE DEF R
  <2>1. IsWellFoundedOn(R, Nat)
    BY LessIsWellFounded DEF R
  <2> QED
    BY <2>1, WFMin
<1>2. ASSUME NEW j \in S PROVE i <= j
  <2>1. i \in Nat /\ j \in Nat
    OBVIOUS
  <2>2. <<j, i>> \in R <=> j < i
    BY <2>1, Zenon
  <2>3. ~(<<j, i>> \in R)
    BY <1>1
  <2> HIDE DEF R
  <2> QED
    BY <2>1, <2>2, <2>3
<1> QED
  BY <1>2

\* A bounded set of numbers has a largest one.
LEMMA LargestExists ==
    ASSUME NEW S \in SUBSET Nat, S # {}, NEW n \in Nat, \A i \in S : i <= n
    PROVE  \E i \in S : \A j \in S : j <= i
<1> DEFINE T == {n - i : i \in S}
<1>1. T \in SUBSET Nat /\ T # {}
  <2>1. \A i \in S : n - i \in Nat
    OBVIOUS
  <2> QED
    BY <2>1
<1>2. PICK k \in T : \A j \in T : k <= j
  BY <1>1, LeastExists
<1>3. PICK i \in S : k = n - i
  BY <1>2
<1>4. ASSUME NEW j \in S PROVE j <= i
  <2>1. n - i <= n - j
    BY <1>2, <1>3
  <2> QED
    BY <2>1
<1> QED
  BY <1>4

-----------------------------------------------------------------------------
(* What the functions of Palloc return.                                    *)

\* A pool as a record; what its cleanup list holds does not matter here.
Pools(C) == [blocks : Seq(Blocks), current : Nat, large : Seq(Nodes), cleanup : C]

\* Where the memory of a block begins.
Base(b) == IF b = 1 THEN PoolHeader ELSE DataHeader

\* Every mark lies inside its block.
Marks(p) == \A b \in DOMAIN p.blocks :
                p.blocks[b].last >= Base(b) /\ p.blocks[b].last <= BlockSize

\* The blocks left behind are those that failed too often, and of the others
\* none failed more often than one before it.
Skips(p) ==
    /\ \A i \in DOMAIN p.blocks : i < p.current <=> p.blocks[i].failed > FailLimit + 1
    /\ \A i, j \in DOMAIN p.blocks :
          p.current <= i /\ i <= j => p.blocks[j].failed <= p.blocks[i].failed

\* No piece is held by two nodes.
HeldOnce(p) == \A j, k \in DOMAIN p.large :
                  j # k => p.large[j].alloc = 0 \/ p.large[j].alloc # p.large[k].alloc

Usable(C, p) == /\ p \in Pools(C) /\ p.current \in DOMAIN p.blocks
                /\ Marks(p) /\ Skips(p) /\ HeldOnce(p)

\* q is p with more handed out.
Grows(p, q) == /\ q.cleanup = p.cleanup
               /\ DOMAIN p.blocks \subseteq DOMAIN q.blocks
               /\ \A b \in DOMAIN p.blocks : q.blocks[b].last >= p.blocks[b].last
               /\ \A k \in DOMAIN p.large : p.large[k].alloc # 0 =>
                     \E j \in DOMAIN q.large : q.large[j].alloc = p.large[k].alloc

\* r has been cut from a block of q, above all that was handed out in p.
Carved(r, p, q) == /\ r \in Regions /\ r.blk \in DOMAIN q.blocks
                   /\ Base(r.blk) <= r.from /\ r.from < r.to
                   /\ r.to <= q.blocks[r.blk].last
                   /\ r.blk \in DOMAIN p.blocks => p.blocks[r.blk].last <= r.from

USE DEF NGX_ALIGNMENT, PoolHeader, DataHeader, LargeNode

LEMMA AlignIs ==
    ASSUME NEW m \in Nat
    PROVE  /\ ngx_align_ptr(m) \in Nat /\ m <= ngx_align_ptr(m)
           /\ ngx_align_ptr(m) % NGX_ALIGNMENT = 0
           /\ m <= BlockSize => ngx_align_ptr(m) <= BlockSize
BY BlockAssumption DEF ngx_align_ptr

LEMMA FirstIs ==
    ASSUME NEW S \in SUBSET Nat, S # {}
    PROVE  First(S) \in S /\ \A j \in S : First(S) <= j
BY LeastExists DEF First

LEMMA MaxSize == PoolMax \in Nat /\ PoolMax >= 32 /\ PoolMax + PoolHeader <= BlockSize
BY BlockAssumption DEF PoolMax

\* Changing some fields of a pool.
LEMMA PoolWith ==
    ASSUME NEW C, NEW p \in Pools(C), NEW b \in Seq(Blocks), NEW c \in Nat
    PROVE  /\ [p EXCEPT !.blocks = b, !.current = c] \in Pools(C)
           /\ [p EXCEPT !.blocks = b, !.current = c].blocks = b
           /\ [p EXCEPT !.blocks = b, !.current = c].current = c
           /\ [p EXCEPT !.blocks = b, !.current = c].large = p.large
           /\ [p EXCEPT !.blocks = b, !.current = c].cleanup = p.cleanup
BY DEF Pools

LEMMA Fields ==
    ASSUME NEW C, NEW p \in Pools(C)
    PROVE  /\ p.blocks \in Seq(Blocks) /\ p.current \in Nat
           /\ p.large \in Seq(Nodes) /\ p.cleanup \in C
           /\ Len(p.blocks) \in Nat /\ DOMAIN p.blocks = 1 .. Len(p.blocks)
           /\ \A b \in DOMAIN p.blocks : /\ p.blocks[b] \in Blocks
                                        /\ p.blocks[b].last \in Nat
                                        /\ p.blocks[b].failed \in Nat
           /\ Len(p.large) \in Nat /\ DOMAIN p.large = 1 .. Len(p.large)
           /\ \A k \in DOMAIN p.large : p.large[k] \in Nodes
<1>1. p.blocks \in Seq(Blocks) /\ p.current \in Nat /\ p.large \in Seq(Nodes) /\ p.cleanup \in C
  BY DEF Pools
<1>2. \A b \in DOMAIN p.blocks : p.blocks[b] \in Blocks
  BY <1>1
<1>3. \A k \in DOMAIN p.large : p.large[k] \in Nodes
  BY <1>1
<1> QED
  BY <1>1, <1>2, <1>3 DEF Blocks

LEMMA Counted ==
    ASSUME NEW b \in Blocks
    PROVE  /\ [b EXCEPT !.failed = @ + 1] \in Blocks
           /\ [b EXCEPT !.failed = @ + 1].last = b.last
           /\ [b EXCEPT !.failed = @ + 1].failed = b.failed + 1
BY DEF Blocks

LEMMA GrowsItself == ASSUME NEW C, NEW p \in Pools(C) PROVE Grows(p, p)
BY Fields DEF Grows

\* With c for current, f counts the failures of n blocks as Skips says.
LeftBehind(n, f, c) ==
    /\ \A i \in 1 .. n : i < c <=> f[i] > FailLimit + 1
    /\ \A i, j \in 1 .. n : c <= i /\ i <= j => f[j] <= f[i]

\* g counts one more for the blocks passed over and none for a new one, and d
\* is behind the last of them that had failed too often.
CountedOn(n, f, g, c, d) ==
    /\ n \in Nat \ {0} /\ c \in 1 .. n /\ d \in Nat
    /\ f \in [1 .. n -> Nat] /\ g \in [1 .. n + 1 -> Nat]
    /\ \A i \in 1 .. n : g[i] = IF c <= i /\ i < n THEN f[i] + 1 ELSE f[i]
    /\ g[n + 1] = 0
    /\ \/ d = c /\ \A i \in c .. n - 1 : f[i] <= FailLimit
       \/ /\ d - 1 \in c .. n - 1 /\ f[d - 1] > FailLimit
          /\ \A i \in c .. n - 1 : f[i] > FailLimit => i <= d - 1

LEMMA StillSkips ==
    ASSUME NEW n, NEW f, NEW g, NEW c, NEW d, LeftBehind(n, f, c), CountedOn(n, f, g, c, d)
    PROVE  LeftBehind(n + 1, g, d)
<1> USE DEF LeftBehind, CountedOn
<1>0. FailLimit \in Nat
  BY LimitAssumption
<1>1. c <= d
  OBVIOUS
<1>2. ASSUME NEW i \in 1 .. n + 1 PROVE i < d <=> g[i] > FailLimit + 1
  <2>1. CASE d = c /\ \A k \in c .. n - 1 : f[k] <= FailLimit
    <3>1. CASE i = n + 1
      BY <1>0, <2>1, <3>1
    <3>2. CASE i \in 1 .. n
      BY <1>0, <2>1, <3>2
    <3> QED BY <3>1, <3>2
  <2>2. CASE /\ d - 1 \in c .. n - 1 /\ f[d - 1] > FailLimit
             /\ \A k \in c .. n - 1 : f[k] > FailLimit => k <= d - 1
    <3>0. d - 1 \in 1 .. n
      BY <2>2
    <3>1. CASE i = n + 1
      BY <1>0, <2>2, <3>1
    <3>2. CASE i \in 1 .. n /\ i < c
      BY <1>0, <1>1, <3>2
    <3>3. CASE i \in 1 .. n /\ c <= i /\ i < d
      <4>1. f[d - 1] <= f[i] /\ f[d - 1] \in Nat /\ f[i] \in Nat
        BY <3>0, <3>3
      <4>2. i < n /\ g[i] = f[i] + 1
        BY <2>2, <3>3
      <4> QED
        BY <1>0, <2>2, <3>3, <4>1, <4>2
    <3>4. CASE i \in 1 .. n /\ d <= i /\ i < n
      <4>1. f[i] <= FailLimit /\ f[i] \in Nat
        BY <1>0, <1>1, <2>2, <3>4
      <4>2. g[i] = f[i] + 1
        BY <1>1, <3>4
      <4> QED
        BY <1>0, <3>4, <4>1, <4>2
    <3>5. CASE i = n
      BY <1>0, <2>2, <3>5
    <3> QED
      BY <3>1, <3>2, <3>3, <3>4, <3>5
  <2> QED BY <2>1, <2>2
<1>3. ASSUME NEW i \in 1 .. n + 1, NEW j \in 1 .. n + 1, d <= i, i <= j
      PROVE  g[j] <= g[i]
  <2>1. CASE j = n + 1
    BY <2>1
  <2>2. CASE j \in 1 .. n
    <3>1. i \in 1 .. n /\ c <= i /\ f[j] <= f[i] /\ f[i] \in Nat /\ f[j] \in Nat
      BY <1>1, <1>3, <2>2
    <3>2. /\ g[i] = IF c <= i /\ i < n THEN f[i] + 1 ELSE f[i]
          /\ g[j] = IF c <= j /\ j < n THEN f[j] + 1 ELSE f[j]
      BY <2>2, <3>1
    <3>3. CASE j < n
      BY <1>3, <3>1, <3>2, <3>3
    <3>4. CASE ~(j < n)
      BY <1>3, <2>2, <3>1, <3>2, <3>4
    <3> QED
      BY <3>3, <3>4
  <2> QED BY <2>1, <2>2
<1> QED
  BY <1>2, <1>3

\* What a new block gives.
LEMMA BlockGives ==
    ASSUME NEW C, NEW p, Usable(C, p),
           NEW size \in Nat \ {0}, size <= PoolMax, NEW r \in ngx_palloc_block(p, size)
    PROVE  /\ Usable(C, r.pool) /\ Grows(p, r.pool) /\ r.pool.large = p.large
           /\ \/ r.at = NULL
              \/ /\ Carved(r.at, p, r.pool)
                 /\ r.at.to = r.at.from + size /\ r.at.from % NGX_ALIGNMENT = 0
<1> DEFINE n == Len(p.blocks)
           m == ngx_align_ptr(DataHeader)
           passed == p.current .. n - 1
           full == {i \in passed : p.blocks[i].failed > FailLimit}
           counted == [i \in 1 .. n |-> IF i \in passed
                                     THEN [p.blocks[i] EXCEPT !.failed = @ + 1]
                                     ELSE p.blocks[i]]
           blocks == Append(counted, [last |-> m + size, failed |-> 0])
           current == IF full = {} THEN p.current
                      ELSE 1 + CHOOSE i \in full : \A j \in full : j <= i
           made == Result([p EXCEPT !.blocks = blocks, !.current = current],
                          Region(n + 1, m, size))
<1>0. p \in Pools(C) /\ p.current \in DOMAIN p.blocks /\ Marks(p) /\ Skips(p) /\ HeldOnce(p)
  BY DEF Usable
<1>1. r = Failed(p) \/ r = made
  BY DEF ngx_palloc_block
<1>2. CASE r = Failed(p)
  BY <1>0, <1>2, GrowsItself DEF Failed, Result
<1>3. CASE r = made
  <2>1. /\ p.blocks \in Seq(Blocks) /\ n \in Nat /\ DOMAIN p.blocks = 1 .. n
        /\ p.current \in 1 .. n
        /\ \A i \in 1 .. n : /\ p.blocks[i] \in Blocks /\ p.blocks[i].last \in Nat
                            /\ p.blocks[i].failed \in Nat
    BY <1>0, Fields
  <2>2. m = 32
    BY DEF ngx_align_ptr
  <2>3. counted \in Seq(Blocks) /\ Len(counted) = n
    <3>1. \A i \in 1 .. n : (IF i \in passed THEN [p.blocks[i] EXCEPT !.failed = @ + 1]
                                            ELSE p.blocks[i]) \in Blocks
      <4>1. \A i \in 1 .. n : [p.blocks[i] EXCEPT !.failed = @ + 1] \in Blocks
        BY <2>1, Counted
      <4> QED BY <2>1, <4>1
    <3> QED BY <2>1, <3>1
  <2>4. /\ blocks \in Seq(Blocks) /\ DOMAIN blocks = 1 .. n + 1
        /\ \A i \in 1 .. n : blocks[i] = counted[i]
        /\ blocks[n + 1] = [last |-> m + size, failed |-> 0]
    <3> HIDE DEF counted
    <3>1. [last |-> m + size, failed |-> 0] \in Blocks
      BY <2>2 DEF Blocks
    <3> QED BY <2>1, <2>3, <3>1
  <2>5. current \in 1 .. n + 1
    <3>1. CASE full = {}
      BY <2>1, <3>1
    <3>2. CASE full # {}
      <4>1. full \in SUBSET Nat /\ \A i \in full : i <= n
        BY <2>1
      <4>2. \E i \in full : \A j \in full : j <= i
        BY <2>1, <3>2, <4>1, LargestExists
      <4> DEFINE x == CHOOSE i \in full : \A j \in full : j <= i
      <4>3. x \in full
        BY <4>2
      <4>4. x \in p.current .. n - 1
        BY <4>3
      <4> HIDE DEF x
      <4>5. 1 + x \in 1 .. n + 1
        BY <2>1, <4>4
      <4> QED
        BY <3>2, <4>5 DEF x
    <3> QED BY <3>1, <3>2
  <2>6. r.at = Region(n + 1, m, size) /\ r.pool = [p EXCEPT !.blocks = blocks, !.current = current]
    BY <1>3 DEF Result
  <2>7. \A i \in 1 .. n : blocks[i].last = p.blocks[i].last
    BY <2>1, <2>4 DEF Blocks
  <2> HIDE DEF blocks, current
  <2>8. /\ r.pool \in Pools(C) /\ r.pool.blocks = blocks /\ r.pool.current = current
        /\ r.pool.large = p.large /\ r.pool.cleanup = p.cleanup
    <3>1. current \in Nat /\ blocks \in Seq(Blocks)
      BY <2>1, <2>4, <2>5
    <3> DEFINE q == [p EXCEPT !.blocks = blocks, !.current = current]
    <3>2. /\ q \in Pools(C) /\ q.blocks = blocks /\ q.current = current
          /\ q.large = p.large /\ q.cleanup = p.cleanup
      BY <1>0, <3>1 DEF Pools
    <3>3. r.pool = q
      BY <2>6
    <3> HIDE DEF q
    <3> QED
      BY <3>2, <3>3
  <2>9. Marks(r.pool)
    <3>0. m + size \in Nat /\ m + size >= 32 /\ m + size <= BlockSize
      BY <2>2, MaxSize, BlockAssumption
    <3>1. m + size \in Nat /\ m + size >= 32 /\ m + size <= BlockSize /\ n + 1 # 1
      BY <2>1, <3>0
    <3>2. blocks[n + 1].last >= Base(n + 1) /\ blocks[n + 1].last <= BlockSize
      BY <2>4, <3>1 DEF Base
    <3>3. \A i \in 1 .. n : blocks[i].last >= Base(i) /\ blocks[i].last <= BlockSize
      BY <1>0, <2>1, <2>7 DEF Marks
    <3> QED
      BY <2>1, <2>4, <2>8, <3>2, <3>3 DEF Marks
  <2>10. Carved(r.at, p, r.pool)
    BY <2>1, <2>2, <2>4, <2>6, <2>8 DEF Carved, Base, Region, Regions
  <2>11. r.at.to = r.at.from + size /\ r.at.from % NGX_ALIGNMENT = 0
    BY <2>2, <2>6 DEF Region
  <2>12. Grows(p, r.pool)
    <3>1. \A i \in 1 .. n : blocks[i].last >= p.blocks[i].last
      BY <2>1, <2>7
    <3>2. DOMAIN p.blocks \subseteq DOMAIN blocks
      BY <2>1, <2>4
    <3> QED
      BY <2>1, <2>8, <3>1, <3>2 DEF Grows
  <2>13. Skips(r.pool)
    <3>1. /\ \A i \in 1 .. n : blocks[i].failed = IF i \in passed THEN p.blocks[i].failed + 1
                                                ELSE p.blocks[i].failed
          /\ blocks[n + 1].failed = 0
      <4>1. \A i \in 1 .. n : [p.blocks[i] EXCEPT !.failed = @ + 1].failed = p.blocks[i].failed + 1
        BY <2>1, Counted
      <4>2. \A i \in 1 .. n : counted[i] = IF i \in passed THEN [p.blocks[i] EXCEPT !.failed = @ + 1]
                                           ELSE p.blocks[i]
        OBVIOUS
      <4>3. \A i \in 1 .. n : blocks[i].failed = IF i \in passed THEN p.blocks[i].failed + 1
                                                ELSE p.blocks[i].failed
        <5> HIDE DEF counted, passed
        <5> QED BY <2>4, <4>1, <4>2
      <4> QED
        BY <2>1, <2>4, <4>3
    <3>2. /\ \A i \in 1 .. n : i < p.current <=> p.blocks[i].failed > FailLimit + 1
          /\ \A i, j \in 1 .. n : p.current <= i /\ i <= j => p.blocks[j].failed <= p.blocks[i].failed
      BY <1>0, <2>1 DEF Skips
    <3>3. /\ full = {} => current = p.current
          /\ full # {} => current - 1 \in full /\ \A j \in full : j <= current - 1
      <4>1. CASE full = {}
        BY <4>1 DEF current
      <4>2. CASE full # {}
        <5>1. full \in SUBSET Nat /\ \A i \in full : i <= n
          BY <2>1
        <5>2. \E i \in full : \A j \in full : j <= i
          BY <2>1, <4>2, <5>1, LargestExists
        <5> DEFINE x == CHOOSE i \in full : \A j \in full : j <= i
        <5>3. x \in full /\ \A j \in full : j <= x
          BY <5>2
        <5>4. x \in Nat
          BY <5>1, <5>3
        <5>5. current = 1 + x
          BY <4>2 DEF current
        <5> HIDE DEF x
        <5>6. current - 1 = x
          BY <5>4, <5>5
        <5> QED
          BY <4>2, <5>3, <5>6
      <4> QED
        BY <4>1, <4>2
    <3> DEFINE f == [i \in 1 .. n |-> p.blocks[i].failed]
               g == [i \in 1 .. n + 1 |-> blocks[i].failed]
    <3>5. /\ n \in Nat \ {0} /\ p.current \in 1 .. n /\ current \in Nat
          /\ f \in [1 .. n -> Nat] /\ g \in [1 .. n + 1 -> Nat]
          /\ \A i \in 1 .. n : f[i] = p.blocks[i].failed
          /\ \A i \in 1 .. n + 1 : g[i] = blocks[i].failed
      <4>1. ASSUME NEW i \in 1 .. n + 1 PROVE blocks[i].failed \in Nat
        <5>1. CASE i \in 1 .. n
          <6> HIDE DEF passed
          <6> QED BY <2>1, <3>1, <5>1
        <5>2. CASE i = n + 1
          BY <3>1, <5>2
        <5> QED BY <2>1, <5>1, <5>2
      <4> QED
        BY <2>1, <2>5, <4>1
    <3>6. \/ current = p.current /\ \A i \in p.current .. n - 1 : f[i] <= FailLimit
          \/ /\ current - 1 \in p.current .. n - 1 /\ f[current - 1] > FailLimit
             /\ \A i \in p.current .. n - 1 : f[i] > FailLimit => i <= current - 1
      <4>1. \A i \in p.current .. n - 1 : i \in 1 .. n /\ f[i] = p.blocks[i].failed /\ f[i] \in Nat
        BY <2>1, <3>5
      <4>2. \A i \in full : i \in p.current .. n - 1 /\ f[i] > FailLimit
        BY <4>1
      <4>3. \A i \in p.current .. n - 1 : f[i] > FailLimit => i \in full
        BY <4>1
      <4> HIDE DEF full, f
      <4>4. CASE full = {}
        BY <3>3, <4>1, <4>3, <4>4, LimitAssumption
      <4>5. CASE full # {}
        BY <3>3, <4>2, <4>3, <4>5
      <4> QED BY <4>4, <4>5
    <3>7. LeftBehind(n, f, p.current)
      <4> HIDE DEF f
      <4> QED BY <3>2, <3>5 DEF LeftBehind
    <3>8. CountedOn(n, f, g, p.current, current)
      <4>1. \A i \in 1 .. n : i \in 1 .. n + 1 /\ (i \in passed <=> p.current <= i /\ i < n)
        BY <2>1
      <4>2. n + 1 \in 1 .. n + 1
        BY <2>1
      <4> HIDE DEF f, g, passed
      <4>3. /\ \A i \in 1 .. n : g[i] = IF p.current <= i /\ i < n THEN f[i] + 1 ELSE f[i]
            /\ g[n + 1] = 0
        BY <3>1, <3>5, <4>1, <4>2
      <4> QED
        BY <3>5, <3>6, <4>3 DEF CountedOn
    <3>9. LeftBehind(n + 1, g, current)
      <4> HIDE DEF f, g
      <4> QED
        BY <3>7, <3>8, StillSkips
    <3> HIDE DEF f, g
    <3> QED
      BY <2>4, <2>8, <3>5, <3>9 DEF Skips, LeftBehind
  <2>14. HeldOnce(r.pool)
    BY <1>0, <2>8 DEF HeldOnce
  <2>15. Usable(C, r.pool)
    BY <2>4, <2>5, <2>8, <2>9, <2>13, <2>14 DEF Usable
  <2> QED
    BY <2>8, <2>10, <2>11, <2>12, <2>15
<1> QED
  BY <1>1, <1>2, <1>3

\* Moving the mark of block i to v.
WithMark(p, i, v) == [p EXCEPT !.blocks[i].last = v]

LEMMA MarkMoves ==
    ASSUME NEW C, NEW p, Usable(C, p), NEW i \in DOMAIN p.blocks,
           NEW v \in Nat, Base(i) <= v, v <= BlockSize,
           NEW q, q = WithMark(p, i, v)
    PROVE  /\ Usable(C, q) /\ q.large = p.large /\ q.cleanup = p.cleanup
           /\ q.current = p.current /\ DOMAIN q.blocks = DOMAIN p.blocks
           /\ q.blocks[i].last = v
           /\ \A b \in DOMAIN p.blocks : b # i => q.blocks[b].last = p.blocks[b].last
<1>1. /\ p \in Pools(C) /\ p.current \in DOMAIN p.blocks
      /\ Marks(p) /\ Skips(p) /\ HeldOnce(p)
  BY DEF Usable
<1>2. /\ p.blocks \in Seq(Blocks) /\ Len(p.blocks) \in Nat
      /\ DOMAIN p.blocks = 1 .. Len(p.blocks)
      /\ \A b \in DOMAIN p.blocks : p.blocks[b] \in Blocks
  BY <1>1, Fields
<1> DEFINE moved == [p.blocks[i] EXCEPT !.last = v]
           blocks == [p.blocks EXCEPT ![i] = moved]
<1>3. moved \in Blocks /\ moved.last = v /\ moved.failed = p.blocks[i].failed
  BY <1>2 DEF Blocks
<1>4. q.blocks = blocks /\ q.current = p.current /\ q.large = p.large /\ q.cleanup = p.cleanup
  BY <1>1 DEF Pools, WithMark
<1>5. /\ blocks \in Seq(Blocks) /\ DOMAIN blocks = DOMAIN p.blocks
      /\ blocks[i] = moved /\ \A b \in DOMAIN p.blocks : b # i => blocks[b] = p.blocks[b]
  <2> HIDE DEF moved
  <2> QED BY <1>2, <1>3
<1>6. q \in Pools(C)
  <2>1. q = [p EXCEPT !.blocks = blocks]
    BY DEF WithMark
  <2> HIDE DEF blocks
  <2> QED BY <1>1, <1>5, <2>1 DEF Pools
<1> HIDE DEF blocks, moved
<1>7. \A b \in DOMAIN p.blocks :
          /\ q.blocks[b].failed = p.blocks[b].failed
          /\ q.blocks[b].last = IF b = i THEN v ELSE p.blocks[b].last
  BY <1>3, <1>4, <1>5
<1>8. Marks(q)
  BY <1>1, <1>4, <1>5, <1>7 DEF Marks
<1>9. Skips(q)
  BY <1>1, <1>4, <1>5, <1>7 DEF Skips
<1>10. HeldOnce(q)
  BY <1>1, <1>4 DEF HeldOnce
<1> QED
  BY <1>1, <1>4, <1>5, <1>6, <1>7, <1>8, <1>9, <1>10 DEF Usable

\* What a small allocation gives.
LEMMA SmallGives ==
    ASSUME NEW C, NEW p, Usable(C, p), NEW size \in Nat \ {0}, size <= PoolMax,
           NEW align \in BOOLEAN, NEW r \in ngx_palloc_small(p, size, align)
    PROVE  /\ Usable(C, r.pool) /\ Grows(p, r.pool) /\ r.pool.large = p.large
           /\ \/ r.at = NULL
              \/ /\ Carved(r.at, p, r.pool) /\ r.at.to = r.at.from + size
                 /\ align => r.at.from % NGX_ALIGNMENT = 0
<1> DEFINE fit == {i \in p.current .. Len(p.blocks) : Room(p.blocks[i], size, align)}
           i == First(fit)
           m == Mark(p.blocks[i], align)
           q == WithMark(p, i, m + size)
<1>1. CASE fit = {}
  <2>1. r \in ngx_palloc_block(p, size)
    BY <1>1 DEF ngx_palloc_small
  <2> QED
    BY <2>1, BlockGives
<1>2. CASE fit # {}
  <2>1. r = Result(q, Region(i, m, size))
    BY <1>2 DEF ngx_palloc_small, WithMark
  <2>2. r.pool = q /\ r.at = Region(i, m, size)
    BY <2>1 DEF Result
  <2>3. /\ p \in Pools(C) /\ p.current \in DOMAIN p.blocks /\ Marks(p)
    BY DEF Usable
  <2>4. /\ p.current \in Nat /\ Len(p.blocks) \in Nat /\ DOMAIN p.blocks = 1 .. Len(p.blocks)
        /\ \A b \in DOMAIN p.blocks : p.blocks[b].last \in Nat
    BY <2>3, Fields
  <2>5. i \in fit
    <3>1. fit \in SUBSET Nat
      BY <2>4
    <3> HIDE DEF fit
    <3> QED BY <1>2, <3>1, FirstIs
  <2>6. i \in DOMAIN p.blocks /\ i \in Nat /\ Room(p.blocks[i], size, align)
    BY <2>3, <2>4, <2>5
  <2> HIDE DEF fit, i
  <2>7. p.blocks[i].last \in Nat /\ p.blocks[i].last <= BlockSize /\ Base(i) <= p.blocks[i].last
    BY <2>3, <2>4, <2>6 DEF Marks
  <2>8. /\ m \in Nat /\ p.blocks[i].last <= m /\ m <= BlockSize
        /\ align => m % NGX_ALIGNMENT = 0
    BY <2>7, AlignIs DEF Mark
  <2>9. m + size <= BlockSize
    BY <2>6, <2>8, BlockAssumption DEF Room
  <2>10. Base(i) \in Nat
    BY DEF Base
  <2> HIDE DEF m
  <2>11. Base(i) <= m + size /\ m + size \in Nat /\ p.blocks[i].last <= m + size
    BY <2>7, <2>8, <2>10
  <2>12. /\ Usable(C, q) /\ q.large = p.large /\ q.cleanup = p.cleanup
         /\ DOMAIN q.blocks = DOMAIN p.blocks /\ q.blocks[i].last = m + size
         /\ \A b \in DOMAIN p.blocks : b # i => q.blocks[b].last = p.blocks[b].last
    BY <2>6, <2>9, <2>11, MarkMoves
  <2> HIDE DEF q
  <2>13. Grows(p, q)
    <3>1. \A b \in DOMAIN p.blocks : q.blocks[b].last >= p.blocks[b].last
      BY <2>4, <2>7, <2>11, <2>12
    <3> QED
      BY <2>12, <3>1 DEF Grows
  <2>14. Carved(r.at, p, q)
    <3>1. /\ r.at.blk = i /\ r.at.from = m /\ r.at.to = m + size /\ r.at \in Regions
      BY <2>2, <2>6, <2>8, <2>11 DEF Region, Regions
    <3> QED
      BY <2>6, <2>7, <2>8, <2>10, <2>11, <2>12, <3>1 DEF Carved
  <2> QED
    BY <2>2, <2>8, <2>12, <2>13, <2>14 DEF Region
<1> QED
  BY <1>1, <1>2

-----------------------------------------------------------------------------
(* The memory of a pool and those who hold it.                             *)

\* r lies in a block of p below its mark, or is a piece of the large list.
InPlace(r, p) ==
    /\ r \in Regions /\ r.from < r.to
    /\ IF r.blk > 0
       THEN r.blk \in DOMAIN p.blocks /\ Base(r.blk) <= r.from /\ r.to <= p.blocks[r.blk].last
       ELSE r.blk # 0 /\ r.from = 0 /\ \E k \in DOMAIN p.large : p.large[k].alloc = r.blk

Tidy(W, p) ==
    /\ \A u \in W : /\ InPlace(u.at, p)
                    /\ u.owner[1] # "user" => u.at.from % NGX_ALIGNMENT = 0
    /\ \A u, v \in W : u.owner # v.owner => Apart(u.at, v.at)

\* The inductive invariant of a pool from which H is held.
Good(C, H, p) == Usable(C, p) /\ Tidy(H \cup LargeNodes(p), p)

\* What an allocation of size bytes promises whoever asks for it.
Gives(C, H, p, size, align, r) ==
    /\ r.pool.cleanup = p.cleanup /\ Good(C, H, r.pool)
    /\ \/ r.at = NULL
       \/ /\ r.at \in Regions /\ r.at.blk # 0 /\ r.at.to = r.at.from + size
          /\ \A k, i : align \/ k = "user" => Good(C, H \cup {Owned(k, i, r.at)}, r.pool)

LEMMA TidySubset ==
    ASSUME NEW W, NEW V, V \subseteq W, NEW p, Tidy(W, p)
    PROVE  Tidy(V, p)
BY DEF Tidy

LEMMA GoodSubset ==
    ASSUME NEW C, NEW H, NEW G, G \subseteq H, NEW p, Good(C, H, p)
    PROVE  Good(C, G, p)
BY TidySubset DEF Good

\* A mark of a block is a number.
LEMMA MarkIsNat ==
    ASSUME NEW C, NEW p, Usable(C, p)
    PROVE  /\ \A b \in DOMAIN p.blocks : b \in Nat /\ b # 0 /\ p.blocks[b].last \in Nat
           /\ p.current \in DOMAIN p.blocks /\ Len(p.blocks) \in Nat
           /\ DOMAIN p.blocks = 1 .. Len(p.blocks)
           /\ Len(p.large) \in Nat /\ DOMAIN p.large = 1 .. Len(p.large)
           /\ p.large \in Seq(Nodes) /\ \A k \in DOMAIN p.large : p.large[k] \in Nodes
<1>1. p \in Pools(C) /\ p.current \in DOMAIN p.blocks
  BY DEF Usable
<1> QED
  BY <1>1, Fields

LEMMA TidyGrows ==
    ASSUME NEW C, NEW p, NEW q, Usable(C, p), Usable(C, q), Grows(p, q), NEW W, Tidy(W, p)
    PROVE  Tidy(W, q)
<1>1. ASSUME NEW u \in W PROVE InPlace(u.at, q)
  <2> DEFINE r == u.at
  <2>1. InPlace(r, p)
    BY DEF Tidy
  <2> HIDE DEF r
  <2>2. CASE r.blk > 0
    <3>1. r.blk \in DOMAIN p.blocks /\ r.to <= p.blocks[r.blk].last /\ r.to \in Nat
      BY <2>1, <2>2 DEF InPlace, Regions
    <3>2. /\ r.blk \in DOMAIN q.blocks /\ q.blocks[r.blk].last >= p.blocks[r.blk].last
          /\ q.blocks[r.blk].last \in Nat /\ p.blocks[r.blk].last \in Nat
      BY <3>1, MarkIsNat DEF Grows
    <3>3. r.to <= q.blocks[r.blk].last
      BY <3>1, <3>2
    <3> QED
      BY <2>1, <2>2, <3>2, <3>3 DEF InPlace, r
  <2>3. CASE ~(r.blk > 0)
    BY <2>1, <2>3 DEF InPlace, Grows, r
  <2> QED BY <2>2, <2>3
<1> QED
  BY <1>1 DEF Tidy

\* Memory just cut from a block overlaps nothing that was held before.
LEMMA TidyCarved ==
    ASSUME NEW C, NEW p, NEW q, Usable(C, p), Usable(C, q), Grows(p, q),
           NEW W, Tidy(W, p), NEW u, Carved(u.at, p, q),
           u.owner[1] # "user" => u.at.from % NGX_ALIGNMENT = 0
    PROVE  Tidy(W \cup {u}, q)
<1>1. Tidy(W, q)
  BY TidyGrows
<1>2. InPlace(u.at, q) /\ u.at.blk > 0
  BY MarkIsNat DEF InPlace, Carved
<1>3. ASSUME NEW v \in W PROVE Apart(u.at, v.at) /\ Apart(v.at, u.at)
  <2>1. CASE u.at.blk # v.at.blk
    BY <2>1 DEF Apart
  <2>2. CASE u.at.blk = v.at.blk
    <3>1. v.at.blk \in DOMAIN p.blocks /\ v.at.to <= p.blocks[v.at.blk].last /\ v.at.to \in Nat
      BY <1>2, <2>2 DEF Tidy, InPlace, Regions
    <3>2. p.blocks[v.at.blk].last <= u.at.from /\ u.at.from \in Nat
      BY <2>2, <3>1 DEF Carved, Regions
    <3>3. p.blocks[v.at.blk].last \in Nat
      BY <3>1, MarkIsNat
    <3>4. v.at.to <= u.at.from
      BY <3>1, <3>2, <3>3
    <3> QED
      BY <3>4 DEF Apart
  <2> QED BY <2>1, <2>2
<1> QED
  BY <1>1, <1>2, <1>3 DEF Tidy

\* So does a piece that no node of the large list held.
LEMMA TidyPiece ==
    ASSUME NEW C, NEW p, NEW q, Usable(C, p), Usable(C, q), Grows(p, q),
           NEW W, Tidy(W, p), NEW chunk \in FreeChunks(p), NEW size \in Nat \ {0},
           NEW j \in DOMAIN q.large, q.large[j].alloc = chunk,
           NEW u, u.at = Region(chunk, 0, size)
    PROVE  Tidy(W \cup {u}, q)
<1>1. Tidy(W, q)
  BY TidyGrows
<1>2. chunk \in Int /\ chunk < 0
  BY PoolBoundAssumption DEF FreeChunks, Chunks
<1>3. u.at.blk = chunk /\ u.at.from = 0 /\ u.at.to = size /\ u.at \in Regions
  BY <1>2 DEF Region, Regions
<1>4. InPlace(u.at, q) /\ u.at.from % NGX_ALIGNMENT = 0
  BY <1>2, <1>3 DEF InPlace
<1>5. ASSUME NEW v \in W PROVE v.at.blk # chunk
  <2>1. v.at.blk = chunk => \E k \in DOMAIN p.large : p.large[k].alloc = chunk
    BY <1>2 DEF Tidy, InPlace
  <2> QED
    BY <2>1 DEF FreeChunks
<1>6. \A v \in W : Apart(u.at, v.at) /\ Apart(v.at, u.at)
  BY <1>3, <1>5 DEF Apart
<1> QED
  BY <1>1, <1>4, <1>6 DEF Tidy

\* A node put at the head of the large list.
WithNode(p, node) == [p EXCEPT !.large = <<node>> \o @]

LEMMA NodeAdded ==
    ASSUME NEW C, NEW p, Usable(C, p), NEW node \in Nodes,
           node.alloc # 0 => \A k \in DOMAIN p.large : p.large[k].alloc # node.alloc,
           NEW q, q = WithNode(p, node)
    PROVE  /\ Usable(C, q) /\ q.blocks = p.blocks /\ q.cleanup = p.cleanup /\ Grows(p, q)
           /\ 1 \in DOMAIN q.large /\ q.large[1] = node
           /\ LargeNodes(q) \subseteq LargeNodes(p) \cup {Owned("large", Len(p.large), node.at)}
<1>1. /\ p \in Pools(C) /\ p.current \in DOMAIN p.blocks
      /\ Marks(p) /\ Skips(p) /\ HeldOnce(p)
  BY DEF Usable
<1>2. /\ p.large \in Seq(Nodes) /\ Len(p.large) \in Nat
      /\ DOMAIN p.large = 1 .. Len(p.large)
      /\ \A k \in DOMAIN p.large : p.large[k] \in Nodes
  BY <1>1, Fields
<1> DEFINE large == <<node>> \o p.large
           n == Len(p.large)
<1>3. /\ large \in Seq(Nodes) /\ Len(large) = n + 1 /\ DOMAIN large = 1 .. n + 1
      /\ large[1] = node /\ \A k \in 2 .. n + 1 : large[k] = p.large[k - 1]
  BY <1>2
<1>4. q = [p EXCEPT !.large = large]
  BY DEF WithNode
<1> HIDE DEF large
<1>5. /\ q \in Pools(C) /\ q.large = large /\ q.blocks = p.blocks /\ q.cleanup = p.cleanup
      /\ q.current = p.current
  BY <1>1, <1>3, <1>4 DEF Pools
<1>6. HeldOnce(q)
  <2>1. ASSUME NEW j \in 1 .. n + 1, NEW k \in 1 .. n + 1, j # k
        PROVE  large[j].alloc = 0 \/ large[j].alloc # large[k].alloc
    <3>1. \A i \in 2 .. n + 1 : i - 1 \in DOMAIN p.large /\ large[i] = p.large[i - 1]
      BY <1>2, <1>3
    <3>0. \A i \in 2 .. n + 1 : node.alloc = 0 \/ large[i].alloc # node.alloc
      BY <3>1
    <3>2. CASE j = 1
      <4>1. k \in 2 .. n + 1
        BY <1>2, <2>1, <3>2
      <4> QED BY <1>3, <3>0, <3>2, <4>1
    <3>3. CASE k = 1
      <4>1. j \in 2 .. n + 1
        BY <1>2, <2>1, <3>3
      <4> QED BY <1>3, <3>0, <3>3, <4>1
    <3>4. CASE j # 1 /\ k # 1
      <4>1. j \in 2 .. n + 1 /\ k \in 2 .. n + 1 /\ j - 1 # k - 1
        BY <1>2, <2>1, <3>4
      <4> QED
        BY <1>1, <3>1, <4>1 DEF HeldOnce
    <3> QED BY <3>2, <3>3, <3>4
  <2> QED
    BY <1>3, <1>5, <2>1 DEF HeldOnce
<1>7. Usable(C, q)
  BY <1>1, <1>5, <1>6 DEF Usable, Marks, Skips
<1>8. Grows(p, q)
  <2>1. ASSUME NEW k \in DOMAIN p.large
        PROVE  \E j \in DOMAIN q.large : q.large[j].alloc = p.large[k].alloc
    <3>1. k + 1 \in 2 .. n + 1 /\ (k + 1) - 1 = k
      BY <1>2
    <3>2. k + 1 \in DOMAIN q.large /\ q.large[k + 1] = p.large[k]
      BY <1>2, <1>3, <1>5, <3>1
    <3> QED BY <3>2
  <2>2. \A b \in DOMAIN p.blocks : q.blocks[b].last >= p.blocks[b].last
    BY <1>5, <1>7, MarkIsNat
  <2> QED
    BY <1>5, <2>1, <2>2 DEF Grows
<1>9. LargeNodes(q) \subseteq LargeNodes(p) \cup {Owned("large", n, node.at)}
  <2>1. ASSUME NEW k \in 1 .. n + 1
        PROVE  Owned("large", (n + 1) - k, large[k].at)
                 \in LargeNodes(p) \cup {Owned("large", n, node.at)}
    <3>1. CASE k = 1
      <4>1. (n + 1) - 1 = n
        BY <1>2
      <4> QED BY <1>3, <3>1, <4>1
    <3>2. CASE k # 1
      <4>1. /\ k \in 2 .. n + 1 /\ k - 1 \in DOMAIN p.large /\ (n + 1) - k = n - (k - 1)
        BY <1>2, <3>2
      <4>2. large[k] = p.large[k - 1]
        BY <1>3, <4>1
      <4> QED BY <4>1, <4>2 DEF LargeNodes
    <3> QED BY <3>1, <3>2
  <2>2. LargeNodes(q) = {Owned("large", (n + 1) - k, large[k].at) : k \in 1 .. n + 1}
    <3> HIDE DEF n
    <3> QED BY <1>3, <1>5 DEF LargeNodes
  <2> QED
    BY <2>1, <2>2
<1> QED
  BY <1>2, <1>3, <1>5, <1>7, <1>8, <1>9

LEMMA LinkGives ==
    ASSUME NEW C, NEW H, NEW p, Good(C, H, p), NEW chunk \in FreeChunks(p),
           NEW size \in Nat \ {0}, NEW r \in LinkLarge(p, chunk, size)
    PROVE  Gives(C, H, p, size, TRUE, r)
<1>1. Usable(C, p) /\ Tidy(H \cup LargeNodes(p), p)
  BY DEF Good
<1>2. Len(p.large) \in Nat /\ p.large \in Seq(Nodes)
  BY <1>1, MarkIsNat
<1> DEFINE Linked(s) == IF s.at = NULL THEN Failed(s.pool)
                        ELSE Result([s.pool EXCEPT !.large = <<[at |-> s.at, alloc |-> chunk]>> \o @],
                                    Region(chunk, 0, size))
<1>3. PICK s \in (IF Len(p.large) < MaxNodes THEN ngx_palloc_small(p, LargeNode, TRUE)
                  ELSE {Failed(p)}) : r = Linked(s)
  BY DEF LinkLarge
<1> DEFINE t == s.pool
<1>4. /\ Usable(C, t) /\ Grows(p, t) /\ t.large = p.large
      /\ s.at = NULL \/ (Carved(s.at, p, t) /\ s.at.from % NGX_ALIGNMENT = 0)
  <2>1. CASE s = Failed(p)
    <3>1. t = p /\ s.at = NULL
      BY <2>1 DEF Failed, Result
    <3>2. p \in Pools(C)
      BY <1>1 DEF Usable
    <3> QED BY <1>1, <3>1, <3>2, GrowsItself
  <2>2. CASE s \in ngx_palloc_small(p, LargeNode, TRUE)
    <3>1. LargeNode \in Nat \ {0} /\ LargeNode <= PoolMax /\ TRUE \in BOOLEAN
      BY MaxSize
    <3> HIDE DEF LargeNode
    <3>2. /\ Usable(C, s.pool) /\ Grows(p, s.pool) /\ s.pool.large = p.large
          /\ \/ s.at = NULL
             \/ /\ Carved(s.at, p, s.pool) /\ s.at.to = s.at.from + LargeNode
                /\ TRUE => s.at.from % NGX_ALIGNMENT = 0
      <4> HIDE DEF t, Linked
      <4>1. Usable(C, p)
        BY <1>1
      <4> QED
        BY <2>2, <3>1, <4>1, SmallGives, ZenonT(60)
    <3> QED
      BY <3>2, Zenon
  <2> QED BY <1>3, <2>1, <2>2
<1>5. t.cleanup = p.cleanup
  BY <1>4 DEF Grows
<1>6. CASE s.at = NULL
  <2>1. r.pool = t /\ r.at = NULL
    BY <1>3, <1>6 DEF Failed, Result
  <2>2. LargeNodes(t) = LargeNodes(p)
    BY <1>4 DEF LargeNodes
  <2>3. Good(C, H, t)
    BY <1>1, <1>4, <2>2, TidyGrows DEF Good
  <2> QED
    BY <1>5, <2>1, <2>3 DEF Gives
<1>7. CASE s.at # NULL
  <2> DEFINE node == [at |-> s.at, alloc |-> chunk]
             q == WithNode(t, node)
             u == Owned("large", Len(p.large), s.at)
  <2>1. r.pool = q /\ r.at = Region(chunk, 0, size)
    BY <1>3, <1>7 DEF Result, WithNode
  <2>2. chunk \in Chunks /\ chunk \in Int /\ chunk < 0
        /\ \A k \in DOMAIN t.large : t.large[k].alloc # chunk
    BY <1>4, PoolBoundAssumption DEF FreeChunks, Chunks
  <2>3. node \in Nodes
    BY <1>4, <1>7, <2>2 DEF Carved, Nodes
  <2>4. /\ Usable(C, q) /\ q.blocks = t.blocks /\ q.cleanup = t.cleanup /\ Grows(t, q)
        /\ 1 \in DOMAIN q.large /\ q.large[1].alloc = chunk
        /\ LargeNodes(q) \subseteq LargeNodes(p) \cup {u}
    <3>3. node.alloc = chunk /\ node.at = s.at
      OBVIOUS
    <3>4. LargeNodes(t) = LargeNodes(p)
      BY <1>4 DEF LargeNodes
    <3> HIDE DEF t, node
    <3>5. node.alloc # 0 => \A k \in DOMAIN t.large : t.large[k].alloc # node.alloc
      BY <2>2, <3>3
    <3>6. /\ Usable(C, q) /\ q.blocks = t.blocks /\ q.cleanup = t.cleanup /\ Grows(t, q)
          /\ 1 \in DOMAIN q.large /\ q.large[1] = node
          /\ LargeNodes(q) \subseteq LargeNodes(t) \cup {Owned("large", Len(t.large), node.at)}
      BY <1>4, <2>3, <3>5, NodeAdded
    <3> HIDE DEF q
    <3> QED
      BY <1>4, <3>3, <3>4, <3>6
  <2> HIDE DEF t, q
  <2>5. Tidy((H \cup LargeNodes(p)) \cup {u}, t)
    <3>1. u.at = s.at
      BY DEF Owned
    <3> HIDE DEF u
    <3> QED BY <1>1, <1>4, <1>7, <3>1, TidyCarved
  <2>6. FreeChunks(t) = FreeChunks(p)
    BY <1>4 DEF FreeChunks
  <2>7. Good(C, H, q)
    <3>1. Tidy((H \cup LargeNodes(p)) \cup {u}, q)
      BY <1>4, <2>4, <2>5, TidyGrows
    <3>2. H \cup LargeNodes(q) \subseteq (H \cup LargeNodes(p)) \cup {u}
      BY <2>4
    <3> QED BY <2>4, <3>1, <3>2, TidySubset DEF Good
  <2>8. ASSUME NEW k, NEW i PROVE Good(C, H \cup {Owned(k, i, r.at)}, q)
    <3> DEFINE v == Owned(k, i, r.at)
    <3>1. v.at = Region(chunk, 0, size)
      BY <2>1 DEF Owned
    <3> HIDE DEF v, u
    <3>2. Tidy(((H \cup LargeNodes(p)) \cup {u}) \cup {v}, q)
      BY <1>4, <2>4, <2>5, <2>6, <3>1, TidyPiece
    <3>3. (H \cup {v}) \cup LargeNodes(q) \subseteq ((H \cup LargeNodes(p)) \cup {u}) \cup {v}
      BY <2>4
    <3> QED BY <2>4, <3>2, <3>3, TidySubset DEF Good, v
  <2>9. r.at \in Regions /\ r.at.blk # 0 /\ r.at.to = r.at.from + size
    BY <2>1, <2>2 DEF Region, Regions
  <2> QED
    BY <1>5, <2>1, <2>4, <2>7, <2>8, <2>9 DEF Gives
<1> QED
  BY <1>6, <1>7

\* A node of the large list given a piece, or emptied.
WithAlloc(p, i, c) == [p EXCEPT !.large[i].alloc = c]

LEMMA AllocChanged ==
    ASSUME NEW C, NEW p, Usable(C, p), NEW i \in DOMAIN p.large, NEW c \in Chunks \cup {0},
           c # 0 => \A k \in DOMAIN p.large : p.large[k].alloc # c,
           NEW q, q = WithAlloc(p, i, c)
    PROVE  /\ Usable(C, q) /\ q.blocks = p.blocks /\ q.cleanup = p.cleanup
           /\ DOMAIN q.large = DOMAIN p.large /\ q.large[i].alloc = c
           /\ \A k \in DOMAIN p.large : k # i => q.large[k].alloc = p.large[k].alloc
           /\ LargeNodes(q) = LargeNodes(p)
<1>1. /\ p \in Pools(C) /\ p.current \in DOMAIN p.blocks
      /\ Marks(p) /\ Skips(p) /\ HeldOnce(p)
  BY DEF Usable
<1>2. /\ p.large \in Seq(Nodes) /\ Len(p.large) \in Nat
      /\ DOMAIN p.large = 1 .. Len(p.large)
      /\ \A k \in DOMAIN p.large : p.large[k] \in Nodes
  BY <1>1, Fields
<1> DEFINE node == [p.large[i] EXCEPT !.alloc = c]
           large == [p.large EXCEPT ![i] = node]
<1>3. node \in Nodes /\ node.alloc = c /\ node.at = p.large[i].at
  BY <1>2 DEF Nodes
<1>4. q = [p EXCEPT !.large = large]
  BY <1>1, <1>2 DEF WithAlloc, Pools
<1> HIDE DEF node
<1>5. /\ large \in Seq(Nodes) /\ DOMAIN large = DOMAIN p.large /\ Len(large) = Len(p.large)
      /\ large[i] = node /\ \A k \in DOMAIN p.large : k # i => large[k] = p.large[k]
  BY <1>2, <1>3
<1> HIDE DEF large
<1>6. /\ q \in Pools(C) /\ q.large = large /\ q.blocks = p.blocks /\ q.cleanup = p.cleanup
      /\ q.current = p.current
  BY <1>1, <1>4, <1>5 DEF Pools
<1>7. HeldOnce(q)
  <2>1. ASSUME NEW j \in DOMAIN p.large, NEW k \in DOMAIN p.large, j # k
        PROVE  large[j].alloc = 0 \/ large[j].alloc # large[k].alloc
    <3>1. p.large[j].alloc = 0 \/ p.large[j].alloc # p.large[k].alloc
      BY <1>1, <2>1 DEF HeldOnce
    <3>2. CASE j = i
      BY <1>3, <1>5, <2>1, <3>2
    <3>3. CASE k = i
      BY <1>3, <1>5, <2>1, <3>3
    <3>4. CASE j # i /\ k # i
      BY <1>5, <3>1, <3>4
    <3> QED BY <3>2, <3>3, <3>4
  <2> QED
    BY <1>5, <1>6, <2>1 DEF HeldOnce
<1>8. Usable(C, q)
  BY <1>1, <1>6, <1>7 DEF Usable, Marks, Skips
<1>9. LargeNodes(q) = LargeNodes(p)
  <2>1. \A k \in DOMAIN p.large : large[k].at = p.large[k].at
    BY <1>3, <1>5
  <2>2. LargeNodes(q) = {Owned("large", Len(p.large) - k, large[k].at) : k \in DOMAIN p.large}
    BY <1>5, <1>6 DEF LargeNodes
  <2> QED
    BY <2>1, <2>2 DEF LargeNodes
<1> QED
  BY <1>3, <1>5, <1>6, <1>8, <1>9

LEMMA FailedGives ==
    ASSUME NEW C, NEW H, NEW p, Good(C, H, p), NEW size, NEW align
    PROVE  Gives(C, H, p, size, align, Failed(p))
BY DEF Gives, Failed, Result

LEMMA LargeGives ==
    ASSUME NEW C, NEW H, NEW p, Good(C, H, p), NEW size \in Nat \ {0},
           NEW r \in ngx_palloc_large(p, size)
    PROVE  Gives(C, H, p, size, TRUE, r)
<1>1. Usable(C, p) /\ Tidy(H \cup LargeNodes(p), p)
  BY DEF Good
<1> DEFINE i == First(Reusable(p))
<1>2. \/ r = Failed(p)
      \/ \E chunk \in FreeChunks(p) :
            IF Reusable(p) = {} THEN r \in LinkLarge(p, chunk, size)
            ELSE r = Result(WithAlloc(p, i, chunk), Region(chunk, 0, size))
  BY DEF ngx_palloc_large, WithAlloc
<1>3. CASE r = Failed(p)
  BY <1>3, FailedGives
<1>4. ASSUME NEW chunk \in FreeChunks(p), Reusable(p) = {}, r \in LinkLarge(p, chunk, size)
      PROVE  Gives(C, H, p, size, TRUE, r)
  BY <1>4, LinkGives
<1>5. ASSUME NEW chunk \in FreeChunks(p), Reusable(p) # {},
             r = Result(WithAlloc(p, i, chunk), Region(chunk, 0, size))
      PROVE  Gives(C, H, p, size, TRUE, r)
  <2> DEFINE q == WithAlloc(p, i, chunk)
  <2>1. r.pool = q /\ r.at = Region(chunk, 0, size)
    BY <1>5 DEF Result
  <2>2. i \in Reusable(p)
    <3>1. Reusable(p) \in SUBSET Nat
      BY <1>1, MarkIsNat DEF Reusable
    <3> QED BY <1>5, <3>1, FirstIs
  <2>3. i \in DOMAIN p.large /\ p.large[i].alloc = 0
    BY <2>2 DEF Reusable
  <2> HIDE DEF i
  <2>4. chunk \in Chunks /\ chunk \in Int /\ chunk < 0
        /\ \A k \in DOMAIN p.large : p.large[k].alloc # chunk
    BY PoolBoundAssumption DEF FreeChunks, Chunks
  <2>5. /\ Usable(C, q) /\ q.blocks = p.blocks /\ q.cleanup = p.cleanup
        /\ DOMAIN q.large = DOMAIN p.large /\ q.large[i].alloc = chunk
        /\ \A k \in DOMAIN p.large : k # i => q.large[k].alloc = p.large[k].alloc
        /\ LargeNodes(q) = LargeNodes(p)
    BY <1>1, <2>3, <2>4, AllocChanged
  <2> HIDE DEF q
  <2>6. Grows(p, q)
    <3>1. \A b \in DOMAIN p.blocks : q.blocks[b].last >= p.blocks[b].last
      BY <1>1, <2>5, MarkIsNat
    <3> QED BY <2>3, <2>5, <3>1 DEF Grows
  <2>7. Good(C, H, q)
    BY <1>1, <2>5, <2>6, TidyGrows DEF Good
  <2>8. ASSUME NEW k, NEW j PROVE Good(C, H \cup {Owned(k, j, r.at)}, q)
    <3> DEFINE v == Owned(k, j, r.at)
    <3>1. v.at = Region(chunk, 0, size)
      BY <2>1 DEF Owned
    <3> HIDE DEF v
    <3>2. Tidy((H \cup LargeNodes(p)) \cup {v}, q)
      BY <1>1, <2>3, <2>5, <2>6, <3>1, TidyPiece
    <3>3. (H \cup {v}) \cup LargeNodes(q) \subseteq (H \cup LargeNodes(p)) \cup {v}
      BY <2>5
    <3> QED BY <2>5, <3>2, <3>3, TidySubset DEF Good, v
  <2>9. r.at \in Regions /\ r.at.blk # 0 /\ r.at.to = r.at.from + size
    BY <2>1, <2>4 DEF Region, Regions
  <2> QED
    BY <2>1, <2>5, <2>7, <2>8, <2>9 DEF Gives
<1> QED
  <2> HIDE DEF i
  <2> QED BY <1>2, <1>3, <1>4, <1>5

LEMMA SmallIsGiven ==
    ASSUME NEW C, NEW H, NEW p, Good(C, H, p), NEW size \in Nat \ {0}, size <= PoolMax,
           NEW align \in BOOLEAN, NEW r \in ngx_palloc_small(p, size, align)
    PROVE  Gives(C, H, p, size, align, r)
<1>1. Usable(C, p) /\ Tidy(H \cup LargeNodes(p), p)
  BY DEF Good
<1>2. /\ Usable(C, r.pool) /\ Grows(p, r.pool) /\ r.pool.large = p.large
      /\ \/ r.at = NULL
         \/ /\ Carved(r.at, p, r.pool) /\ r.at.to = r.at.from + size
            /\ align => r.at.from % NGX_ALIGNMENT = 0
  BY <1>1, SmallGives
<1>3. LargeNodes(r.pool) = LargeNodes(p) /\ r.pool.cleanup = p.cleanup
  BY <1>2 DEF LargeNodes, Grows
<1>4. Good(C, H, r.pool)
  BY <1>1, <1>2, <1>3, TidyGrows DEF Good
<1>5. ASSUME r.at # NULL, NEW k, NEW i, align \/ k = "user"
      PROVE  Good(C, H \cup {Owned(k, i, r.at)}, r.pool)
  <2> DEFINE u == Owned(k, i, r.at)
  <2>1. u.at = r.at /\ u.owner[1] = k
    BY DEF Owned
  <2> HIDE DEF u
  <2>2. Tidy((H \cup LargeNodes(p)) \cup {u}, r.pool)
    BY <1>1, <1>2, <1>5, <2>1, TidyCarved
  <2>3. (H \cup {u}) \cup LargeNodes(r.pool) \subseteq (H \cup LargeNodes(p)) \cup {u}
    BY <1>3
  <2> QED
    BY <1>2, <2>2, <2>3, TidySubset DEF Good, u
<1>6. r.at # NULL => r.at \in Regions /\ r.at.blk # 0 /\ r.at.to = r.at.from + size
  BY <1>2, MarkIsNat DEF Carved
<1> QED
  BY <1>3, <1>4, <1>5, <1>6 DEF Gives

\* What ngx_palloc returns is aligned memory of the size asked for that nobody
\* holds, or NULL; what was held stays held.
LEMMA PallocGives ==
    ASSUME NEW C, NEW H, NEW p, Good(C, H, p), NEW size \in Nat \ {0},
           NEW r \in ngx_palloc(p, size)
    PROVE  Gives(C, H, p, size, TRUE, r)
<1>1. CASE size <= PoolMax
  <2>1. r \in ngx_palloc_small(p, size, TRUE)
    BY <1>1 DEF ngx_palloc
  <2>2. TRUE \in BOOLEAN
    OBVIOUS
  <2> QED
    BY <1>1, <2>1, <2>2, SmallIsGiven
<1>2. CASE ~(size <= PoolMax)
  <2>1. r \in ngx_palloc_large(p, size)
    BY <1>2 DEF ngx_palloc
  <2> QED
    BY <2>1, LargeGives
<1> QED
  BY <1>1, <1>2

\* The same for memory a caller asks for, where ngx_pnalloc does not align.
LEMMA CallerGets ==
    ASSUME NEW C, NEW H, NEW p, Good(C, H, p), NEW size \in Nat \ {0},
           NEW r \in ngx_pcalloc(p, size) \cup ngx_pnalloc(p, size) \cup ngx_pmemalign(p, size)
    PROVE  Gives(C, H, p, size, FALSE, r)
<1>1. ASSUME Gives(C, H, p, size, TRUE, r) PROVE Gives(C, H, p, size, FALSE, r)
  BY <1>1 DEF Gives
<1>2. CASE r \in ngx_pcalloc(p, size)
  BY <1>1, <1>2, PallocGives DEF ngx_pcalloc
<1>3. CASE r \in ngx_pnalloc(p, size)
  <2>1. CASE size <= PoolMax
    <3>1. r \in ngx_palloc_small(p, size, FALSE)
      BY <1>3, <2>1 DEF ngx_pnalloc
    <3>2. FALSE \in BOOLEAN
      OBVIOUS
    <3> QED
      BY <2>1, <3>1, <3>2, SmallIsGiven
  <2>2. CASE ~(size <= PoolMax)
    BY <1>1, <1>3, <2>2, LargeGives DEF ngx_pnalloc
  <2> QED BY <2>1, <2>2
<1>4. CASE r \in ngx_pmemalign(p, size)
  <2>1. r = Failed(p) \/ \E chunk \in FreeChunks(p) : r \in LinkLarge(p, chunk, size)
    BY <1>4 DEF ngx_pmemalign
  <2> QED
    BY <1>1, <2>1, FailedGives, LinkGives
<1> QED
  BY <1>2, <1>3, <1>4

-----------------------------------------------------------------------------
(* The pool as a whole.                                                    *)

LEMMA CreatedPool ==
    ASSUME NEW C, <<>> \in C
    PROVE  Good(C, {}, ngx_create_pool) /\ ngx_create_pool.cleanup = <<>>
<1> DEFINE b == [last |-> 64, failed |-> 0]
           p == ngx_create_pool
<1>1. b \in Blocks /\ b.last = 64 /\ b.failed = 0
  BY DEF Blocks
<1>2. p = [blocks |-> <<b>>, current |-> 1, large |-> <<>>, cleanup |-> <<>>]
  BY DEF ngx_create_pool
<1> HIDE DEF b, p
<1>3. /\ p.blocks = <<b>> /\ p.current = 1 /\ p.large = <<>> /\ p.cleanup = <<>>
      /\ p \in Pools(C)
  BY <1>1, <1>2 DEF Pools
<1>4. DOMAIN p.blocks = {1} /\ p.blocks[1] = b
  BY <1>3
<1>5. Marks(p)
  BY <1>1, <1>4, BlockAssumption DEF Marks, Base
<1>6. Skips(p)
  BY <1>1, <1>3, <1>4, LimitAssumption DEF Skips
<1>7. DOMAIN p.large = {}
  BY <1>3
<1>8. HeldOnce(p) /\ LargeNodes(p) = {}
  BY <1>7 DEF HeldOnce, LargeNodes
<1>9. Usable(C, p)
  BY <1>3, <1>4, <1>5, <1>6, <1>8 DEF Usable
<1>10. Tidy({} \cup LargeNodes(p), p)
  BY <1>8 DEF Tidy
<1> QED
  BY <1>3, <1>9, <1>10 DEF Good, p

LEMMA ResetPool ==
    ASSUME NEW C, NEW p, Usable(C, p)
    PROVE  Good(C, {}, ngx_reset_pool(p)) /\ ngx_reset_pool(p).cleanup = p.cleanup
<1> DEFINE b == [last |-> 64, failed |-> 0]
           blocks == [i \in DOMAIN p.blocks |-> b]
           q == ngx_reset_pool(p)
<1>1. b \in Blocks /\ b.last = 64 /\ b.failed = 0
  BY DEF Blocks
<1>2. /\ p \in Pools(C) /\ Len(p.blocks) \in Nat /\ DOMAIN p.blocks = 1 .. Len(p.blocks)
      /\ p.current \in DOMAIN p.blocks
  <2>1. p \in Pools(C)
    BY DEF Usable
  <2> QED
    BY <2>1, MarkIsNat
<1> HIDE DEF b
<1>3. /\ blocks \in Seq(Blocks) /\ DOMAIN blocks = DOMAIN p.blocks
      /\ \A i \in DOMAIN p.blocks : blocks[i] = b
  BY <1>1, <1>2
<1>4. q = [p EXCEPT !.blocks = blocks, !.current = 1, !.large = <<>>]
  BY DEF ngx_reset_pool, b
<1> HIDE DEF blocks, q
<1>5. /\ q.blocks = blocks /\ q.current = 1 /\ q.large = <<>> /\ q.cleanup = p.cleanup
      /\ q \in Pools(C)
  <2>1. /\ q = [blocks |-> blocks, current |-> 1, large |-> <<>>, cleanup |-> p.cleanup]
        /\ p.cleanup \in C
    BY <1>2, <1>4 DEF Pools
  <2>2. <<>> \in Seq(Nodes)
    OBVIOUS
  <2> QED
    BY <1>3, <2>1, <2>2 DEF Pools
<1>6. q.current \in DOMAIN q.blocks
  BY <1>2, <1>3, <1>5
<1>7. Marks(q)
  BY <1>1, <1>3, <1>5, BlockAssumption DEF Marks, Base
<1>8. Skips(q)
  BY <1>1, <1>2, <1>3, <1>5, LimitAssumption DEF Skips
<1>9. DOMAIN q.large = {}
  BY <1>5
<1>10. HeldOnce(q) /\ LargeNodes(q) = {}
  BY <1>9 DEF HeldOnce, LargeNodes
<1>11. Usable(C, q)
  BY <1>5, <1>6, <1>7, <1>8, <1>10 DEF Usable
<1>12. Tidy({} \cup LargeNodes(q), q)
  BY <1>10 DEF Tidy
<1> QED
  BY <1>5, <1>11, <1>12 DEF Good, q

\* The cleanup list holds no memory of its own.
LEMMA CleanupChanged ==
    ASSUME NEW C, NEW H, NEW p, Good(C, H, p), NEW c \in C,
           NEW q, q = [p EXCEPT !.cleanup = c]
    PROVE  Good(C, H, q) /\ q.cleanup = c
<1>1. p \in Pools(C)
  BY DEF Good, Usable
<1>2. /\ q \in Pools(C) /\ q.blocks = p.blocks /\ q.current = p.current
      /\ q.large = p.large /\ q.cleanup = c
  BY <1>1 DEF Pools
<1>3. Usable(C, q)
  BY <1>2 DEF Good, Usable, Marks, Skips, HeldOnce
<1>4. LargeNodes(q) = LargeNodes(p)
  BY <1>2 DEF LargeNodes
<1>5. Tidy(H \cup LargeNodes(p), q)
  BY <1>2 DEF Good, Tidy, InPlace
<1> QED
  BY <1>2, <1>3, <1>4, <1>5 DEF Good

-----------------------------------------------------------------------------
(* The invariant of the pool.                                              *)

\* What the cleanup list of the pool may be.
CleanupSeq == Seq(Cleanup)

\* No two handlers of a cleanup list are to close the same descriptor.
Once(c) == \A j, k \in DOMAIN c :
              c[j].handler # "none" /\ c[k].handler # "none" /\ c[j].fd = c[k].fd => j = k

\* A descriptor is open as long as a handler is to close it.
FilesInv ==
    /\ Once(pool.cleanup)
    /\ \A f \in Fds : opened[f] = closed[f] + (IF alive /\ Closes(f) # {} THEN 1 ELSE 0)

\* The elements of an array have room, and room for at least one was made.
ArrayFits(r) == /\ r.nelts <= r.nalloc
                /\ r.elts.to = r.elts.from + r.nalloc * ElemSize
                /\ r # NoArray => r.nalloc # 0
ArraysInv == \A a \in Arrays : ArrayFits(array[a])

ListInv ==
    /\ \A k \in DOMAIN list.parts : LET q == list.parts[k] IN
          /\ q.nelts <= list.nalloc
          /\ k < Len(list.parts) => q.nelts = list.nalloc
          /\ q.elts.to = q.elts.from + list.nalloc * ElemSize
    /\ list # NoList => list.nalloc # 0 /\ list.parts # <<>>

\* Before a pool is made and after it is destroyed nobody holds anything.
NothingWithoutPool == ~alive => Callers = {}

ContentInv == FilesInv /\ ArraysInv /\ ListInv /\ NothingWithoutPool

\* The inductive invariant.
IInv == TypeOK /\ Good(CleanupSeq, Callers, pool) /\ ContentInv

-----------------------------------------------------------------------------
(* What an action leaves alone.                                            *)

LEMMA GoodIsTyped ==
    ASSUME NEW H, NEW p, Good(CleanupSeq, H, p)
    PROVE  /\ p \in [blocks : Seq(Blocks), current : Nat, large : Seq(Nodes), cleanup : Seq(Cleanup)]
           /\ p.current \in DOMAIN p.blocks /\ Usable(CleanupSeq, p)
BY DEF Good, Usable, Pools, CleanupSeq

LEMMA FilesKept ==
    ASSUME FilesInv, UNCHANGED <<alive, opened, closed>>, pool'.cleanup = pool.cleanup
    PROVE  FilesInv'
BY DEF FilesInv, Closes

LEMMA CleanupsKept ==
    ASSUME pool'.cleanup = pool.cleanup
    PROVE  Cleanups' = Cleanups
BY DEF Cleanups, WithData

LEMMA UsersKept == ASSUME UNCHANGED user PROVE Users' = Users
BY DEF Users

LEMMA ArraysKept ==
    ASSUME UNCHANGED array PROVE ArrayMemory' = ArrayMemory /\ (ArraysInv => ArraysInv')
BY DEF ArrayMemory, ArraysInv

LEMMA ListKept ==
    ASSUME UNCHANGED list PROVE ListMemory' = ListMemory /\ (ListInv => ListInv')
BY DEF ListMemory, ListInv

\* A caller is given memory, or not.
LEMMA GiveStep ==
    ASSUME IInv, NEW h \in Handles, NEW size \in Nat \ {0}, NEW results,
           results \subseteq ngx_pcalloc(pool, size) \cup ngx_pnalloc(pool, size)
                             \cup ngx_pmemalign(pool, size),
           Give(h, results)
    PROVE  IInv'
<1>1. PICK r \in results : pool' = r.pool /\ user' = [user EXCEPT ![h] = r.at]
  BY DEF Give
<1>2. UNCHANGED <<alive, array, list, opened, closed>> /\ alive
  BY DEF Give
<1>3. Good(CleanupSeq, Callers, pool) /\ TypeOK /\ FilesInv /\ ArraysInv /\ ListInv
  BY DEF IInv, ContentInv
<1>4. Gives(CleanupSeq, Callers, pool, size, FALSE, r)
  <2>1. r \in ngx_pcalloc(pool, size) \cup ngx_pnalloc(pool, size) \cup ngx_pmemalign(pool, size)
    OBVIOUS
  <2> QED BY <1>3, <2>1, CallerGets
<1>5. pool'.cleanup = pool.cleanup
  BY <1>1, <1>4 DEF Gives
<1>6. /\ Cleanups' = Cleanups /\ ArrayMemory' = ArrayMemory /\ ListMemory' = ListMemory
      /\ FilesInv' /\ ArraysInv' /\ ListInv'
  BY <1>2, <1>3, <1>5, CleanupsKept, ArraysKept, ListKept, FilesKept
<1>7. Good(CleanupSeq, Callers, pool)'
  <2>1. CASE r.at = NULL
    <3>1. Users' \subseteq Users
      BY <1>1, <2>1 DEF Users
    <3>2. Callers' \subseteq Callers
      BY <1>6, <3>1 DEF Callers
    <3>3. Good(CleanupSeq, Callers, r.pool)
      BY <1>4 DEF Gives
    <3>4. Good(CleanupSeq, Callers', r.pool)
      BY <3>2, <3>3, GoodSubset
    <3> QED BY <1>1, <3>4
  <2>2. CASE r.at # NULL
    <3>1. Users' \subseteq Users \cup {Owned("user", h, r.at)}
      BY <1>1, <1>3 DEF Users, TypeOK
    <3>2. Callers' \subseteq Callers \cup {Owned("user", h, r.at)}
      BY <1>6, <3>1 DEF Callers
    <3>3. Good(CleanupSeq, Callers \cup {Owned("user", h, r.at)}, r.pool)
      BY <1>4, <2>2 DEF Gives
    <3>4. Good(CleanupSeq, Callers', r.pool)
      BY <3>2, <3>3, GoodSubset
    <3> QED BY <1>1, <3>4
  <2> QED BY <2>1, <2>2
<1>8. TypeOK'
  <2>1. r.at \in Regions
    BY <1>4 DEF Gives, NULL, Regions
  <2>2. pool' \in [blocks : Seq(Blocks), current : Nat, large : Seq(Nodes), cleanup : Seq(Cleanup)]
        /\ pool'.current \in DOMAIN pool'.blocks
    BY <1>7, GoodIsTyped
  <2> QED
    BY <1>1, <1>2, <1>3, <2>1, <2>2 DEF TypeOK
<1> QED
  BY <1>2, <1>6, <1>7, <1>8 DEF IInv, ContentInv, NothingWithoutPool

\* The piece of a caller given back: no other memory lies in it.
LEMMA FreeStep ==
    ASSUME IInv, NEW h \in Handles, ngx_pfree(h)
    PROVE  IInv'
<1> DEFINE b == user[h].blk
           holding == {k \in DOMAIN pool.large : pool.large[k].alloc = b}
           i == First(holding)
           W == Callers \cup LargeNodes(pool)
           V == {u \in W : u.owner # <<"user", h>>}
           q == WithAlloc(pool, i, 0)
<1>1. /\ alive /\ b < 0 /\ holding # {} /\ pool' = q
      /\ user' = [user EXCEPT ![h] = NULL]
      /\ UNCHANGED <<alive, array, list, opened, closed>>
  BY DEF ngx_pfree, WithAlloc
<1>2. /\ Good(CleanupSeq, Callers, pool) /\ TypeOK /\ FilesInv /\ ArraysInv /\ ListInv
      /\ Usable(CleanupSeq, pool) /\ Tidy(W, pool)
  BY DEF IInv, ContentInv, Good
<1>3. i \in DOMAIN pool.large /\ pool.large[i].alloc = b
  <2>1. holding \in SUBSET Nat
    BY <1>2, MarkIsNat
  <2>2. i \in holding
    <3> HIDE DEF holding
    <3> QED BY <1>1, <2>1, FirstIs
  <2> QED BY <2>2
<1> HIDE DEF i
<1>4. /\ Usable(CleanupSeq, q) /\ q.blocks = pool.blocks /\ q.cleanup = pool.cleanup
      /\ DOMAIN q.large = DOMAIN pool.large
      /\ \A k \in DOMAIN pool.large : k # i => q.large[k].alloc = pool.large[k].alloc
      /\ LargeNodes(q) = LargeNodes(pool)
  <2>1. 0 \in Chunks \cup {0}
    OBVIOUS
  <2> QED
    BY <1>2, <1>3, <2>1, AllocChanged
<1> HIDE DEF q
<1>5. user[h] \in Regions /\ user[h] # NULL /\ Owned("user", h, user[h]) \in W
  <2>1. user[h] \in Regions /\ user[h] # NULL
    BY <1>1, <1>2 DEF TypeOK, NULL
  <2>2. Owned("user", h, user[h]) \in Users
    BY <2>1 DEF Users
  <2> QED BY <2>1, <2>2 DEF Callers
<1>6. Tidy(V, q)
  <2>1. ASSUME NEW u \in V PROVE InPlace(u.at, q)
    <3>1. InPlace(u.at, pool)
      BY <1>2 DEF Tidy
    <3>2. CASE u.at.blk > 0
      BY <1>4, <3>1, <3>2 DEF InPlace
    <3>3. CASE ~(u.at.blk > 0)
      <4>1. u.at.blk # b
        <5>1. Apart(u.at, user[h])
          <6>1. /\ Owned("user", h, user[h]).owner = <<"user", h>>
                /\ Owned("user", h, user[h]).at = user[h]
            BY DEF Owned
          <6>2. u \in W /\ u.owner # Owned("user", h, user[h]).owner
            BY <6>1
          <6>3. Apart(u.at, Owned("user", h, user[h]).at)
            BY <1>2, <1>5, <6>2 DEF Tidy
          <6> QED BY <6>1, <6>3
        <5>2. InPlace(user[h], pool)
          <6>1. Owned("user", h, user[h]).at = user[h]
            BY DEF Owned
          <6>2. InPlace(Owned("user", h, user[h]).at, pool)
            BY <1>2, <1>5 DEF Tidy
          <6> QED BY <6>1, <6>2
        <5>3. user[h].from = 0 /\ user[h].to \in Nat /\ 0 < user[h].to /\ b \in Int
          BY <1>1, <1>5, <5>2 DEF InPlace, Regions
        <5>4. u.at.from = 0 /\ u.at.to \in Nat /\ 0 < u.at.to
          BY <3>1, <3>3 DEF InPlace, Regions
        <5> QED
          BY <5>1, <5>3, <5>4 DEF Apart
      <4>2. PICK k \in DOMAIN pool.large : pool.large[k].alloc = u.at.blk
        BY <3>1, <3>3 DEF InPlace
      <4>3. k # i /\ q.large[k].alloc = u.at.blk /\ k \in DOMAIN q.large
        BY <1>3, <1>4, <4>1, <4>2
      <4> QED
        BY <3>1, <3>3, <4>3 DEF InPlace
    <3> QED BY <3>2, <3>3
  <2> QED
    BY <1>2, <2>1 DEF Tidy
<1>7. /\ Cleanups' = Cleanups /\ ArrayMemory' = ArrayMemory /\ ListMemory' = ListMemory
      /\ FilesInv' /\ ArraysInv' /\ ListInv'
  <2>1. pool'.cleanup = pool.cleanup
    BY <1>1, <1>4
  <2> QED
    BY <1>1, <1>2, <2>1, CleanupsKept, ArraysKept, ListKept, FilesKept
<1>8. Callers' \cup LargeNodes(q) \subseteq V
  <2>1. Users' \subseteq Users /\ \A u \in Users' : u.owner # <<"user", h>>
    BY <1>1, <1>2 DEF Users, TypeOK, Owned
  <2>2. \A u \in Cleanups \cup ArrayMemory \cup ListMemory : u.owner # <<"user", h>>
    BY DEF Cleanups, ArrayMemory, ListMemory, Owned
  <2>3. \A u \in LargeNodes(pool) : u.owner # <<"user", h>>
    BY DEF LargeNodes, Owned
  <2> QED
    BY <1>4, <1>7, <2>1, <2>2, <2>3 DEF Callers
<1>9. Good(CleanupSeq, Callers, pool)'
  <2>1. Tidy(Callers' \cup LargeNodes(q), q)
    <3> HIDE DEF V
    <3> QED BY <1>6, <1>8, TidySubset
  <2> QED
    BY <1>1, <1>4, <2>1 DEF Good
<1>10. TypeOK'
  <2>1. pool' \in [blocks : Seq(Blocks), current : Nat, large : Seq(Nodes), cleanup : Seq(Cleanup)]
        /\ pool'.current \in DOMAIN pool'.blocks
    BY <1>9, GoodIsTyped
  <2>2. NULL \in Regions
    BY DEF NULL, Regions
  <2> QED
    BY <1>1, <1>2, <2>1, <2>2 DEF TypeOK
<1> QED
  BY <1>1, <1>7, <1>9, <1>10 DEF IInv, ContentInv, NothingWithoutPool

-----------------------------------------------------------------------------
(* The pool is made, reset and destroyed, and files are closed with it.    *)

LEMMA HandlersCounted ==
    ASSUME FilesInv, NEW f \in Fds
    PROVE  Cardinality(Closes(f)) = IF Closes(f) = {} THEN 0 ELSE 1
<1>1. CASE Closes(f) = {}
  BY <1>1, FS_EmptySet
<1>2. CASE Closes(f) # {}
  <2>1. PICK k : k \in Closes(f)
    BY <1>2
  <2>2. Closes(f) = {k}
    BY <2>1 DEF Closes, FilesInv, Once
  <2> QED
    BY <1>2, <2>2, FS_Singleton
<1> QED
  BY <1>1, <1>2

\* Nothing is held when the callers' variables are empty and so is the list.
LEMMA NobodyHolds ==
    ASSUME NothingHeld, pool'.cleanup = <<>>
    PROVE  Callers' = {} /\ ArraysInv' /\ ListInv'
<1>1. Cleanups' = {}
  BY DEF Cleanups, WithData
<1>2. Users' = {}
  BY DEF Users, NothingHeld
<1>3. ArrayMemory' = {} /\ ListMemory' = {}
  BY DEF ArrayMemory, ListMemory, NothingHeld
<1>4. ArraysInv'
  BY CallerAssumption DEF ArraysInv, ArrayFits, NothingHeld, NoArray, NULL
<1>5. ListInv'
  BY DEF ListInv, NothingHeld, NoList
<1> QED
  BY <1>1, <1>2, <1>3, <1>4, <1>5 DEF Callers

LEMMA NothingHeldTyped ==
    ASSUME NothingHeld
    PROVE  /\ user' \in [Handles -> Regions]
           /\ array' \in [Arrays -> [hdr : Regions, elts : Regions, nelts : Nat, nalloc : Nat]]
           /\ list' \in [hdr : Regions, nalloc : Nat,
                        parts : Seq([node : Regions, elts : Regions, nelts : Nat])]
<1>1. NULL \in Regions
  BY DEF NULL, Regions
<1>2. NoArray \in [hdr : Regions, elts : Regions, nelts : Nat, nalloc : Nat]
  BY <1>1 DEF NoArray
<1>3. NoList \in [hdr : Regions, nalloc : Nat,
                 parts : Seq([node : Regions, elts : Regions, nelts : Nat])]
  BY <1>1 DEF NoList
<1> QED
  BY <1>1, <1>2, <1>3 DEF NothingHeld

LEMMA EmptyIsList == <<>> \in CleanupSeq
BY DEF CleanupSeq

LEMMA InitInv == Init => IInv
<1> SUFFICES ASSUME Init PROVE IInv
  OBVIOUS
<1>1. Good(CleanupSeq, {}, pool) /\ pool.cleanup = <<>>
  BY EmptyIsList, CreatedPool DEF Init
<1>2. Callers = {}
  <2>1. Cleanups = {}
    BY <1>1 DEF Cleanups, WithData
  <2>2. Users = {} /\ ArrayMemory = {} /\ ListMemory = {}
    BY DEF Init, Users, ArrayMemory, ListMemory
  <2> QED BY <2>1, <2>2 DEF Callers
<1>3. FilesInv
  BY <1>1 DEF Init, FilesInv, Once, Closes
<1>4. ArraysInv
  BY CallerAssumption DEF ArraysInv, ArrayFits, Init, NoArray, NULL
<1>5. ListInv
  BY DEF ListInv, Init, NoList
<1>6. TypeOK
  <2>1. NULL \in Regions
    BY DEF NULL, Regions
  <2>2. NoArray \in [hdr : Regions, elts : Regions, nelts : Nat, nalloc : Nat]
    BY <2>1 DEF NoArray
  <2>3. NoList \in [hdr : Regions, nalloc : Nat,
                   parts : Seq([node : Regions, elts : Regions, nelts : Nat])]
    BY <2>1 DEF NoList
  <2> QED
    BY <1>1, <2>1, <2>2, <2>3, GoodIsTyped DEF TypeOK, Init
<1> QED
  BY <1>1, <1>2, <1>3, <1>4, <1>5, <1>6 DEF IInv, ContentInv, NothingWithoutPool

LEMMA CreateStep == ASSUME IInv, Create PROVE IInv'
<1>1. /\ ~alive /\ alive' = TRUE /\ pool' = ngx_create_pool
      /\ UNCHANGED <<user, array, list, opened, closed>>
  BY DEF Create
<1>2. Callers = {} /\ TypeOK /\ FilesInv /\ ArraysInv /\ ListInv
  BY <1>1 DEF IInv, ContentInv, NothingWithoutPool
<1>3. Good(CleanupSeq, {}, pool') /\ pool'.cleanup = <<>>
  BY <1>1, EmptyIsList, CreatedPool
<1>4. Users' = {} /\ ArrayMemory' = {} /\ ListMemory' = {} /\ ArraysInv' /\ ListInv'
  BY <1>1, <1>2, UsersKept, ArraysKept, ListKept DEF Callers
<1>5. Cleanups' = {}
  BY <1>3 DEF Cleanups, WithData
<1>6. Callers' = {}
  BY <1>4, <1>5 DEF Callers
<1>7. FilesInv'
  BY <1>1, <1>2, <1>3 DEF FilesInv, Once, Closes
<1>8. TypeOK'
  BY <1>1, <1>2, <1>3, GoodIsTyped DEF TypeOK
<1> QED
  BY <1>1, <1>3, <1>4, <1>6, <1>7, <1>8 DEF IInv, ContentInv, NothingWithoutPool

LEMMA ResetStep == ASSUME IInv, Reset PROVE IInv'
<1>1. /\ alive /\ pool.cleanup = <<>> /\ pool' = ngx_reset_pool(pool) /\ NothingHeld
      /\ UNCHANGED <<alive, opened, closed>>
  BY DEF Reset
<1>2. Good(CleanupSeq, Callers, pool) /\ TypeOK /\ FilesInv
  BY DEF IInv, ContentInv
<1>3. Good(CleanupSeq, {}, pool') /\ pool'.cleanup = pool.cleanup
  BY <1>1, <1>2, ResetPool DEF Good
<1>4. Callers' = {} /\ ArraysInv' /\ ListInv'
  BY <1>1, <1>3, NobodyHolds
<1>5. FilesInv'
  BY <1>1, <1>2, <1>3, FilesKept
<1>6. TypeOK'
  BY <1>1, <1>2, <1>3, GoodIsTyped, NothingHeldTyped DEF TypeOK
<1> QED
  BY <1>1, <1>3, <1>4, <1>5, <1>6 DEF IInv, ContentInv, NothingWithoutPool

LEMMA DestroyStep == ASSUME IInv, ngx_destroy_pool PROVE IInv'
<1>1. /\ alive /\ alive' = FALSE /\ pool' = ngx_create_pool /\ NothingHeld
      /\ closed' = [f \in Fds |-> closed[f] + Cardinality(Closes(f))]
      /\ UNCHANGED opened
  BY DEF ngx_destroy_pool
<1>2. TypeOK /\ FilesInv
  BY DEF IInv, ContentInv
<1>3. Good(CleanupSeq, {}, pool') /\ pool'.cleanup = <<>>
  BY <1>1, EmptyIsList, CreatedPool
<1>4. Callers' = {} /\ ArraysInv' /\ ListInv'
  BY <1>1, <1>3, NobodyHolds
<1>5. \A f \in Fds : closed'[f] = opened[f] /\ opened[f] \in Nat
  <2>1. ASSUME NEW f \in Fds PROVE closed'[f] = opened[f] /\ opened[f] \in Nat
    <3>1. Cardinality(Closes(f)) = IF Closes(f) = {} THEN 0 ELSE 1
      BY <1>2, HandlersCounted
    <3>2. opened[f] = closed[f] + (IF Closes(f) # {} THEN 1 ELSE 0)
      BY <1>1, <1>2 DEF FilesInv
    <3> QED
      BY <1>1, <1>2, <3>1, <3>2 DEF TypeOK
  <2> QED BY <2>1
<1>6. FilesInv'
  <2>1. Once(pool'.cleanup)
    BY <1>3 DEF Once
  <2> QED
    BY <1>1, <1>5, <2>1 DEF FilesInv
<1>7. closed' \in [Fds -> Nat]
  BY <1>1, <1>5
<1>8. TypeOK'
  BY <1>1, <1>2, <1>3, <1>7, GoodIsTyped, NothingHeldTyped DEF TypeOK
<1> QED
  BY <1>1, <1>3, <1>4, <1>6, <1>8 DEF IInv, ContentInv, NothingWithoutPool

\* What a node of the cleanup list holds: itself, and its data if it has any.
NodeMemory(n, node) ==
    {Owned("cleanup", n, node.at)}
    \cup (IF node.data = NULL THEN {} ELSE {Owned("data", n, node.data)})

\* A list with a node in front of it.
LEMMA NodeAhead ==
    ASSUME NEW node \in Cleanup, NEW c \in Seq(Cleanup), NEW d, d = <<node>> \o c
    PROVE  /\ Len(c) \in Nat /\ DOMAIN c = 1 .. Len(c)
           /\ Len(d) = Len(c) + 1 /\ DOMAIN d = 1 .. Len(c) + 1 /\ d[1] = node
           /\ \A k \in 2 .. Len(c) + 1 : k - 1 \in DOMAIN c /\ d[k] = c[k - 1]
           /\ \A k \in DOMAIN c : k + 1 \in 2 .. Len(c) + 1 /\ d[k + 1] = c[k]
<1>1. Len(c) \in Nat /\ DOMAIN c = 1 .. Len(c)
  OBVIOUS
<1>2. /\ Len(d) = Len(c) + 1 /\ DOMAIN d = 1 .. Len(c) + 1 /\ d[1] = node
      /\ \A k \in 2 .. Len(c) + 1 : k - 1 \in DOMAIN c /\ d[k] = c[k - 1]
  OBVIOUS
<1>3. ASSUME NEW k \in DOMAIN c PROVE k + 1 \in 2 .. Len(c) + 1 /\ d[k + 1] = c[k]
  <2>1. k \in Nat /\ 1 <= k /\ k <= Len(c)
    BY <1>1
  <2>2. k + 1 \in 2 .. Len(c) + 1 /\ (k + 1) - 1 = k
    BY <1>1, <2>1
  <2> QED BY <1>2, <2>2
<1> QED
  BY <1>1, <1>2, <1>3

\* It adds its own memory to what the list holds.
LEMMA NodeMemoryAdded ==
    ASSUME TypeOK, NEW node \in Cleanup, pool'.cleanup = <<node>> \o pool.cleanup
    PROVE  Cleanups' \subseteq Cleanups \cup NodeMemory(Len(pool.cleanup), node)
<1> DEFINE c == pool.cleanup
           n == Len(c)
           d == pool'.cleanup
           M == NodeMemory(n, node)
<1>1. /\ n \in Nat /\ DOMAIN c = 1 .. n /\ Len(d) = n + 1 /\ DOMAIN d = 1 .. n + 1
      /\ d[1] = node /\ \A k \in 2 .. n + 1 : k - 1 \in DOMAIN c /\ d[k] = c[k - 1]
  BY NodeAhead DEF TypeOK
<1> HIDE DEF M, d, n
<1>2. ASSUME NEW k \in 1 .. n + 1
      PROVE  /\ Owned("cleanup", (n + 1) - k, d[k].at) \in Cleanups \cup M
             /\ d[k].data # NULL => Owned("data", (n + 1) - k, d[k].data) \in Cleanups \cup M
  <2>1. CASE k = 1
    <3>1. (n + 1) - k = n /\ d[k] = node
      BY <1>1, <2>1
    <3> QED BY <3>1 DEF M, NodeMemory
  <2>2. CASE k # 1
    <3>1. k \in 2 .. n + 1 /\ (n + 1) - k = n - (k - 1)
      BY <1>1, <2>2
    <3>2. k - 1 \in DOMAIN c /\ d[k] = c[k - 1]
      BY <1>1, <3>1
    <3> QED BY <3>1, <3>2 DEF Cleanups, WithData, n
  <2> QED BY <2>1, <2>2
<1>3. Cleanups' = {Owned("cleanup", (n + 1) - k, d[k].at) : k \in 1 .. n + 1}
                  \cup {Owned("data", (n + 1) - k, d[k].data)
                          : k \in {i \in 1 .. n + 1 : d[i].data # NULL}}
  BY <1>1 DEF Cleanups, WithData, d
<1>4. ASSUME NEW z \in Cleanups' PROVE z \in Cleanups \cup M
  <2>1. CASE z \in {Owned("cleanup", (n + 1) - k, d[k].at) : k \in 1 .. n + 1}
    BY <1>2, <2>1
  <2>2. CASE z \in {Owned("data", (n + 1) - k, d[k].data)
                      : k \in {i \in 1 .. n + 1 : d[i].data # NULL}}
    BY <1>2, <2>2
  <2> QED BY <1>3, <1>4, <2>1, <2>2
<1> QED
  BY <1>4 DEF M, n

\* A node for a descriptor nobody is to close, which is opened.
LEMMA NodeRegistered ==
    ASSUME TypeOK, FilesInv, alive, NEW f \in Fds, opened[f] = closed[f], NEW node \in Cleanup,
           node.fd = f, node.handler # "none", pool'.cleanup = <<node>> \o pool.cleanup,
           opened' = [opened EXCEPT ![f] = @ + 1], UNCHANGED <<alive, closed>>
    PROVE  FilesInv'
<1> DEFINE c == pool.cleanup
           n == Len(c)
           d == pool'.cleanup
<1>0. Once(c)
  BY DEF FilesInv
<1>1. /\ n \in Nat /\ DOMAIN c = 1 .. n /\ DOMAIN d = 1 .. n + 1 /\ d[1] = node
      /\ \A k \in 2 .. n + 1 : k - 1 \in DOMAIN c /\ d[k] = c[k - 1]
      /\ \A k \in DOMAIN c : k + 1 \in 2 .. n + 1 /\ d[k + 1] = c[k]
  BY NodeAhead, SMTT(30) DEF TypeOK
<1>2. Closes(f) = {}
  <2>1. opened[f] \in Nat
    BY DEF TypeOK
  <2> QED BY <2>1 DEF FilesInv
<1> HIDE DEF d, n
<1>3. Once(d)
  <2>1. ASSUME NEW j \in DOMAIN d, NEW k \in DOMAIN d, d[j].handler # "none",
               d[k].handler # "none", d[j].fd = d[k].fd
        PROVE  j = k
    <3>1. \A i \in 2 .. n + 1 : d[i].handler # "none" => d[i].fd # f
      <4>1. ASSUME NEW i \in 2 .. n + 1, d[i].handler # "none", d[i].fd = f PROVE FALSE
        <5>1. i - 1 \in DOMAIN c /\ d[i] = c[i - 1]
          BY <1>1
        <5>2. i - 1 \in Closes(f)
          BY <4>1, <5>1 DEF Closes
        <5> QED BY <1>2, <5>2
      <4> QED BY <4>1
    <3>2. CASE j = 1 \/ k = 1
      BY <1>1, <2>1, <3>1, <3>2
    <3>3. CASE j # 1 /\ k # 1
      <4>1. j \in 2 .. n + 1 /\ k \in 2 .. n + 1
        BY <1>1, <3>3
      <4>2. /\ j - 1 \in DOMAIN c /\ d[j] = c[j - 1]
            /\ k - 1 \in DOMAIN c /\ d[k] = c[k - 1]
        BY <1>1, <4>1
      <4>3. j - 1 = k - 1
        <5> HIDE DEF c
        <5> QED BY <1>0, <2>1, <4>2 DEF Once
      <4> QED BY <4>1, <4>3
    <3> QED BY <3>2, <3>3
  <2> QED BY <2>1 DEF Once
<1>4. ASSUME NEW g \in Fds
      PROVE  opened'[g] = closed'[g] + (IF alive' /\ Closes(g)' # {} THEN 1 ELSE 0)
  <2>0. /\ opened[g] \in Nat /\ closed[g] \in Nat
        /\ opened[g] = closed[g] + (IF Closes(g) # {} THEN 1 ELSE 0)
        /\ opened'[g] = IF g = f THEN opened[g] + 1 ELSE opened[g]
    BY DEF FilesInv, TypeOK
  <2>1. CASE g = f
    <3>1. 1 \in Closes(g)'
      BY <1>1, <2>1 DEF Closes, d
    <3> QED BY <1>2, <2>0, <2>1, <3>1
  <2>2. CASE g # f
    <3>1. Closes(g) # {} => Closes(g)' # {}
      <4>1. ASSUME NEW k \in Closes(g) PROVE k + 1 \in Closes(g)'
        BY <1>1, <4>1 DEF Closes, d
      <4> QED BY <4>1
    <3>2. Closes(g)' # {} => Closes(g) # {}
      <4>1. ASSUME NEW k \in Closes(g)' PROVE k - 1 \in Closes(g)
        <5>1. k \in 1 .. n + 1 /\ d[k].handler # "none" /\ d[k].fd = g
          BY <1>1 DEF Closes, d
        <5>2. k \in 2 .. n + 1
          BY <1>1, <2>2, <5>1
        <5> QED BY <1>1, <5>1, <5>2 DEF Closes
      <4> QED BY <4>1
    <3> QED BY <2>0, <2>2, <3>1, <3>2
  <2> QED BY <2>1, <2>2
<1> QED
  BY <1>3, <1>4 DEF FilesInv, d

\* A node without a handler closes nothing.
LEMMA BareRegistered ==
    ASSUME TypeOK, FilesInv, NEW node \in Cleanup, node.handler = "none",
           pool'.cleanup = <<node>> \o pool.cleanup, UNCHANGED <<alive, opened, closed>>
    PROVE  FilesInv'
<1> DEFINE c == pool.cleanup
           n == Len(c)
           d == pool'.cleanup
<1>0. Once(c)
  BY DEF FilesInv
<1>1. /\ n \in Nat /\ DOMAIN c = 1 .. n /\ DOMAIN d = 1 .. n + 1 /\ d[1] = node
      /\ \A k \in 2 .. n + 1 : k - 1 \in DOMAIN c /\ d[k] = c[k - 1]
      /\ \A k \in DOMAIN c : k + 1 \in 2 .. n + 1 /\ d[k + 1] = c[k]
  BY NodeAhead DEF TypeOK
<1> HIDE DEF d, n
<1>2. \A k \in DOMAIN d : d[k].handler # "none" => k \in 2 .. n + 1
  BY <1>1
<1>3. Once(d)
  <2>1. ASSUME NEW j \in DOMAIN d, NEW k \in DOMAIN d, d[j].handler # "none",
               d[k].handler # "none", d[j].fd = d[k].fd
        PROVE  j = k
    <3>1. j \in 2 .. n + 1 /\ k \in 2 .. n + 1
      BY <1>2, <2>1
    <3>2. /\ j - 1 \in DOMAIN c /\ d[j] = c[j - 1]
          /\ k - 1 \in DOMAIN c /\ d[k] = c[k - 1]
      BY <1>1, <3>1
    <3>3. j - 1 = k - 1
      <4> HIDE DEF c
      <4> QED BY <1>0, <2>1, <3>2 DEF Once
    <3> QED BY <3>1, <3>3
  <2> QED BY <2>1 DEF Once
<1>4. ASSUME NEW g \in Fds PROVE Closes(g)' # {} <=> Closes(g) # {}
  <2>1. ASSUME NEW k \in Closes(g) PROVE k + 1 \in Closes(g)'
    BY <1>1, <2>1 DEF Closes, d
  <2>2. ASSUME NEW k \in Closes(g)' PROVE k - 1 \in Closes(g)
    <3>1. k \in DOMAIN d /\ d[k].handler # "none" /\ d[k].fd = g
      BY DEF Closes, d
    <3> QED BY <1>1, <1>2, <3>1 DEF Closes
  <2> QED BY <2>1, <2>2
<1> QED
  BY <1>3, <1>4 DEF FilesInv, d

\* Without memory for the node or its data nothing is registered.
LEMMA RegisterStep ==
    ASSUME IInv, NEW f \in Fds, NEW size \in {0, 16},
           NEW handler \in {"none", "ngx_pool_cleanup_file", "ngx_pool_delete_file"},
           handler = "none" <=> size = 0,
           ngx_pool_cleanup_add(f, handler, size)
    PROVE  IInv'
<1> DEFINE Made(c, d) ==
             /\ pool' = [d.pool EXCEPT !.cleanup =
                    <<[at |-> c.at, data |-> d.at, handler |-> handler, fd |-> f]>> \o @]
             /\ opened' = IF size = 0 THEN opened ELSE [opened EXCEPT ![f] = @ + 1]
<1>1. /\ alive /\ UNCHANGED <<alive, user, array, list, closed>>
      /\ size # 0 => opened[f] = closed[f]
  BY DEF ngx_pool_cleanup_add
<1>2. PICK c \in ngx_palloc(pool, CleanupNode) :
         IF c.at = NULL
         THEN pool' = c.pool /\ UNCHANGED opened
         ELSE \E d \in CleanupData(c.pool, size) :
                IF size # 0 /\ d.at = NULL THEN pool' = d.pool /\ UNCHANGED opened ELSE Made(c, d)
  BY DEF ngx_pool_cleanup_add
<1> HIDE DEF Made
<1>3. /\ Good(CleanupSeq, Callers, pool) /\ TypeOK /\ FilesInv /\ ArraysInv /\ ListInv
  BY DEF IInv, ContentInv
<1>4. /\ Users' = Users /\ ArrayMemory' = ArrayMemory /\ ListMemory' = ListMemory
      /\ ArraysInv' /\ ListInv'
  BY <1>1, <1>3, UsersKept, ArraysKept, ListKept
<1>5. ASSUME Good(CleanupSeq, Callers, pool'), pool'.cleanup = pool.cleanup, UNCHANGED opened
      PROVE  IInv'
  <2>1. Cleanups' = Cleanups /\ FilesInv'
    BY <1>1, <1>3, <1>5, CleanupsKept, FilesKept
  <2>2. Callers' = Callers
    BY <1>4, <2>1 DEF Callers
  <2>3. TypeOK'
    BY <1>1, <1>3, <1>5, GoodIsTyped DEF TypeOK
  <2> QED
    BY <1>1, <1>4, <1>5, <2>1, <2>2, <2>3 DEF IInv, ContentInv, NothingWithoutPool
<1>6. Gives(CleanupSeq, Callers, pool, 24, TRUE, c)
  <2>1. c \in ngx_palloc(pool, 24) /\ 24 \in Nat \ {0}
    BY DEF CleanupNode
  <2> QED BY <1>3, <2>1, PallocGives
<1>7. CASE c.at = NULL
  <2>1. pool' = c.pool /\ UNCHANGED opened
    BY <1>2, <1>7
  <2> QED
    BY <1>5, <1>6, <2>1 DEF Gives
<1>8. CASE c.at # NULL
  <2> DEFINE n == Len(pool.cleanup)
             H == Callers \cup {Owned("cleanup", n, c.at)}
  <2>1. PICK d \in CleanupData(c.pool, size) :
          IF size # 0 /\ d.at = NULL THEN pool' = d.pool /\ UNCHANGED opened ELSE Made(c, d)
    BY <1>2, <1>8
  <2> DEFINE node == [at |-> c.at, data |-> d.at, handler |-> handler, fd |-> f]
             G == H \cup (IF d.at = NULL THEN {} ELSE {Owned("data", n, d.at)})
  <2>2. Good(CleanupSeq, H, c.pool) /\ c.at \in Regions /\ c.pool.cleanup = pool.cleanup
    BY <1>6, <1>8 DEF Gives
  <2>3. /\ Good(CleanupSeq, G, d.pool) /\ d.at \in Regions /\ d.pool.cleanup = pool.cleanup
        /\ size = 0 => d.at = NULL
    <3>1. CASE size = 0
      <4>1. d.pool = c.pool /\ d.at = NULL
        BY <2>1, <3>1 DEF CleanupData, Result
      <4>2. NULL \in Regions
        BY DEF NULL, Regions
      <4> QED BY <2>2, <4>1, <4>2
    <3>2. CASE size # 0
      <4>1. d \in ngx_palloc(c.pool, 16) /\ 16 \in Nat \ {0}
        BY <2>1, <3>2 DEF CleanupData
      <4>2. Gives(CleanupSeq, H, c.pool, 16, TRUE, d)
        <5> HIDE DEF H
        <5> QED BY <2>2, <4>1, PallocGives
      <4>3. NULL \in Regions
        BY DEF NULL, Regions
      <4> QED BY <2>2, <3>2, <4>2, <4>3 DEF Gives
    <3> QED BY <3>1, <3>2
  <2>4. CASE size # 0 /\ d.at = NULL
    <3>1. pool' = d.pool /\ UNCHANGED opened
      BY <2>1, <2>4
    <3>2. Good(CleanupSeq, Callers, d.pool)
      BY <2>3, GoodSubset
    <3> QED BY <1>5, <2>3, <3>1, <3>2
  <2>5. CASE ~(size # 0 /\ d.at = NULL)
    <3> DEFINE cl == <<node>> \o pool.cleanup
    <3>1. /\ pool' = [d.pool EXCEPT !.cleanup = cl]
          /\ opened' = IF size = 0 THEN opened ELSE [opened EXCEPT ![f] = @ + 1]
      BY <2>1, <2>3, <2>5 DEF Made
    <3>2. node \in Cleanup
      BY <2>2, <2>3 DEF Cleanup
    <3>3. cl \in CleanupSeq
      <4> HIDE DEF node
      <4> QED BY <1>3, <3>2 DEF CleanupSeq, TypeOK
    <3>4. Good(CleanupSeq, G, pool') /\ pool'.cleanup = cl
      <4> HIDE DEF cl, G
      <4> QED BY <2>3, <3>1, <3>3, CleanupChanged
    <3>5. node.at = c.at /\ node.data = d.at /\ node.fd = f /\ node.handler = handler
      OBVIOUS
    <3>6. FilesInv'
      <4> HIDE DEF node
      <4>1. CASE size = 0
        BY <1>1, <1>3, <3>1, <3>2, <3>4, <3>5, <4>1, BareRegistered
      <4>2. CASE size # 0
        BY <1>1, <1>3, <3>1, <3>2, <3>4, <3>5, <4>2, NodeRegistered
      <4> QED BY <4>1, <4>2
    <3>7. Callers' \subseteq G
      <4>1. Cleanups' \subseteq Cleanups \cup NodeMemory(n, node)
        <5> HIDE DEF node
        <5> QED BY <1>3, <3>2, <3>4, NodeMemoryAdded
      <4>2. NodeMemory(n, node) \subseteq G
        <5> HIDE DEF node
        <5> QED BY <3>5 DEF NodeMemory
      <4> HIDE DEF node, n
      <4> QED BY <1>4, <4>1, <4>2 DEF Callers
    <3>8. Good(CleanupSeq, Callers', pool')
      <4> HIDE DEF G
      <4> QED BY <3>4, <3>7, GoodSubset
    <3>9. TypeOK'
      <4>1. opened' \in [Fds -> Nat]
        BY <1>3, <3>1 DEF TypeOK
      <4>2. pool' \in [blocks : Seq(Blocks), current : Nat, large : Seq(Nodes), cleanup : Seq(Cleanup)]
            /\ pool'.current \in DOMAIN pool'.blocks
        BY <3>8, GoodIsTyped
      <4> QED BY <1>1, <1>3, <4>1, <4>2 DEF TypeOK
    <3> QED
      BY <1>1, <1>4, <3>6, <3>8, <3>9 DEF IInv, ContentInv, NothingWithoutPool
  <2> QED BY <2>4, <2>5
<1> QED
  BY <1>7, <1>8

\* The handler that ran is gone, and it was the only one of the descriptor.
LEMMA RunStep == ASSUME IInv, NEW f \in Fds, ngx_pool_run_cleanup_file(f) PROVE IInv'
<1> DEFINE c == pool.cleanup
           i == First(FilesOf(f))
           node == [c[i] EXCEPT !.handler = "none"]
           d == [c EXCEPT ![i] = node]
<1>1. /\ alive /\ FilesOf(f) # {} /\ pool' = [pool EXCEPT !.cleanup[i].handler = "none"]
      /\ closed' = [closed EXCEPT ![f] = @ + 1]
      /\ UNCHANGED <<alive, user, array, list, opened>>
  BY DEF ngx_pool_run_cleanup_file
<1>2. /\ Good(CleanupSeq, Callers, pool) /\ TypeOK /\ FilesInv /\ ArraysInv /\ ListInv
  BY DEF IInv, ContentInv
<1>3. /\ c \in Seq(Cleanup) /\ DOMAIN c = 1 .. Len(c) /\ Len(c) \in Nat
      /\ \A k \in DOMAIN c : c[k] \in Cleanup
  BY <1>2 DEF TypeOK
<1>4. i \in DOMAIN c /\ c[i].handler # "none" /\ c[i].fd = f
  <2>1. FilesOf(f) \in SUBSET Nat
    BY <1>3 DEF FilesOf
  <2>2. i \in FilesOf(f)
    BY <1>1, <2>1, FirstIs
  <2> HIDE DEF i
  <2> QED BY <2>2 DEF FilesOf
<1> HIDE DEF i
<1>5. /\ node \in Cleanup /\ node.handler = "none" /\ node.fd = f
      /\ node.at = c[i].at /\ node.data = c[i].data
  BY <1>3, <1>4 DEF Cleanup
<1>6. pool' = [pool EXCEPT !.cleanup = d]
  BY <1>1, <1>2, <1>3 DEF TypeOK
<1> HIDE DEF node
<1>7. /\ d \in Seq(Cleanup) /\ DOMAIN d = DOMAIN c /\ Len(d) = Len(c) /\ d[i] = node
      /\ \A k \in DOMAIN c : k # i => d[k] = c[k]
  BY <1>3, <1>4, <1>5
<1> HIDE DEF d
<1>8. pool'.cleanup = d /\ Good(CleanupSeq, Callers, pool')
  BY <1>2, <1>6, <1>7, CleanupChanged DEF CleanupSeq
<1>9. Once(d)
  BY <1>2, <1>5, <1>7 DEF Once, FilesInv
<1>10. ASSUME NEW g \in Fds
       PROVE  opened'[g] = closed'[g] + (IF alive' /\ Closes(g)' # {} THEN 1 ELSE 0)
  <2>0. /\ opened[g] \in Nat /\ closed[g] \in Nat
        /\ opened[g] = closed[g] + (IF Closes(g) # {} THEN 1 ELSE 0)
        /\ closed'[g] = IF g = f THEN closed[g] + 1 ELSE closed[g]
    BY <1>1, <1>2 DEF FilesInv, TypeOK
  <2>1. CASE g = f
    <3>1. i \in Closes(g)
      BY <1>4, <2>1 DEF Closes
    <3>2. Closes(g)' = {}
      BY <1>2, <1>4, <1>5, <1>7, <1>8, <2>1 DEF Closes, FilesInv, Once
    <3> QED BY <1>1, <2>0, <2>1, <3>1, <3>2
  <2>2. CASE g # f
    <3>1. Closes(g)' = Closes(g)
      BY <1>4, <1>5, <1>7, <1>8, <2>2 DEF Closes
    <3> QED BY <1>1, <2>0, <2>2, <3>1
  <2> QED BY <2>1, <2>2
<1>11. Cleanups' = Cleanups
  <2>1. \A k \in DOMAIN c : d[k].at = c[k].at /\ d[k].data = c[k].data
    BY <1>5, <1>7
  <2>2. WithData' = {k \in DOMAIN c : d[k].data # NULL}
    BY <1>7, <1>8 DEF WithData
  <2>3. WithData' = WithData
    BY <2>1, <2>2 DEF WithData
  <2>4. Cleanups' = {Owned("cleanup", Len(c) - k, d[k].at) : k \in DOMAIN c}
                    \cup {Owned("data", Len(c) - k, d[k].data) : k \in WithData}
    BY <1>7, <1>8, <2>3 DEF Cleanups
  <2>5. /\ {Owned("cleanup", Len(c) - k, d[k].at) : k \in DOMAIN c}
           = {Owned("cleanup", Len(c) - k, c[k].at) : k \in DOMAIN c}
        /\ {Owned("data", Len(c) - k, d[k].data) : k \in WithData}
           = {Owned("data", Len(c) - k, c[k].data) : k \in WithData}
    BY <2>1 DEF WithData
  <2> QED BY <2>4, <2>5 DEF Cleanups
<1>12. Callers' = Callers /\ ArraysInv' /\ ListInv'
  BY <1>1, <1>2, <1>11, UsersKept, ArraysKept, ListKept DEF Callers
<1>13. TypeOK'
  <2>1. closed' \in [Fds -> Nat]
    BY <1>1, <1>2 DEF TypeOK
  <2>2. pool' \in [blocks : Seq(Blocks), current : Nat, large : Seq(Nodes), cleanup : Seq(Cleanup)]
        /\ pool'.current \in DOMAIN pool'.blocks
    BY <1>8, GoodIsTyped
  <2> QED BY <1>1, <1>2, <2>1, <2>2 DEF TypeOK
<1>14. FilesInv'
  BY <1>8, <1>9, <1>10 DEF FilesInv
<1> QED
  BY <1>1, <1>8, <1>12, <1>13, <1>14 DEF IInv, ContentInv, NothingWithoutPool

-----------------------------------------------------------------------------
(* Arrays.                                                                 *)

\* What ends at the mark of the first block lies above all else in it.
LEMMA LastInBlock ==
    ASSUME NEW p, Usable(CleanupSeq, p), NEW W, Tidy(W, p), NEW u \in W, NEW v \in W,
           u.owner # v.owner, EndsAtMark(p, u.at), v.at.blk = 1
    PROVE  v.at.to <= u.at.from
<1>1. /\ InPlace(u.at, p) /\ InPlace(v.at, p) /\ Apart(u.at, v.at)
  BY DEF Tidy
<1>2. /\ u.at.from \in Nat /\ u.at.to \in Nat /\ v.at.from \in Nat /\ v.at.to \in Nat
      /\ u.at.from < u.at.to /\ v.at.from < v.at.to
      /\ u.at.blk = 1 /\ u.at.to = p.blocks[1].last /\ v.at.to <= p.blocks[1].last
  BY <1>1 DEF InPlace, Regions, EndsAtMark
<1> QED
  BY <1>1, <1>2 DEF Apart

\* Memory given back lowers the mark to where it began.
LEMMA GivenBack ==
    ASSUME NEW H, NEW p, Good(CleanupSeq, H, p), NEW u \in H,
           NEW G, G \subseteq H, \A v \in G \cup LargeNodes(p) : v.owner # u.owner
    PROVE  LET q == GiveBack(p, u.at) IN
             Good(CleanupSeq, G, q) /\ q.cleanup = p.cleanup /\ LargeNodes(q) = LargeNodes(p)
<1> DEFINE W == H \cup LargeNodes(p)
           r == u.at
<1>1. Usable(CleanupSeq, p) /\ Tidy(W, p)
  BY DEF Good
<1>2. CASE ~EndsAtMark(p, r)
  BY <1>2, GoodSubset DEF GiveBack
<1>3. CASE EndsAtMark(p, r)
  <2> DEFINE q == WithMark(p, 1, r.from)
  <2>1. GiveBack(p, r) = q
    BY <1>3 DEF GiveBack, WithMark
  <2>2. /\ r.blk = 1 /\ 1 \in DOMAIN p.blocks /\ Base(1) <= r.from /\ r.from \in Nat
        /\ r.to \in Nat /\ r.from < r.to /\ r.to = p.blocks[1].last
        /\ p.blocks[1].last <= BlockSize
    BY <1>1, <1>3 DEF Tidy, InPlace, EndsAtMark, Regions, Usable, Marks
  <2>3. r.from <= BlockSize
    BY <2>2, BlockAssumption
  <2>4. /\ Usable(CleanupSeq, q) /\ q.large = p.large /\ q.cleanup = p.cleanup
        /\ DOMAIN q.blocks = DOMAIN p.blocks /\ q.blocks[1].last = r.from
        /\ \A b \in DOMAIN p.blocks : b # 1 => q.blocks[b].last = p.blocks[b].last
    BY <1>1, <2>2, <2>3, MarkMoves
  <2> HIDE DEF q
  <2>5. LargeNodes(q) = LargeNodes(p)
    BY <2>4 DEF LargeNodes
  <2>6. ASSUME NEW v \in G \cup LargeNodes(p) PROVE InPlace(v.at, q)
    <3>1. v \in W /\ InPlace(v.at, p)
      BY <1>1 DEF Tidy
    <3>2. v.at.blk = 1 => v.at.to <= r.from
      BY <1>1, <1>3, <3>1, LastInBlock
    <3> QED
      BY <2>4, <3>1, <3>2 DEF InPlace
  <2>7. Tidy(G \cup LargeNodes(p), q)
    BY <1>1, <2>6 DEF Tidy
  <2> QED
    BY <2>1, <2>4, <2>5, <2>7 DEF Good
<1> QED
  BY <1>2, <1>3

\* H with r for the memory of u.
Instead(H, u, r) == {v \in H : v.owner # u.owner} \cup {[owner |-> u.owner, at |-> r]}

\* Memory that ends at the mark made x bytes longer.
LEMMA Lengthened ==
    ASSUME NEW H, NEW p, Good(CleanupSeq, H, p), NEW u \in H, EndsAtMark(p, u.at),
           NEW x \in Nat, p.blocks[1].last + x <= BlockSize,
           \A v \in LargeNodes(p) : v.owner # u.owner
    PROVE  LET q == WithMark(p, 1, p.blocks[1].last + x) IN
             Good(CleanupSeq, Instead(H, u, Longer(u.at, x)), q) /\ q.cleanup = p.cleanup
<1> DEFINE W == H \cup LargeNodes(p)
           r == u.at
           q == WithMark(p, 1, p.blocks[1].last + x)
           G == {v \in H : v.owner # u.owner}
           w == [owner |-> u.owner, at |-> Longer(r, x)]
<1>1. Usable(CleanupSeq, p) /\ Tidy(W, p)
  BY DEF Good
<1>2. /\ r \in Regions /\ r.blk = 1 /\ 1 \in DOMAIN p.blocks /\ Base(1) <= r.from /\ r.from \in Nat
      /\ r.to \in Nat /\ r.from < r.to /\ r.to = p.blocks[1].last
      /\ u.owner[1] # "user" => r.from % NGX_ALIGNMENT = 0
  BY <1>1 DEF Tidy, InPlace, EndsAtMark, Regions, Usable, Marks
<1>3. /\ p.blocks[1].last \in Nat /\ p.blocks[1].last + x \in Nat
      /\ Base(1) <= p.blocks[1].last + x
  <2>1. r.to \in Nat /\ r.to + x \in Nat /\ Base(1) \in Nat /\ Base(1) <= r.to + x
    <3>1. Base(1) \in Nat
      BY DEF Base, PoolHeader, DataHeader
    <3> HIDE DEF r
    <3> QED BY <1>2, <3>1
  <2> QED BY <1>2, <2>1
<1>4. /\ Usable(CleanupSeq, q) /\ q.large = p.large /\ q.cleanup = p.cleanup
      /\ DOMAIN q.blocks = DOMAIN p.blocks /\ q.blocks[1].last = p.blocks[1].last + x
      /\ \A b \in DOMAIN p.blocks : b # 1 => q.blocks[b].last = p.blocks[b].last
  BY <1>1, <1>2, <1>3, MarkMoves
<1> HIDE DEF q
<1>5. LargeNodes(q) = LargeNodes(p)
  BY <1>4 DEF LargeNodes
<1>6. w.at.blk = 1 /\ w.at.from = r.from /\ w.at.to = r.to + x /\ w.at \in Regions
  BY <1>2 DEF Regions, Longer
<1>0. w.owner = u.owner
  OBVIOUS
<1> HIDE DEF w
<1>7. InPlace(w.at, q) /\ (w.owner[1] # "user" => w.at.from % NGX_ALIGNMENT = 0)
  BY <1>0, <1>2, <1>4, <1>6 DEF InPlace
<1>8. ASSUME NEW v \in G \cup LargeNodes(p)
      PROVE  InPlace(v.at, q) /\ Apart(v.at, w.at) /\ Apart(w.at, v.at)
  <2>1. v \in W /\ InPlace(v.at, p)
    BY <1>1 DEF Tidy
  <2>2. v.at.blk = 1 => v.at.to <= r.from
    BY <1>1, <2>1, LastInBlock
  <2>3. Apart(v.at, w.at) /\ Apart(w.at, v.at)
    BY <1>6, <2>2 DEF Apart
  <2>4. InPlace(v.at, q)
    <3>1. v.at.to \in Nat
      BY <2>1 DEF InPlace, Regions
    <3>2. v.at.blk = 1 => v.at.to <= q.blocks[1].last
      BY <1>2, <1>3, <1>4, <2>2, <3>1
    <3> QED BY <1>4, <2>1, <3>2 DEF InPlace
  <2> QED BY <2>3, <2>4
<1>9. Tidy((G \cup {w}) \cup LargeNodes(q), q)
  BY <1>0, <1>1, <1>5, <1>7, <1>8 DEF Tidy
<1> QED
  BY <1>4, <1>9 DEF Good, q, w, Instead

\* The header stays where it is, so do the other arrays.
LEMMA ArrayElsewhere ==
    ASSUME NEW a \in Arrays, array \in [Arrays -> [hdr : Regions, elts : Regions,
                                                  nelts : Nat, nalloc : Nat]],
           NEW rec, array' = [array EXCEPT ![a] = rec]
    PROVE  /\ ArrayMemory' \subseteq
                {u \in ArrayMemory : u.owner # <<"array", a>> /\ u.owner # <<"elts", a>>}
                \cup (IF rec = NoArray THEN {}
                      ELSE {Owned("array", a, rec.hdr), Owned("elts", a, rec.elts)})
           /\ ArraysInv /\ ArrayFits(rec) => ArraysInv'
<1>1. \A b \in Arrays : array'[b] = IF b = a THEN rec ELSE array[b]
  OBVIOUS
<1>2. ASSUME NEW u \in ArrayMemory'
      PROVE  u \in {v \in ArrayMemory : v.owner # <<"array", a>> /\ v.owner # <<"elts", a>>}
                   \cup (IF rec = NoArray THEN {}
                         ELSE {Owned("array", a, rec.hdr), Owned("elts", a, rec.elts)})
  <2>1. PICK b \in Arrays : /\ array'[b] # NoArray
                            /\ \/ u = Owned("array", b, array'[b].hdr)
                               \/ u = Owned("elts", b, array'[b].elts)
    BY DEF ArrayMemory
  <2>2. CASE b = a
    BY <1>1, <2>1, <2>2
  <2>3. CASE b # a
    <3>1. array[b] # NoArray /\ array'[b] = array[b]
      BY <1>1, <2>1, <2>3
    <3>2. u \in ArrayMemory
      BY <2>1, <3>1 DEF ArrayMemory
    <3>3. u.owner # <<"array", a>> /\ u.owner # <<"elts", a>>
      BY <2>1, <2>3 DEF Owned
    <3> QED BY <3>2, <3>3
  <2> QED BY <2>2, <2>3
<1>3. ArraysInv /\ ArrayFits(rec) => ArraysInv'
  BY <1>1 DEF ArraysInv
<1> QED
  BY <1>2, <1>3

LEMMA TimesIsPositive ==
    ASSUME NEW m \in Nat \ {0}, NEW n \in Nat \ {0}
    PROVE  m * n \in Nat \ {0}
OBVIOUS

\* The memory of an array is two owners apart from all others.
LEMMA ArrayOwns ==
    ASSUME NEW a \in Arrays, array[a] # NoArray
    PROVE  /\ Owned("array", a, array[a].hdr) \in Callers
           /\ Owned("elts", a, array[a].elts) \in Callers
           /\ \A u \in Cleanups \cup Users \cup ListMemory \cup LargeNodes(pool) :
                 u.owner # <<"array", a>> /\ u.owner # <<"elts", a>>
<1>1. \A u \in Cleanups \cup Users \cup ListMemory :
         u.owner # <<"array", a>> /\ u.owner # <<"elts", a>>
  BY DEF Cleanups, Users, ListMemory, Owned
<1>2. \A u \in LargeNodes(pool) : u.owner # <<"array", a>> /\ u.owner # <<"elts", a>>
  BY DEF LargeNodes, Owned
<1> QED
  BY <1>1, <1>2 DEF Callers, ArrayMemory

\* Both pieces of an array are given back, if they lie at the mark.
LEMMA ArrayDestroyStep == ASSUME IInv, NEW a \in Arrays, ngx_array_destroy(a) PROVE IInv'
<1> DEFINE e == Owned("elts", a, array[a].elts)
           h == Owned("array", a, array[a].hdr)
           G == {u \in Callers : u.owner # <<"elts", a>>}
           F == {u \in G : u.owner # <<"array", a>>}
           p == GiveBack(pool, array[a].elts)
           q == GiveBack(p, array[a].hdr)
<1>1. /\ alive /\ array[a] # NoArray /\ pool' = q
      /\ array' = [array EXCEPT ![a] = NoArray]
      /\ UNCHANGED <<alive, user, list, opened, closed>>
  BY DEF ngx_array_destroy
<1>2. /\ Good(CleanupSeq, Callers, pool) /\ TypeOK /\ FilesInv /\ ArraysInv /\ ListInv
  BY DEF IInv, ContentInv
<1>3. /\ e.owner = <<"elts", a>> /\ h.owner = <<"array", a>> /\ <<"elts", a>> # <<"array", a>>
      /\ e.at = array[a].elts /\ h.at = array[a].hdr
  BY DEF Owned
<1>4. e \in Callers /\ h \in G
  BY <1>1, <1>3, ArrayOwns
<1> HIDE DEF e, h
<1>5. /\ Good(CleanupSeq, G, p) /\ p.cleanup = pool.cleanup /\ LargeNodes(p) = LargeNodes(pool)
  <2>1. \A v \in G \cup LargeNodes(pool) : v.owner # e.owner
    BY <1>1, <1>3, ArrayOwns
  <2>2. G \subseteq Callers
    OBVIOUS
  <2> HIDE DEF G
  <2> QED BY <1>2, <1>3, <1>4, <2>1, <2>2, GivenBack
<1> HIDE DEF p
<1>6. Good(CleanupSeq, F, q) /\ q.cleanup = pool.cleanup
  <2>1. \A v \in F \cup LargeNodes(p) : v.owner # h.owner
    BY <1>1, <1>3, <1>5, ArrayOwns
  <2>2. F \subseteq G
    OBVIOUS
  <2> HIDE DEF F, G
  <2> QED BY <1>3, <1>4, <1>5, <2>1, <2>2, GivenBack
<1> HIDE DEF q
<1>7. /\ ArraysInv'
      /\ ArrayMemory' \subseteq
            {u \in ArrayMemory : u.owner # <<"array", a>> /\ u.owner # <<"elts", a>>}
  <2>1. ArrayFits(NoArray)
    BY CallerAssumption DEF ArrayFits, NoArray, NULL
  <2> QED
    BY <1>1, <1>2, <2>1, ArrayElsewhere DEF TypeOK
<1>8. /\ Cleanups' = Cleanups /\ Users' = Users /\ ListMemory' = ListMemory
      /\ FilesInv' /\ ListInv'
  BY <1>1, <1>2, <1>6, CleanupsKept, UsersKept, ListKept, FilesKept
<1>9. Callers' \subseteq F
  BY <1>1, <1>7, <1>8, ArrayOwns DEF Callers
<1>10. Good(CleanupSeq, Callers', pool')
  <2> HIDE DEF F
  <2> QED BY <1>1, <1>6, <1>9, GoodSubset
<1>11. TypeOK'
  <2>1. NoArray \in [hdr : Regions, elts : Regions, nelts : Nat, nalloc : Nat]
    BY DEF NoArray, NULL, Regions
  <2> QED
    BY <1>1, <1>2, <1>10, <2>1, GoodIsTyped DEF TypeOK
<1> QED
  BY <1>1, <1>7, <1>8, <1>10, <1>11 DEF IInv, ContentInv, NothingWithoutPool

\* Two allocations one after the other: a header and the elements behind it.
LEMMA PairGiven ==
    ASSUME NEW H, NEW p, Good(CleanupSeq, H, p), NEW m \in Nat \ {0}, NEW n \in Nat \ {0},
           NEW h \in ngx_palloc(p, m), NEW i, NEW j, NEW k, NEW l
    PROVE  /\ Good(CleanupSeq, H, h.pool) /\ h.pool.cleanup = p.cleanup
           /\ h.at # NULL =>
                \A e \in ngx_palloc(h.pool, n) :
                   /\ Good(CleanupSeq, H, e.pool) /\ e.pool.cleanup = p.cleanup
                   /\ e.at # NULL =>
                        /\ h.at \in Regions /\ e.at \in Regions /\ e.at.to = e.at.from + n
                        /\ Good(CleanupSeq, H \cup {Owned(i, k, h.at), Owned(j, l, e.at)}, e.pool)
<1>1. Gives(CleanupSeq, H, p, m, TRUE, h)
  BY PallocGives
<1>2. Good(CleanupSeq, H, h.pool) /\ h.pool.cleanup = p.cleanup
  BY <1>1 DEF Gives
<1>3. ASSUME h.at # NULL, NEW e \in ngx_palloc(h.pool, n)
      PROVE  /\ Good(CleanupSeq, H, e.pool) /\ e.pool.cleanup = p.cleanup
             /\ e.at # NULL =>
                  /\ h.at \in Regions /\ e.at \in Regions /\ e.at.to = e.at.from + n
                  /\ Good(CleanupSeq, H \cup {Owned(i, k, h.at), Owned(j, l, e.at)}, e.pool)
  <2> DEFINE G == H \cup {Owned(i, k, h.at)}
             F == G \cup {Owned(j, l, e.at)}
  <2>1. Good(CleanupSeq, G, h.pool) /\ h.at \in Regions
    BY <1>1, <1>3 DEF Gives
  <2>2. Gives(CleanupSeq, G, h.pool, n, TRUE, e)
    <3> HIDE DEF G
    <3> QED BY <1>3, <2>1, PallocGives
  <2>3. Good(CleanupSeq, G, e.pool) /\ e.pool.cleanup = p.cleanup
    BY <1>2, <2>2 DEF Gives
  <2>4. Good(CleanupSeq, H, e.pool)
    BY <2>3, GoodSubset
  <2>5. e.at # NULL => e.at \in Regions /\ e.at.to = e.at.from + n /\ Good(CleanupSeq, F, e.pool)
    BY <2>2 DEF Gives
  <2>6. F = H \cup {Owned(i, k, h.at), Owned(j, l, e.at)}
    OBVIOUS
  <2> HIDE DEF F, G
  <2> QED BY <2>1, <2>3, <2>4, <2>5, <2>6
<1> QED
  BY <1>2, <1>3

\* Memory was asked for and nobody keeps it.
LEMMA Unkept ==
    ASSUME IInv, alive, Good(CleanupSeq, Callers, pool'), pool'.cleanup = pool.cleanup,
           UNCHANGED <<alive, user, array, list, opened, closed>>
    PROVE  IInv'
<1>1. TypeOK /\ FilesInv /\ ArraysInv /\ ListInv
  BY DEF IInv, ContentInv
<1>2. /\ Cleanups' = Cleanups /\ Users' = Users /\ ArrayMemory' = ArrayMemory
      /\ ListMemory' = ListMemory /\ FilesInv' /\ ArraysInv' /\ ListInv'
  BY <1>1, CleanupsKept, UsersKept, ArraysKept, ListKept, FilesKept
<1>3. Callers' = Callers
  BY <1>2 DEF Callers
<1>4. TypeOK'
  BY <1>1, GoodIsTyped DEF TypeOK
<1> QED
  BY <1>2, <1>3, <1>4 DEF IInv, ContentInv, NothingWithoutPool

LEMMA ArrayCreateStep ==
    ASSUME IInv, NEW a \in Arrays, NEW n \in Counts, ngx_array_create(a, n)
    PROVE  IInv'
<1>0. n \in Nat \ {0} /\ n * ElemSize \in Nat \ {0} /\ ArrayHeader \in Nat \ {0}
  BY CallerAssumption, TimesIsPositive DEF ArrayHeader
<1> DEFINE size == n * ElemSize
           Made(h, e) == [hdr |-> h.at, elts |-> e.at, nelts |-> 0, nalloc |-> n]
<1>1. /\ alive /\ array[a] = NoArray /\ UNCHANGED <<alive, user, list, opened, closed>>
  BY DEF ngx_array_create
<1>2. PICK h \in ngx_palloc(pool, ArrayHeader) :
         IF h.at = NULL
         THEN pool' = h.pool /\ UNCHANGED array
         ELSE \E e \in ngx_palloc(h.pool, size) :
                /\ pool' = e.pool
                /\ array' = IF e.at = NULL THEN array ELSE [array EXCEPT ![a] = Made(h, e)]
  BY DEF ngx_array_create
<1>3. /\ Good(CleanupSeq, Callers, pool) /\ TypeOK /\ FilesInv /\ ArraysInv /\ ListInv
  BY DEF IInv, ContentInv
<1>4. /\ Good(CleanupSeq, Callers, h.pool) /\ h.pool.cleanup = pool.cleanup
      /\ h.at # NULL =>
            \A e \in ngx_palloc(h.pool, size) :
               /\ Good(CleanupSeq, Callers, e.pool) /\ e.pool.cleanup = pool.cleanup
               /\ e.at # NULL =>
                    /\ h.at \in Regions /\ e.at \in Regions /\ e.at.to = e.at.from + size
                    /\ Good(CleanupSeq, Callers \cup {Owned("array", a, h.at), Owned("elts", a, e.at)},
                            e.pool)
  <2> HIDE DEF size
  <2>1. size \in Nat \ {0}
    BY <1>0 DEF size
  <2> QED
    BY <1>0, <1>2, <1>3, <2>1, PairGiven
<1>5. CASE h.at = NULL
  <2>1. pool' = h.pool /\ UNCHANGED array
    BY <1>2, <1>5
  <2> QED
    BY <1>1, <1>4, <2>1, Unkept
<1>6. CASE h.at # NULL
  <2>1. PICK e \in ngx_palloc(h.pool, size) :
                /\ pool' = e.pool
                /\ array' = IF e.at = NULL THEN array ELSE [array EXCEPT ![a] = Made(h, e)]
    BY <1>2, <1>6
  <2>2. /\ Good(CleanupSeq, Callers, e.pool) /\ e.pool.cleanup = pool.cleanup
        /\ e.at # NULL =>
              /\ h.at \in Regions /\ e.at \in Regions /\ e.at.to = e.at.from + size
              /\ Good(CleanupSeq, Callers \cup {Owned("array", a, h.at), Owned("elts", a, e.at)},
                      e.pool)
    BY <1>4, <1>6, <2>1
  <2>3. CASE e.at = NULL
    <3>1. pool' = e.pool /\ UNCHANGED array
      BY <2>1, <2>3
    <3> QED
      BY <1>1, <2>2, <3>1, Unkept
  <2>4. CASE e.at # NULL
    <3> DEFINE rec == Made(h, e)
               G == Callers \cup {Owned("array", a, h.at), Owned("elts", a, e.at)}
    <3>1. array' = [array EXCEPT ![a] = rec] /\ pool' = e.pool
      BY <2>1, <2>4
    <3>2. /\ rec \in [hdr : Regions, elts : Regions, nelts : Nat, nalloc : Nat]
          /\ rec.hdr = h.at /\ rec.elts = e.at /\ rec.nelts = 0 /\ rec.nalloc = n
      BY <1>0, <2>2, <2>4
    <3> HIDE DEF rec
    <3>3. rec # NoArray /\ ArrayFits(rec)
      BY <1>0, <2>2, <2>4, <3>2 DEF ArrayFits, NoArray
    <3>4. /\ ArraysInv'
          /\ ArrayMemory' \subseteq ArrayMemory \cup {Owned("array", a, h.at), Owned("elts", a, e.at)}
      BY <1>3, <3>1, <3>2, <3>3, ArrayElsewhere DEF TypeOK
    <3>5. /\ Cleanups' = Cleanups /\ Users' = Users /\ ListMemory' = ListMemory
          /\ FilesInv' /\ ListInv'
      BY <1>1, <1>3, <2>2, <3>1, CleanupsKept, UsersKept, ListKept, FilesKept
    <3>6. Callers' \subseteq G
      BY <3>4, <3>5 DEF Callers
    <3>7. Good(CleanupSeq, G, e.pool)
      BY <2>2, <2>4
    <3>8. Good(CleanupSeq, Callers', pool')
      <4> HIDE DEF G
      <4> QED BY <3>1, <3>6, <3>7, GoodSubset
    <3>9. TypeOK'
      BY <1>1, <1>3, <3>1, <3>2, <3>8, GoodIsTyped DEF TypeOK
    <3> QED
      BY <1>1, <3>4, <3>5, <3>8, <3>9 DEF IInv, ContentInv, NothingWithoutPool
  <2> QED BY <2>3, <2>4
<1> QED
  BY <1>5, <1>6

ArrayType == [hdr : Regions, elts : Regions, nelts : Nat, nalloc : Nat]
WithoutElts(a) == {u \in Callers : u.owner # <<"elts", a>>}

\* g makes room for n more elements of array a, or is what is left when there
\* is no memory for them.
RoomMade(a, n, g) ==
    /\ g.pool.cleanup = pool.cleanup
    /\ IF g.array = NoArray THEN Good(CleanupSeq, Callers, g.pool)
       ELSE /\ g.array \in ArrayType
            /\ g.array.hdr = array[a].hdr /\ g.array.nelts = array[a].nelts
            /\ g.array.nelts + n <= g.array.nalloc /\ g.array.nalloc # 0
            /\ g.array.elts.to = g.array.elts.from + g.array.nalloc * ElemSize
            /\ Good(CleanupSeq, WithoutElts(a) \cup {Owned("elts", a, g.array.elts)}, g.pool)

LEMMA AsItIsHasRoom ==
    ASSUME IInv, NEW a \in Arrays, array[a] # NoArray, NEW n \in Nat,
           array[a].nelts + n <= array[a].nalloc, NEW g \in AsItIs(a)
    PROVE  RoomMade(a, n, g)
<1>1. g.pool = pool /\ g.array = array[a]
  BY DEF AsItIs
<1>2. TypeOK /\ ArraysInv /\ Good(CleanupSeq, Callers, pool)
  BY DEF IInv, ContentInv
<1>3. array[a] \in ArrayType /\ ArrayFits(array[a])
  BY <1>2 DEF TypeOK, ArrayType, ArraysInv
<1>4. WithoutElts(a) \cup {Owned("elts", a, array[a].elts)} \subseteq Callers
  BY ArrayOwns DEF WithoutElts
<1>5. Good(CleanupSeq, WithoutElts(a) \cup {Owned("elts", a, array[a].elts)}, pool)
  BY <1>2, <1>4, GoodSubset
<1> QED
  BY <1>1, <1>3, <1>5 DEF RoomMade, ArrayFits

\* In place, or elsewhere.
LEMMA GrownHasRoom ==
    ASSUME IInv, NEW a \in Arrays, array[a] # NoArray,
           NEW n \in Nat, NEW need \in Nat \ {0}, NEW nalloc \in Nat \ {0},
           array[a].nelts + n <= array[a].nalloc + need, array[a].nelts + n <= nalloc,
           NEW g \in Grown(a, need, nalloc)
    PROVE  RoomMade(a, n, g)
<1> DEFINE r == array[a]
           x == need * ElemSize
           longer == [r EXCEPT !.elts = Longer(@, x), !.nalloc = @ + need]
           Moved(s) == [pool |-> s.pool,
                        array |-> IF s.at = NULL THEN NoArray
                                  ELSE [r EXCEPT !.elts = s.at, !.nalloc = nalloc]]
           InPlaceNow == EndsAtMark(pool, r.elts) /\ pool.blocks[1].last + x <= BlockSize
<1>1. TypeOK /\ ArraysInv /\ Good(CleanupSeq, Callers, pool)
  BY DEF IInv, ContentInv
<1>2. r \in ArrayType /\ ArrayFits(r)
  BY <1>1 DEF TypeOK, ArrayType, ArraysInv
<1>3. /\ InPlaceNow => g = [pool |-> WithMark(pool, 1, pool.blocks[1].last + x), array |-> longer]
      /\ ~InPlaceNow => \E s \in ngx_palloc(pool, nalloc * ElemSize) : g = Moved(s)
  BY DEF Grown, WithMark
<1>4. x \in Nat \ {0} /\ nalloc * ElemSize \in Nat \ {0} /\ ElemSize \in Nat
  BY CallerAssumption, TimesIsPositive
<1>5. CASE InPlaceNow
  <2> DEFINE u == Owned("elts", a, r.elts)
             w == Owned("elts", a, longer.elts)
             q == WithMark(pool, 1, pool.blocks[1].last + x)
  <2>1. g.pool = q /\ g.array = longer
    <3> HIDE DEF longer, InPlaceNow
    <3> QED BY <1>3, <1>5
  <2>2. /\ r.elts \in Regions /\ r.nalloc \in Nat /\ r.nelts \in Nat /\ r.hdr \in Regions
        /\ r.elts.from \in Nat /\ r.elts.to \in Nat /\ r.elts.blk \in Int
        /\ r.elts.to = r.elts.from + r.nalloc * ElemSize
    BY <1>2 DEF ArrayType, ArrayFits, Regions
  <2>3. /\ longer.hdr = r.hdr /\ longer.nelts = r.nelts /\ longer.nalloc = r.nalloc + need
        /\ longer.elts = Longer(r.elts, x)
        /\ longer \in ArrayType
    <3> HIDE DEF x
    <3>2. Longer(r.elts, x) \in Regions
      BY <1>4, <2>2 DEF Longer, Regions
    <3>3. r.nalloc + need \in Nat
      BY <2>2
    <3> HIDE DEF r
    <3> QED BY <1>2, <3>2, <3>3 DEF ArrayType
  <2>4. longer.elts.from = r.elts.from /\ longer.elts.to = r.elts.to + x
    BY <2>2, <2>3 DEF Regions, Longer
  <2> HIDE DEF longer
  <2>5. longer.elts.to = longer.elts.from + longer.nalloc * ElemSize
    <3>1. (r.nalloc + need) * ElemSize = r.nalloc * ElemSize + need * ElemSize
      BY <1>4, <2>2
    <3>2. r.nalloc * ElemSize \in Nat
      BY <1>4, <2>2
    <3> QED BY <1>4, <2>2, <2>3, <2>4, <3>1, <3>2
  <2>6. longer # NoArray /\ longer.nalloc # 0
    BY <2>2, <2>3 DEF NoArray
  <2>7. /\ u \in Callers /\ u.owner = <<"elts", a>> /\ u.at = r.elts
        /\ w = [owner |-> u.owner, at |-> Longer(u.at, x)]
        /\ \A v \in LargeNodes(pool) : v.owner # u.owner
    BY <2>3, ArrayOwns DEF Owned
  <2> HIDE DEF u, w, x, q
  <2>8. Good(CleanupSeq, WithoutElts(a) \cup {w}, q) /\ q.cleanup = pool.cleanup
    <3>1. WithoutElts(a) \cup {w} = Instead(Callers, u, Longer(u.at, x))
      BY <2>7 DEF WithoutElts, Instead
    <3>2. EndsAtMark(pool, u.at) /\ pool.blocks[1].last + x <= BlockSize
      BY <1>5, <2>7
    <3>3. x \in Nat
      BY <1>4
    <3>4. /\ Good(CleanupSeq, Instead(Callers, u, Longer(u.at, x)),
                 WithMark(pool, 1, pool.blocks[1].last + x))
          /\ WithMark(pool, 1, pool.blocks[1].last + x).cleanup = pool.cleanup
      BY <1>1, <2>7, <3>2, <3>3, Lengthened
    <3> QED
      BY <3>1, <3>4 DEF q
  <2> QED
    BY <2>1, <2>2, <2>3, <2>5, <2>6, <2>8 DEF RoomMade, w
<1>6. CASE ~InPlaceNow
  <2>1. PICK s \in ngx_palloc(pool, nalloc * ElemSize) : g = Moved(s)
    BY <1>3, <1>6
  <2>2. Gives(CleanupSeq, Callers, pool, nalloc * ElemSize, TRUE, s)
    BY <1>1, <1>4, PallocGives
  <2>3. CASE s.at = NULL
    BY <2>1, <2>2, <2>3 DEF RoomMade, Gives
  <2>4. CASE s.at # NULL
    <3> DEFINE rec == [r EXCEPT !.elts = s.at, !.nalloc = nalloc]
               w == Owned("elts", a, s.at)
    <3>1. g.pool = s.pool /\ g.array = rec
      BY <2>1, <2>4
    <3>2. /\ s.at \in Regions /\ s.at.to = s.at.from + nalloc * ElemSize
          /\ Good(CleanupSeq, Callers \cup {w}, s.pool) /\ s.pool.cleanup = pool.cleanup
      BY <2>2, <2>4 DEF Gives
    <3>3. /\ rec \in ArrayType /\ rec.elts = s.at /\ rec.nalloc = nalloc
          /\ rec.hdr = r.hdr /\ rec.nelts = r.nelts
      BY <1>2, <3>2 DEF ArrayType
    <3> HIDE DEF rec
    <3>4. rec # NoArray
      BY <3>3 DEF NoArray
    <3>5. Good(CleanupSeq, WithoutElts(a) \cup {w}, s.pool)
      <4>1. WithoutElts(a) \cup {w} \subseteq Callers \cup {w}
        BY DEF WithoutElts
      <4> HIDE DEF w
      <4> QED BY <3>2, <4>1, GoodSubset
    <3> QED
      BY <3>1, <3>2, <3>3, <3>4, <3>5 DEF RoomMade
  <2> QED BY <2>3, <2>4
<1> QED
  BY <1>5, <1>6

LEMMA PushStep ==
    ASSUME IInv, NEW a \in Arrays, NEW n \in Nat, NEW results,
           array[a] # NoArray => \A g \in results : RoomMade(a, n, g), Push(a, n, results)
    PROVE  IInv'
<1>1. /\ alive /\ array[a] # NoArray /\ UNCHANGED <<alive, user, list, opened, closed>>
  BY DEF Push
<1>2. PICK g \in results :
         /\ pool' = g.pool
         /\ array' = IF g.array = NoArray THEN array
                     ELSE [array EXCEPT ![a] = [g.array EXCEPT !.nelts = @ + n]]
  BY DEF Push
<1>3. /\ Good(CleanupSeq, Callers, pool) /\ TypeOK /\ FilesInv /\ ArraysInv /\ ListInv
  BY DEF IInv, ContentInv
<1>4. RoomMade(a, n, g)
  BY <1>1
<1>5. CASE g.array = NoArray
  <2>1. UNCHANGED array /\ Good(CleanupSeq, Callers, pool') /\ pool'.cleanup = pool.cleanup
    BY <1>2, <1>4, <1>5 DEF RoomMade
  <2> QED
    BY <1>1, <2>1, Unkept
<1>6. CASE g.array # NoArray
  <2> DEFINE rec == [g.array EXCEPT !.nelts = @ + n]
             w == Owned("elts", a, g.array.elts)
  <2>1. array' = [array EXCEPT ![a] = rec] /\ pool' = g.pool
    BY <1>2, <1>6
  <2>2. /\ g.array \in ArrayType /\ g.array.hdr = array[a].hdr
        /\ g.array.nelts + n <= g.array.nalloc /\ g.array.nalloc # 0
        /\ g.array.elts.to = g.array.elts.from + g.array.nalloc * ElemSize
        /\ Good(CleanupSeq, WithoutElts(a) \cup {w}, g.pool) /\ g.pool.cleanup = pool.cleanup
    BY <1>4, <1>6 DEF RoomMade
  <2>3. /\ rec \in ArrayType /\ rec.hdr = g.array.hdr /\ rec.elts = g.array.elts
        /\ rec.nelts = g.array.nelts + n /\ rec.nalloc = g.array.nalloc
    BY <2>2 DEF ArrayType
  <2> HIDE DEF rec
  <2>4. rec # NoArray /\ ArrayFits(rec)
    BY <2>2, <2>3 DEF ArrayFits, NoArray
  <2>5. /\ ArraysInv'
        /\ ArrayMemory' \subseteq
              {u \in ArrayMemory : u.owner # <<"array", a>> /\ u.owner # <<"elts", a>>}
              \cup {Owned("array", a, array[a].hdr), w}
    BY <1>3, <2>1, <2>2, <2>3, <2>4, ArrayElsewhere DEF TypeOK
  <2>6. /\ Cleanups' = Cleanups /\ Users' = Users /\ ListMemory' = ListMemory
        /\ FilesInv' /\ ListInv'
    BY <1>1, <1>3, <2>1, <2>2, CleanupsKept, UsersKept, ListKept, FilesKept
  <2>7. Callers' \subseteq WithoutElts(a) \cup {w}
    <3>1. Owned("array", a, array[a].hdr) \in WithoutElts(a)
      <4>1. Owned("array", a, array[a].hdr).owner # <<"elts", a>>
        BY DEF Owned
      <4> QED BY <1>1, <4>1, ArrayOwns DEF WithoutElts
    <3>2. ArrayMemory' \subseteq WithoutElts(a) \cup {w}
      BY <2>5, <3>1 DEF WithoutElts, Callers
    <3>3. Cleanups \cup Users \cup ListMemory \subseteq WithoutElts(a)
      BY <1>1, ArrayOwns DEF WithoutElts, Callers
    <3> QED BY <2>6, <3>2, <3>3 DEF Callers
  <2>8. Good(CleanupSeq, Callers', pool')
    <3> HIDE DEF w
    <3> QED BY <2>1, <2>2, <2>7, GoodSubset
  <2>9. TypeOK'
    BY <1>1, <1>3, <2>1, <2>3, <2>8, GoodIsTyped DEF TypeOK, ArrayType
  <2> QED
    BY <1>1, <2>5, <2>6, <2>8, <2>9 DEF IInv, ContentInv, NothingWithoutPool
<1> QED
  BY <1>5, <1>6

LEMMA ArrayPushStep == ASSUME IInv, NEW a \in Arrays, ngx_array_push(a) PROVE IInv'
<1> DEFINE r == array[a]
           results == IF r.nelts = r.nalloc THEN Grown(a, 1, 2 * r.nalloc) ELSE AsItIs(a)
<1>1. Push(a, 1, results)
  BY DEF ngx_array_push
<1>2. ASSUME r # NoArray PROVE \A g \in results : RoomMade(a, 1, g)
  <2>1. r.nelts \in Nat /\ r.nalloc \in Nat \ {0} /\ r.nelts <= r.nalloc
    BY <1>2 DEF IInv, TypeOK, ContentInv, ArraysInv, ArrayFits
  <2>2. CASE r.nelts = r.nalloc
    <3>1. /\ r.nelts + 1 <= r.nalloc + 1 /\ r.nelts + 1 <= 2 * r.nalloc
          /\ 2 * r.nalloc \in Nat \ {0} /\ 1 \in Nat \ {0} /\ 1 \in Nat
      BY <2>1, <2>2
    <3> QED
      BY <1>2, <2>2, <3>1, GrownHasRoom
  <2>3. CASE r.nelts # r.nalloc
    <3>1. r.nelts + 1 <= r.nalloc /\ 1 \in Nat
      BY <2>1, <2>3
    <3> QED
      BY <1>2, <2>3, <3>1, AsItIsHasRoom
  <2> QED BY <2>2, <2>3
<1> HIDE DEF results
<1>3. 1 \in Nat
  OBVIOUS
<1> QED
  BY <1>1, <1>2, <1>3, PushStep

LEMMA ArrayPushNStep ==
    ASSUME IInv, NEW a \in Arrays, NEW n \in Counts, ngx_array_push_n(a, n)
    PROVE  IInv'
<1> DEFINE r == array[a]
           nalloc == 2 * (IF n >= r.nalloc THEN n ELSE r.nalloc)
           results == IF r.nelts + n > r.nalloc THEN Grown(a, n, nalloc) ELSE AsItIs(a)
<1>0. n \in Nat \ {0}
  BY CallerAssumption
<1>1. Push(a, n, results)
  BY DEF ngx_array_push_n
<1>2. ASSUME r # NoArray PROVE \A g \in results : RoomMade(a, n, g)
  <2>1. r.nelts \in Nat /\ r.nalloc \in Nat \ {0} /\ r.nelts <= r.nalloc
    BY <1>2 DEF IInv, TypeOK, ContentInv, ArraysInv, ArrayFits
  <2>2. CASE r.nelts + n > r.nalloc
    <3>1. /\ r.nelts + n <= r.nalloc + n /\ r.nelts + n <= nalloc /\ nalloc \in Nat \ {0}
      BY <1>0, <2>1
    <3> HIDE DEF nalloc
    <3> QED
      BY <1>0, <1>2, <2>2, <3>1, GrownHasRoom
  <2>3. CASE ~(r.nelts + n > r.nalloc)
    <3>1. r.nelts + n <= r.nalloc
      BY <1>0, <2>1, <2>3
    <3> QED
      BY <1>0, <1>2, <2>3, <3>1, AsItIsHasRoom
  <2> QED BY <2>2, <2>3
<1> HIDE DEF results
<1> QED
  BY <1>0, <1>1, <1>2, PushStep

-----------------------------------------------------------------------------
(* The list.                                                               *)

PartType == [node : Regions, elts : Regions, nelts : Nat]
ListType == [hdr : Regions, nalloc : Nat, parts : Seq(PartType)]

LEMMA ListCreateStep == ASSUME IInv, NEW n \in Counts, ngx_list_create(n) PROVE IInv'
<1> DEFINE size == n * ElemSize
           Made(h, e) == [hdr |-> h.at, nalloc |-> n,
                          parts |-> <<[node |-> NULL, elts |-> e.at, nelts |-> 0]>>]
<1>0. n \in Nat \ {0} /\ size \in Nat \ {0} /\ ListHeader \in Nat \ {0}
  BY CallerAssumption, TimesIsPositive DEF ListHeader
<1>1. /\ alive /\ list = NoList /\ UNCHANGED <<alive, user, array, opened, closed>>
  BY DEF ngx_list_create
<1>2. PICK h \in ngx_palloc(pool, ListHeader) :
         IF h.at = NULL
         THEN pool' = h.pool /\ UNCHANGED list
         ELSE \E e \in ngx_palloc(h.pool, size) :
                /\ pool' = e.pool
                /\ list' = IF e.at = NULL THEN list ELSE Made(h, e)
  BY DEF ngx_list_create
<1>3. /\ Good(CleanupSeq, Callers, pool) /\ TypeOK /\ FilesInv /\ ArraysInv /\ ListInv
  BY DEF IInv, ContentInv
<1>4. /\ Good(CleanupSeq, Callers, h.pool) /\ h.pool.cleanup = pool.cleanup
      /\ h.at # NULL =>
            \A e \in ngx_palloc(h.pool, size) :
               /\ Good(CleanupSeq, Callers, e.pool) /\ e.pool.cleanup = pool.cleanup
               /\ e.at # NULL =>
                    /\ h.at \in Regions /\ e.at \in Regions /\ e.at.to = e.at.from + size
                    /\ Good(CleanupSeq, Callers \cup {Owned("list", 0, h.at), Owned("part", 1, e.at)},
                            e.pool)
  <2> HIDE DEF size
  <2> QED
    BY <1>0, <1>2, <1>3, PairGiven
<1>5. CASE h.at = NULL
  <2>1. pool' = h.pool /\ UNCHANGED list
    BY <1>2, <1>5
  <2> QED
    BY <1>1, <1>4, <2>1, Unkept
<1>6. CASE h.at # NULL
  <2>1. PICK e \in ngx_palloc(h.pool, size) :
                /\ pool' = e.pool
                /\ list' = IF e.at = NULL THEN list ELSE Made(h, e)
    BY <1>2, <1>6
  <2>2. /\ Good(CleanupSeq, Callers, e.pool) /\ e.pool.cleanup = pool.cleanup
        /\ e.at # NULL =>
              /\ h.at \in Regions /\ e.at \in Regions /\ e.at.to = e.at.from + size
              /\ Good(CleanupSeq, Callers \cup {Owned("list", 0, h.at), Owned("part", 1, e.at)},
                      e.pool)
    BY <1>4, <1>6, <2>1
  <2>3. CASE e.at = NULL
    <3>1. pool' = e.pool /\ UNCHANGED list
      BY <2>1, <2>3
    <3> QED
      BY <1>1, <2>2, <3>1, Unkept
  <2>4. CASE e.at # NULL
    <3> DEFINE part == [node |-> NULL, elts |-> e.at, nelts |-> 0]
               G == Callers \cup {Owned("list", 0, h.at), Owned("part", 1, e.at)}
    <3>1. list' = Made(h, e) /\ pool' = e.pool
      BY <2>1, <2>4
    <3>2. /\ part \in PartType /\ part.elts = e.at /\ part.nelts = 0
          /\ NULL \in Regions
      BY <2>2, <2>4 DEF PartType, NULL, Regions
    <3>3. /\ list'.hdr = h.at /\ list'.nalloc = n /\ list'.parts = <<part>>
          /\ list' \in ListType
      <4>1. list' = [hdr |-> h.at, nalloc |-> n, parts |-> <<part>>]
        BY <3>1
      <4> HIDE DEF part
      <4> QED BY <1>0, <2>2, <2>4, <3>2, <4>1 DEF ListType
    <3> HIDE DEF part
    <3>4. DOMAIN list'.parts = {1} /\ list'.parts[1] = part /\ Len(list'.parts) = 1
      BY <3>3
    <3>5. ListInv'
      BY <1>0, <2>2, <2>4, <3>2, <3>3, <3>4 DEF ListInv, NoList
    <3>6. ListMemory' \subseteq {Owned("list", 0, h.at), Owned("part", 1, e.at)}
      BY <3>2, <3>3, <3>4 DEF ListMemory
    <3>7. /\ Cleanups' = Cleanups /\ Users' = Users /\ ArrayMemory' = ArrayMemory
          /\ FilesInv' /\ ArraysInv'
      BY <1>1, <1>3, <2>2, <3>1, CleanupsKept, UsersKept, ArraysKept, FilesKept
    <3>8. Callers' \subseteq G
      BY <3>6, <3>7 DEF Callers
    <3>9. Good(CleanupSeq, G, e.pool)
      BY <2>2, <2>4
    <3>10. Good(CleanupSeq, Callers', pool')
      <4> HIDE DEF G
      <4> QED BY <3>1, <3>8, <3>9, GoodSubset
    <3>11. TypeOK'
      BY <1>1, <1>3, <3>3, <3>10, GoodIsTyped DEF TypeOK, ListType, PartType
    <3> QED
      BY <1>1, <3>5, <3>7, <3>10, <3>11 DEF IInv, ContentInv, NothingWithoutPool
  <2> QED BY <2>3, <2>4
<1> QED
  BY <1>5, <1>6

\* One element more in the last part.
LEMMA ListFitsStep == ASSUME IInv, ListPushFits PROVE IInv'
<1> DEFINE n == Len(list.parts)
           q == list.parts[n]
           part == [q EXCEPT !.nelts = @ + 1]
           parts == [list.parts EXCEPT ![n] = part]
<1>1. /\ alive /\ list # NoList /\ q.nelts < list.nalloc
      /\ list' = [list EXCEPT !.parts[n].nelts = @ + 1]
      /\ UNCHANGED <<alive, pool, user, array, opened, closed>>
  BY DEF ListPushFits, LastPart
<1>2. /\ Good(CleanupSeq, Callers, pool) /\ TypeOK /\ FilesInv /\ ArraysInv /\ ListInv
  BY DEF IInv, ContentInv
<1>3. /\ list \in ListType /\ list.parts \in Seq(PartType) /\ n \in Nat
      /\ DOMAIN list.parts = 1 .. n /\ list.nalloc \in Nat /\ n \in DOMAIN list.parts
  <2>1. list \in ListType
    BY <1>2 DEF TypeOK, ListType, PartType
  <2>2. list.parts \in Seq(PartType) /\ list.nalloc \in Nat
    BY <2>1 DEF ListType
  <2>3. list.parts # <<>>
    BY <1>1, <1>2 DEF ListInv
  <2> QED BY <2>1, <2>2, <2>3
<1>4. /\ q \in PartType /\ part \in PartType /\ part.nelts = q.nelts + 1
      /\ part.elts = q.elts /\ part.node = q.node /\ q.nelts \in Nat
  <2>1. q \in PartType
    BY <1>3
  <2> HIDE DEF q
  <2> QED BY <2>1 DEF PartType
<1>5. list' = [list EXCEPT !.parts = parts]
  BY <1>1, <1>3 DEF ListType
<1>0. n \in DOMAIN list.parts /\ q = list.parts[n]
  BY <1>3
<1> HIDE DEF part, q
<1>6. /\ parts \in Seq(PartType) /\ DOMAIN parts = 1 .. n /\ Len(parts) = n /\ parts[n] = part
      /\ \A k \in 1 .. n : k # n => parts[k] = list.parts[k]
  BY <1>3, <1>4
<1> HIDE DEF parts
<1>7. list'.parts = parts /\ list'.nalloc = list.nalloc /\ list'.hdr = list.hdr /\ list' \in ListType
  BY <1>3, <1>5, <1>6 DEF ListType
<1>8. ListInv'
  <2>1. ASSUME NEW k \in 1 .. n
        PROVE  /\ parts[k].nelts <= list.nalloc
               /\ k < n => parts[k].nelts = list.nalloc
               /\ parts[k].elts.to = parts[k].elts.from + list.nalloc * ElemSize
    <3>1. /\ list.parts[k].nelts <= list.nalloc
          /\ k < n => list.parts[k].nelts = list.nalloc
          /\ list.parts[k].elts.to = list.parts[k].elts.from + list.nalloc * ElemSize
      BY <1>2, <1>3 DEF ListInv
    <3>2. CASE k = n
      BY <1>0, <1>1, <1>3, <1>4, <1>6, <3>1, <3>2
    <3>3. CASE k # n
      BY <1>6, <3>1, <3>3
    <3> QED BY <3>2, <3>3
  <2>2. parts # <<>> /\ list.nalloc # 0
    BY <1>1, <1>2, <1>3, <1>6 DEF ListInv
  <2> QED
    BY <1>6, <1>7, <2>1, <2>2 DEF ListInv
<1>9. ListMemory' = ListMemory
  <2>1. \A k \in 1 .. n : parts[k].elts = list.parts[k].elts /\ parts[k].node = list.parts[k].node
    BY <1>0, <1>4, <1>6
  <2>2. list' # NoList
    BY <1>1, <1>2, <1>7 DEF ListInv, NoList
  <2>3. ListMemory' = {Owned("list", 0, list.hdr)}
                      \cup {Owned("part", k, parts[k].elts) : k \in 1 .. n}
                      \cup {Owned("node", k, parts[k].node) : k \in 2 .. n}
    BY <1>6, <1>7, <2>2 DEF ListMemory
  <2>4. ListMemory = {Owned("list", 0, list.hdr)}
                     \cup {Owned("part", k, list.parts[k].elts) : k \in 1 .. n}
                     \cup {Owned("node", k, list.parts[k].node) : k \in 2 .. n}
    BY <1>1, <1>3 DEF ListMemory
  <2>5. \A k \in 2 .. n : k \in 1 .. n
    BY <1>3
  <2> HIDE DEF n
  <2> QED BY <2>1, <2>3, <2>4, <2>5
<1>10. /\ Cleanups' = Cleanups /\ Users' = Users /\ ArrayMemory' = ArrayMemory
       /\ FilesInv' /\ ArraysInv'
  BY <1>1, <1>2, CleanupsKept, UsersKept, ArraysKept, FilesKept
<1>11. Callers' = Callers
  BY <1>9, <1>10 DEF Callers
<1>12. TypeOK'
  BY <1>1, <1>2, <1>7 DEF TypeOK, ListType, PartType
<1> QED
  BY <1>1, <1>2, <1>8, <1>10, <1>11, <1>12 DEF IInv, ContentInv, NothingWithoutPool

\* A part more; without memory for its elements it is lost.
LEMMA ListGrowsStep == ASSUME IInv, ListPushGrows PROVE IInv'
<1> DEFINE n == Len(list.parts)
           size == list.nalloc * ElemSize
           Part(q, e) == [node |-> q.at, elts |-> e.at, nelts |-> 1]
<1>1. /\ alive /\ list # NoList /\ list.parts[n].nelts = list.nalloc
      /\ UNCHANGED <<alive, user, array, opened, closed>>
  BY DEF ListPushGrows, LastPart
<1>2. PICK q \in ngx_palloc(pool, ListPart) :
         IF q.at = NULL
         THEN pool' = q.pool /\ UNCHANGED list
         ELSE \E e \in ngx_palloc(q.pool, size) :
                /\ pool' = e.pool
                /\ list' = IF e.at = NULL THEN list
                           ELSE [list EXCEPT !.parts = Append(@, Part(q, e))]
  BY DEF ListPushGrows
<1>3. /\ Good(CleanupSeq, Callers, pool) /\ TypeOK /\ FilesInv /\ ArraysInv /\ ListInv
  BY DEF IInv, ContentInv
<1>4. /\ list \in ListType /\ list.parts \in Seq(PartType) /\ n \in Nat
      /\ DOMAIN list.parts = 1 .. n /\ list.nalloc \in Nat \ {0}
  <2>1. list \in ListType
    BY <1>3 DEF TypeOK, ListType, PartType
  <2>2. list.parts \in Seq(PartType) /\ list.nalloc \in Nat
    BY <2>1 DEF ListType
  <2>3. list.nalloc # 0
    BY <1>1, <1>3 DEF ListInv
  <2> QED BY <2>1, <2>2, <2>3
<1>0. size \in Nat \ {0} /\ ListPart \in Nat \ {0}
  BY <1>4, CallerAssumption, TimesIsPositive DEF ListPart
<1>5. /\ Good(CleanupSeq, Callers, q.pool) /\ q.pool.cleanup = pool.cleanup
      /\ q.at # NULL =>
            \A e \in ngx_palloc(q.pool, size) :
               /\ Good(CleanupSeq, Callers, e.pool) /\ e.pool.cleanup = pool.cleanup
               /\ e.at # NULL =>
                    /\ q.at \in Regions /\ e.at \in Regions /\ e.at.to = e.at.from + size
                    /\ Good(CleanupSeq, Callers \cup {Owned("node", n + 1, q.at),
                                                      Owned("part", n + 1, e.at)}, e.pool)
  <2> HIDE DEF size
  <2> QED
    BY <1>0, <1>2, <1>3, PairGiven
<1>6. CASE q.at = NULL
  <2>1. pool' = q.pool /\ UNCHANGED list
    BY <1>2, <1>6
  <2> QED
    BY <1>1, <1>5, <2>1, Unkept
<1>7. CASE q.at # NULL
  <2>1. PICK e \in ngx_palloc(q.pool, size) :
                /\ pool' = e.pool
                /\ list' = IF e.at = NULL THEN list
                           ELSE [list EXCEPT !.parts = Append(@, Part(q, e))]
    BY <1>2, <1>7
  <2> DEFINE G == Callers \cup {Owned("node", n + 1, q.at), Owned("part", n + 1, e.at)}
  <2>2. /\ Good(CleanupSeq, Callers, e.pool) /\ e.pool.cleanup = pool.cleanup
        /\ e.at # NULL => /\ q.at \in Regions /\ e.at \in Regions /\ e.at.to = e.at.from + size
                          /\ Good(CleanupSeq, G, e.pool)
    BY <1>5, <1>7, <2>1
  <2>3. CASE e.at = NULL
    <3>1. pool' = e.pool /\ UNCHANGED list
      BY <2>1, <2>3
    <3> QED
      BY <1>1, <2>2, <3>1, Unkept
  <2>4. CASE e.at # NULL
    <3> DEFINE part == Part(q, e)
               parts == Append(list.parts, part)
    <3>1. list' = [list EXCEPT !.parts = parts] /\ pool' = e.pool
      BY <2>1, <2>4
    <3>2. /\ part \in PartType /\ part.elts = e.at /\ part.node = q.at /\ part.nelts = 1
      BY <2>2, <2>4 DEF PartType
    <3> HIDE DEF part
    <3>3. /\ parts \in Seq(PartType) /\ Len(parts) = n + 1 /\ DOMAIN parts = 1 .. n + 1
          /\ parts[n + 1] = part /\ \A k \in 1 .. n : parts[k] = list.parts[k]
      BY <1>4, <3>2
    <3> HIDE DEF parts
    <3>4. /\ list'.parts = parts /\ list'.nalloc = list.nalloc /\ list'.hdr = list.hdr
          /\ list' \in ListType
      BY <1>4, <3>1, <3>3 DEF ListType
    <3>5. ListInv'
      <4>1. ASSUME NEW k \in 1 .. n + 1
            PROVE  /\ parts[k].nelts <= list.nalloc
                   /\ k < n + 1 => parts[k].nelts = list.nalloc
                   /\ parts[k].elts.to = parts[k].elts.from + size
        <5>1. CASE k = n + 1
          BY <1>4, <2>2, <2>4, <3>2, <3>3, <5>1
        <5>2. CASE k # n + 1
          <6>1. k \in 1 .. n /\ k \in DOMAIN list.parts /\ (k < n \/ k = n)
            BY <1>4, <5>2
          <6>2. /\ list.parts[k].nelts <= list.nalloc
                /\ k < n => list.parts[k].nelts = list.nalloc
                /\ list.parts[k].elts.to = list.parts[k].elts.from + size
            BY <1>3, <6>1 DEF ListInv
          <6> QED BY <1>1, <3>3, <6>1, <6>2
        <5> QED BY <5>1, <5>2
      <4>2. parts # <<>> /\ list.nalloc # 0
        BY <1>4, <3>3
      <4> QED
        BY <3>3, <3>4, <4>1, <4>2 DEF ListInv
    <3>6. ListMemory' \subseteq ListMemory \cup {Owned("node", n + 1, q.at), Owned("part", n + 1, e.at)}
      <4>1. \A k \in 1 .. n + 1 : k # n + 1 => k \in 1 .. n /\ parts[k] = list.parts[k]
        BY <1>4, <3>3
      <4>2. \A k \in 2 .. n + 1 : k # n + 1 => k \in 2 .. n
        BY <1>4
      <4>3. \A k \in 2 .. n + 1 : k \in 1 .. n + 1
        BY <1>4
      <4>4. list' # NoList
        BY <1>4, <3>4 DEF NoList
      <4>5. ListMemory' = {Owned("list", 0, list.hdr)}
                          \cup {Owned("part", k, parts[k].elts) : k \in 1 .. n + 1}
                          \cup {Owned("node", k, parts[k].node) : k \in 2 .. n + 1}
        BY <3>3, <3>4, <4>4 DEF ListMemory
      <4>6. ListMemory = {Owned("list", 0, list.hdr)}
                         \cup {Owned("part", k, list.parts[k].elts) : k \in 1 .. n}
                         \cup {Owned("node", k, list.parts[k].node) : k \in 2 .. n}
        BY <1>1, <1>4 DEF ListMemory
      <4> HIDE DEF n
      <4>7. ASSUME NEW k \in 1 .. n + 1
            PROVE  Owned("part", k, parts[k].elts) \in ListMemory \cup {Owned("part", n + 1, e.at)}
        BY <3>2, <3>3, <4>1, <4>6
      <4>8. ASSUME NEW k \in 2 .. n + 1
            PROVE  Owned("node", k, parts[k].node) \in ListMemory \cup {Owned("node", n + 1, q.at)}
        BY <3>2, <3>3, <4>1, <4>2, <4>3, <4>6
      <4> QED
        BY <4>5, <4>6, <4>7, <4>8
    <3>7. /\ Cleanups' = Cleanups /\ Users' = Users /\ ArrayMemory' = ArrayMemory
          /\ FilesInv' /\ ArraysInv'
      BY <1>1, <1>3, <2>2, <3>1, CleanupsKept, UsersKept, ArraysKept, FilesKept
    <3>8. Callers' \subseteq G
      BY <3>6, <3>7 DEF Callers
    <3>9. Good(CleanupSeq, Callers', pool')
      <4> HIDE DEF G
      <4> QED BY <2>2, <2>4, <3>1, <3>8, GoodSubset
    <3>10. TypeOK'
      BY <1>1, <1>3, <3>4, <3>9, GoodIsTyped DEF TypeOK, ListType, PartType
    <3> QED
      BY <1>1, <3>5, <3>7, <3>9, <3>10 DEF IInv, ContentInv, NothingWithoutPool
  <2> QED BY <2>3, <2>4
<1> QED
  BY <1>6, <1>7

-----------------------------------------------------------------------------
(* The invariant and what it says.                                         *)

LEMMA StutterStep == ASSUME IInv, UNCHANGED vars PROVE IInv'
<1>1. TypeOK /\ FilesInv /\ ArraysInv /\ ListInv /\ Good(CleanupSeq, Callers, pool)
  BY DEF IInv, ContentInv
<1>2. /\ Cleanups' = Cleanups /\ Users' = Users /\ ArrayMemory' = ArrayMemory
      /\ ListMemory' = ListMemory /\ FilesInv' /\ ArraysInv' /\ ListInv'
  BY <1>1, CleanupsKept, UsersKept, ArraysKept, ListKept, FilesKept DEF vars
<1>3. Callers' = Callers
  BY <1>2 DEF Callers
<1>4. TypeOK'
  BY <1>1 DEF TypeOK, vars
<1> QED
  BY <1>1, <1>2, <1>3, <1>4 DEF IInv, ContentInv, NothingWithoutPool, vars

LEMMA NextInv == ASSUME IInv, [Next]_vars PROVE IInv'
<1>1. CASE Create
  BY <1>1, CreateStep
<1>2. CASE Reset
  BY <1>2, ResetStep
<1>3. CASE ngx_destroy_pool
  BY <1>3, DestroyStep
<1>4. ASSUME NEW h \in Handles, NEW size \in Sizes,
             Pcalloc(h, size) \/ Pnalloc(h, size) \/ Pmemalign(h, size)
      PROVE  IInv'
  <2>1. size \in Nat \ {0}
    BY CallerAssumption
  <2> DEFINE A == ngx_pcalloc(pool, size)
             B == ngx_pnalloc(pool, size)
             D == ngx_pmemalign(pool, size)
  <2>2. Give(h, A) \/ Give(h, B) \/ Give(h, D)
    BY <1>4 DEF Pcalloc, Pnalloc, Pmemalign
  <2>3. A \subseteq A \cup B \cup D /\ B \subseteq A \cup B \cup D /\ D \subseteq A \cup B \cup D
    OBVIOUS
  <2> QED
    BY <2>1, <2>2, <2>3, GiveStep
<1>5. ASSUME NEW h \in Handles, ngx_pfree(h) PROVE IInv'
  BY <1>5, FreeStep
<1>6. ASSUME NEW f \in Fds,
             \/ ngx_pool_cleanup_add(f, "ngx_pool_cleanup_file", 16)
             \/ ngx_pool_cleanup_add(f, "ngx_pool_delete_file", 16)
             \/ ngx_pool_cleanup_add(f, "none", 0)
      PROVE  IInv'
  BY <1>6, RegisterStep
<1>7. ASSUME NEW f \in Fds, ngx_pool_run_cleanup_file(f) PROVE IInv'
  BY <1>7, RunStep
<1>8. ASSUME NEW a \in Arrays, NEW n \in Counts, ngx_array_create(a, n) PROVE IInv'
  BY <1>8, ArrayCreateStep
<1>9. ASSUME NEW a \in Arrays, NEW n \in Counts, ngx_array_push_n(a, n) PROVE IInv'
  BY <1>9, ArrayPushNStep
<1>10. ASSUME NEW a \in Arrays, ngx_array_push(a) PROVE IInv'
  BY <1>10, ArrayPushStep
<1>11. ASSUME NEW a \in Arrays, ngx_array_destroy(a) PROVE IInv'
  BY <1>11, ArrayDestroyStep
<1>12. ASSUME NEW n \in Counts, ngx_list_create(n) PROVE IInv'
  BY <1>12, ListCreateStep
<1>13. CASE ListPushFits
  BY <1>13, ListFitsStep
<1>14. CASE ListPushGrows
  BY <1>14, ListGrowsStep
<1>15. CASE UNCHANGED vars
  BY <1>15, StutterStep
<1> QED
  BY <1>1, <1>2, <1>3, <1>4, <1>5, <1>6, <1>7, <1>8, <1>9, <1>10, <1>11, <1>12, <1>13,
     <1>14, <1>15 DEF Next

\* The invariant is inductive.
LEMMA PoolInvariant == Spec => []IInv
<1>1. Init => IInv
  BY InitInv
<1>2. IInv /\ [Next]_vars => IInv'
  BY NextInv
<1> QED
  BY <1>1, <1>2, PTL DEF Spec

\* Exactly one node of the large list holds the piece in which r lies.
LEMMA OneNodeFrees ==
    ASSUME NEW p, Usable(CleanupSeq, p), NEW r, InPlace(r, p), ~(r.blk > 0)
    PROVE  Cardinality({k \in DOMAIN p.large : p.large[k].alloc = r.blk}) = 1
<1> DEFINE S == {k \in DOMAIN p.large : p.large[k].alloc = r.blk}
<1>1. PICK k \in DOMAIN p.large : p.large[k].alloc = r.blk
  BY DEF InPlace
<1>2. \A j \in S : j = k
  BY <1>1 DEF Usable, HeldOnce, InPlace
<1>3. S = {k}
  BY <1>1, <1>2
<1> QED
  BY <1>3, FS_Singleton

LEMMA HeldIsPlaced == IInv => WellPlaced
<1> SUFFICES ASSUME IInv, NEW u \in Held
             PROVE  /\ u.owner[1] # "user" => u.at.from % NGX_ALIGNMENT = 0
                    /\ u.at.blk > 0 =>
                          /\ u.at.blk \in DOMAIN pool.blocks
                          /\ u.at.from >= (IF u.at.blk = 1 THEN PoolHeader ELSE DataHeader)
                          /\ u.at.to <= pool.blocks[u.at.blk].last
                          /\ pool.blocks[u.at.blk].last <= BlockSize
                    /\ ~(u.at.blk > 0) =>
                          Cardinality({k \in DOMAIN pool.large : pool.large[k].alloc = u.at.blk}) = 1
  BY DEF WellPlaced
<1>1. Usable(CleanupSeq, pool) /\ Tidy(Held, pool)
  BY DEF IInv, Good, Held
<1>2. InPlace(u.at, pool) /\ (u.owner[1] # "user" => u.at.from % NGX_ALIGNMENT = 0)
  BY <1>1 DEF Tidy
<1>3. CASE u.at.blk > 0
  <2>1. u.at.blk \in DOMAIN pool.blocks /\ Base(u.at.blk) <= u.at.from
        /\ u.at.to <= pool.blocks[u.at.blk].last
    BY <1>2, <1>3 DEF InPlace
  <2>2. pool.blocks[u.at.blk].last <= BlockSize
    BY <1>1, <2>1 DEF Usable, Marks
  <2>3. u.at.from >= (IF u.at.blk = 1 THEN PoolHeader ELSE DataHeader)
    BY <2>1 DEF Base
  <2> QED
    BY <1>2, <1>3, <2>1, <2>2, <2>3
<1>4. CASE ~(u.at.blk > 0)
  BY <1>1, <1>2, <1>4, OneNodeFrees
<1> QED
  BY <1>3, <1>4

LEMMA FilesCounted == IInv => FilesClosedOnce
<1> SUFFICES ASSUME IInv, NEW f \in Fds
             PROVE  opened[f] = closed[f] + (IF alive THEN Cardinality(Closes(f)) ELSE 0)
  BY DEF FilesClosedOnce
<1>1. FilesInv
  BY DEF IInv, ContentInv
<1>2. Cardinality(Closes(f)) = IF Closes(f) = {} THEN 0 ELSE 1
  BY <1>1, HandlersCounted
<1> QED
  BY <1>1, <1>2 DEF FilesInv

\* The variables have their types: the lists of the pool are lists of blocks,
\* nodes and cleanups, and current is always one of its blocks, also after a
\* reset and after a new block that could not be had.
THEOREM PoolTypes == Spec => []TypeOK
BY PoolInvariant, PTL DEF IInv

\* For every block size, any callers, arrays and sizes, and wherever calloc
\* fails, ngx_palloc, ngx_array_push and the others hand out memory nobody else
\* holds, and what they give back is nobody's.
THEOREM MemoryIsNotShared == Spec => []NoOverlap
<1>1. IInv => NoOverlap
  BY DEF IInv, Good, Tidy, NoOverlap, Held
<1> QED
  BY <1>1, PoolInvariant, PTL

\* For every block size all that is held lies behind the header and below the
\* mark of its block, or in a piece one node of the large list will free, and
\* what holds pointers is aligned.
THEOREM MemoryIsInPlace == Spec => []WellPlaced
BY HeldIsPlaced, PoolInvariant, PTL

\* For every FailLimit ngx_palloc_block leaves behind just the blocks at the
\* head of the list that have failed too often.
THEOREM NoBlockIsSkippedEarly == Spec => []SkippedWereFull
<1>1. IInv => SkippedWereFull
  BY DEF IInv, Good, Usable, Skips, SkippedWereFull
<1> QED
  BY <1>1, PoolInvariant, PTL

\* However often a descriptor is registered, closed early or left to
\* ngx_destroy_pool, it is closed once for every registration.
THEOREM FilesAreClosedOnce == Spec => []FilesClosedOnce
BY FilesCounted, PoolInvariant, PTL

\* For every size of an element, an array and each part of a list have memory
\* for all elements they count, wherever and however they have grown.
THEOREM ElementsStayInside == Spec => []ElementsHaveRoom
<1>1. IInv => ElementsHaveRoom
  BY DEF IInv, ContentInv, ArraysInv, ArrayFits, ListInv, ElementsHaveRoom
<1> QED
  BY <1>1, PoolInvariant, PTL
=============================================================================
