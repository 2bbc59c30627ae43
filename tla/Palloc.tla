------------------------------- MODULE Palloc -------------------------------
(***************************************************************************)
(* The allocator of ngx/ngx_palloc.c as functions on a pool.               *)
(*                                                                         *)
(* An address is a block and an offset in it: blocks 1, 2, ... of the pool *)
(* are the list that starts with pool itself, negative numbers are pieces  *)
(* of memory calloc returned to ngx_palloc_large.  calloc aligns to 16, so *)
(* the alignment of an address is that of its offset.  Each function       *)
(* returns the set of its possible results, because calloc may fail.       *)
(***************************************************************************)
EXTENDS Integers, Sequences

CONSTANTS
    BlockSize,  \* the size given to ngx_create_pool
    FailLimit,  \* 4 in ngx_palloc_block
    ScanLimit,  \* 3 in ngx_palloc_large
    MaxBlocks,  \* bound: calloc of another block fails
    MaxChunks,  \* bound: calloc of another large piece fails
    MaxNodes    \* bound: another node of the large list cannot be made

\* sizeof on a 64-bit machine.
NGX_ALIGNMENT == 8
PoolHeader    == 64
DataHeader    == 32
LargeNode     == 16
CleanupNode   == 24

\* NGX_MIN_POOL_SIZE is 96.  A size that is no multiple of the alignment lets
\* ngx_palloc_small align past the end of the block; the debugger uses 4096.
ASSUME BlockAssumption == /\ BlockSize \in Nat /\ BlockSize >= 96
                          /\ BlockSize % NGX_ALIGNMENT = 0
ASSUME LimitAssumption == FailLimit \in Nat /\ ScanLimit \in Nat
ASSUME PoolBoundAssumption == MaxBlocks \in Nat \ {0} /\ MaxChunks \in Nat
                              /\ MaxNodes \in Nat

ngx_align_ptr(m) == ((m + NGX_ALIGNMENT - 1) \div NGX_ALIGNMENT) * NGX_ALIGNMENT

\* pool->max
PoolMax == IF BlockSize - PoolHeader < 4095 THEN BlockSize - PoolHeader ELSE 4095

Region(b, m, size) == [blk |-> b, from |-> m, to |-> m + size]
Longer(r, size) == [r EXCEPT !.to = @ + size]
NULL == [blk |-> 0, from |-> 0, to |-> 0]
Regions == [blk : Int, from : Nat, to : Nat]
Apart(r, s) == r.blk # s.blk \/ r.to <= s.from \/ s.to <= r.from

Blocks == [last : Nat, failed : Nat]

Result(p, at) == [pool |-> p, at |-> at]
Failed(p) == Result(p, NULL)

\* What ngx_create_pool fills in.
ngx_create_pool ==
    [blocks |-> <<[last |-> PoolHeader, failed |-> 0]>>,
     current |-> 1, large |-> <<>>, cleanup |-> <<>>]

\* The least of a non-empty set of numbers.
First(S) == CHOOSE i \in S : \A j \in S : i <= j

\* Where block b would put an allocation, and whether it fits; the difference
\* of the pointers is unsigned, so past the end everything fits.
Mark(b, align) == IF align THEN ngx_align_ptr(b.last) ELSE b.last
\* Fault: what alignment skips is not subtracted.
RoomUnaligned(b, size, align) == BlockSize - b.last >= size

Room(b, size, align) == \/ Mark(b, align) > BlockSize
                        \/ BlockSize - Mark(b, align) >= size

\* Fault: a block is left behind one new block too early.
BlockSkipsEarly(p, size) ==
    LET n == Len(p.blocks)
        m == ngx_align_ptr(DataHeader)
        passed == p.current .. n - 1
        full == {i \in passed : p.blocks[i].failed >= FailLimit}
        counted == [i \in 1 .. n |-> IF i \in passed
                                     THEN [p.blocks[i] EXCEPT !.failed = @ + 1]
                                     ELSE p.blocks[i]]
    IN  IF n = MaxBlocks THEN {Failed(p)}
        ELSE {Result([p EXCEPT !.blocks = Append(counted, [last |-> m + size, failed |-> 0]),
                               !.current = IF full = {} THEN @ ELSE @ + 1],
                     Region(n + 1, m, size))}

\* A new block at the end of the list; blocks that have been passed over too
\* often are not looked at again.
ngx_palloc_block(p, size) ==
    LET n == Len(p.blocks)
        m == ngx_align_ptr(DataHeader)
        passed == p.current .. n - 1
        full == {i \in passed : p.blocks[i].failed > FailLimit}
        counted == [i \in 1 .. n |-> IF i \in passed
                                     THEN [p.blocks[i] EXCEPT !.failed = @ + 1]
                                     ELSE p.blocks[i]]
        made == Result([p EXCEPT !.blocks = Append(counted, [last |-> m + size, failed |-> 0]),
                                 !.current = IF full = {} THEN @
                                             ELSE 1 + CHOOSE i \in full : \A j \in full : j <= i],
                       Region(n + 1, m, size))
    IN  {Failed(p)} \cup IF n < MaxBlocks THEN {made} ELSE {}

\* Fault: what alignment skips is not added to the mark.
SmallUnmoved(p, size, align) ==
    LET fit == {i \in p.current .. Len(p.blocks) : Room(p.blocks[i], size, align)}
        i == First(fit)
        m == Mark(p.blocks[i], align)
    IN  IF fit = {}
        THEN ngx_palloc_block(p, size)
        ELSE {Result([p EXCEPT !.blocks[i].last = p.blocks[i].last + size],
                     Region(i, m, size))}

\* The first block from current on that has room, else a new one.
ngx_palloc_small(p, size, align) ==
    LET fit == {i \in p.current .. Len(p.blocks) : Room(p.blocks[i], size, align)}
        i == First(fit)
        m == Mark(p.blocks[i], align)
    IN  IF fit = {}
        THEN ngx_palloc_block(p, size)
        ELSE {Result([p EXCEPT !.blocks[i].last = m + size], Region(i, m, size))}

\* Pieces calloc may return: not those some node of the large list holds.
Chunks == {-k : k \in 1 .. MaxChunks}
Nodes  == [at : Regions, alloc : Chunks \cup {0}]
FreeChunks(p) == Chunks \ {p.large[k].alloc : k \in DOMAIN p.large}

\* A piece of memory with its owner, the nodes of the large list among them;
\* lists grow at their head, so their nodes are numbered from the end.
Owned(kind, i, r) == [owner |-> <<kind, i>>, at |-> r]
LargeNodes(p) == {Owned("large", Len(p.large) - k, p.large[k].at) : k \in DOMAIN p.large}

\* A new node at the head of the large list, itself allocated from the pool.
LinkLarge(p, chunk, size) ==
    {IF r.at = NULL THEN Failed(r.pool)
     ELSE Result([r.pool EXCEPT !.large = <<[at |-> r.at, alloc |-> chunk]>> \o @],
                 Region(chunk, 0, size))
        : r \in IF Len(p.large) < MaxNodes THEN ngx_palloc_small(p, LargeNode, TRUE)
                ELSE {Failed(p)}}

\* alloc is 0 in a node whose piece has been freed.  n++ > 3 lets the search
\* look at five nodes.
Reusable(p) == {k \in DOMAIN p.large : k <= ScanLimit + 2 /\ p.large[k].alloc = 0}

ngx_palloc_large(p, size) ==
    {Failed(p)} \cup
    UNION {IF Reusable(p) = {} THEN LinkLarge(p, chunk, size)
           ELSE {Result([p EXCEPT !.large[First(Reusable(p))].alloc = chunk],
                        Region(chunk, 0, size))} : chunk \in FreeChunks(p)}

ngx_palloc(p, size) ==
    IF size <= PoolMax THEN ngx_palloc_small(p, size, TRUE) ELSE ngx_palloc_large(p, size)

ngx_pnalloc(p, size) ==
    IF size <= PoolMax THEN ngx_palloc_small(p, size, FALSE) ELSE ngx_palloc_large(p, size)

\* memset stays inside what ngx_palloc returned.
ngx_pcalloc(p, size) == ngx_palloc(p, size)

\* The alignment asked for is not used.
ngx_pmemalign(p, size) ==
    {Failed(p)} \cup UNION {LinkLarge(p, chunk, size) : chunk \in FreeChunks(p)}

\* Fault: only the first block is kept, and current not set back to it.
ResetOneBlock(p) ==
    [p EXCEPT !.blocks = <<[last |-> PoolHeader, failed |-> 0]>>, !.large = <<>>]

\* Cleanup nodes and cleanup data stay in the list although their memory is
\* handed out again.
ngx_reset_pool(p) ==
    [p EXCEPT !.blocks = [i \in DOMAIN @ |-> [last |-> PoolHeader, failed |-> 0]],
              !.current = 1, !.large = <<>>]
=============================================================================
