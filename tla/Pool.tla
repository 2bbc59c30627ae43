-------------------------------- MODULE Pool --------------------------------
(***************************************************************************)
(* A pool and those who allocate from it: callers that ask for memory,     *)
(* files to be closed with the pool, arrays (ngx/ngx_array.c) and a list   *)
(* (ngx/ngx_list.c).                                                       *)
(***************************************************************************)
EXTENDS Palloc, FiniteSets

CONSTANTS
    Handles,      \* variables in which callers keep what they were given
    Sizes,        \* sizes they ask for
    Fds,          \* file descriptors registered for cleanup
    Arrays,       \* arrays that share the pool
    ElemSize,     \* size of an element of an array or of the list
    Counts,       \* numbers of elements given to create and push_n
    MaxElems,     \* bound: elements in one array or list
    MaxFiles,     \* bound: registrations of one descriptor
    MaxBare       \* bound: cleanups without data in one pool

ASSUME CallerAssumption == /\ Sizes \subseteq Nat \ {0}
                           /\ ElemSize \in Nat \ {0} /\ Counts \subseteq Nat \ {0}

VARIABLES
    alive,   \* the pool exists
    pool,    \* ngx_pool_t, its blocks and lists
    user,    \* what each handle holds, or NULL
    array,   \* ngx_array_t of each array, or NoArray
    list,    \* ngx_list_t, or NoList
    opened, closed  \* registrations and closings of each descriptor

vars == <<alive, pool, user, array, list, opened, closed>>

ArrayHeader == 40
ListHeader  == 56
ListPart    == 24

NoArray == [hdr |-> NULL, elts |-> NULL, nelts |-> 0, nalloc |-> 0]
NoList  == [hdr |-> NULL, parts |-> <<>>, nalloc |-> 0]

NothingHeld == /\ user' = [h \in Handles |-> NULL]
               /\ array' = [a \in Arrays |-> NoArray]
               /\ list' = NoList

Init == /\ alive = FALSE
        /\ pool = ngx_create_pool
        /\ user = [h \in Handles |-> NULL]
        /\ array = [a \in Arrays |-> NoArray]
        /\ list = NoList
        /\ opened = [f \in Fds |-> 0] /\ closed = [f \in Fds |-> 0]

-----------------------------------------------------------------------------
(* The pool.                                                               *)

Create == /\ ~alive
          /\ alive' = TRUE
          /\ pool' = ngx_create_pool
          /\ UNCHANGED <<user, array, list, opened, closed>>

\* h takes the result of an allocation, NULL included.
Give(h, results) ==
    /\ alive /\ user[h] = NULL
    /\ \E r \in results : pool' = r.pool /\ user' = [user EXCEPT ![h] = r.at]
    /\ UNCHANGED <<alive, array, list, opened, closed>>

Pcalloc(h, size) == Give(h, ngx_pcalloc(pool, size))
Pnalloc(h, size) == Give(h, ngx_pnalloc(pool, size))
Pmemalign(h, size) == Give(h, ngx_pmemalign(pool, size))

\* The first node that holds the piece is emptied; for memory of a block
\* nothing is done (NGX_DECLINED).
ngx_pfree(h) ==
    /\ alive /\ user[h].blk < 0
    /\ LET holding == {k \in DOMAIN pool.large : pool.large[k].alloc = user[h].blk}
       IN  /\ holding # {}
           /\ pool' = [pool EXCEPT !.large[First(holding)].alloc = 0]
    /\ user' = [user EXCEPT ![h] = NULL]
    /\ UNCHANGED <<alive, array, list, opened, closed>>

\* Data of a cleanup: for size 0 none is asked for, and data is NULL.
CleanupData(p, size) == IF size = 0 THEN {Result(p, NULL)} ELSE ngx_palloc(p, size)

WithData == {k \in DOMAIN pool.cleanup : pool.cleanup[k].data # NULL}

\* ngx_pool_cleanup_add and the handler the caller then sets: with data, one that
\* closes the open descriptor f; without, one that closes none, and f means
\* nothing.  The node is lost when there is no memory for data.
ngx_pool_cleanup_add(f, handler, size) ==
    /\ alive
    /\ IF size = 0 THEN Len(pool.cleanup) - Cardinality(WithData) < MaxBare
       ELSE opened[f] = closed[f] /\ opened[f] < MaxFiles
    /\ \E c \in ngx_palloc(pool, CleanupNode) :
         IF c.at = NULL
         THEN pool' = c.pool /\ UNCHANGED opened
         ELSE \E d \in CleanupData(c.pool, size) :
                IF size # 0 /\ d.at = NULL
                THEN pool' = d.pool /\ UNCHANGED opened
                ELSE /\ pool' = [d.pool EXCEPT !.cleanup =
                            <<[at |-> c.at, data |-> d.at, handler |-> handler, fd |-> f]>> \o @]
                     /\ opened' = IF size = 0 THEN opened ELSE [opened EXCEPT ![f] = @ + 1]
    /\ UNCHANGED <<alive, user, array, list, closed>>

Closes(f) == {k \in DOMAIN pool.cleanup :
                 pool.cleanup[k].handler # "none" /\ pool.cleanup[k].fd = f}
FilesOf(f) == {k \in DOMAIN pool.cleanup :
                 pool.cleanup[k].handler = "ngx_pool_cleanup_file" /\ pool.cleanup[k].fd = f}

\* Fault: the handler is left in the node.
RunAndKeep(f) ==
    /\ alive /\ FilesOf(f) # {}
    /\ closed' = [closed EXCEPT ![f] = @ + 1]
    /\ UNCHANGED <<alive, pool, user, array, list, opened>>

\* Only the first ngx_pool_cleanup_file of the descriptor runs.
ngx_pool_run_cleanup_file(f) ==
    /\ alive /\ FilesOf(f) # {}
    /\ pool' = [pool EXCEPT !.cleanup[First(FilesOf(f))].handler = "none"]
    /\ closed' = [closed EXCEPT ![f] = @ + 1]
    /\ UNCHANGED <<alive, user, array, list, opened>>

\* Nobody uses what they were given before a reset, and nobody resets a pool
\* with cleanups: their list would stay and its nodes be handed out again.
Reset == /\ alive /\ pool.cleanup = <<>>
         /\ pool' = ngx_reset_pool(pool)
         /\ NothingHeld
         /\ UNCHANGED <<alive, opened, closed>>

\* Every handler left runs; then all pieces and all blocks are freed.
ngx_destroy_pool ==
    /\ alive
    /\ alive' = FALSE
    /\ closed' = [f \in Fds |-> closed[f] + Cardinality(Closes(f))]
    /\ pool' = ngx_create_pool
    /\ NothingHeld
    /\ UNCHANGED opened

-----------------------------------------------------------------------------
(* Arrays.                                                                 *)

\* Without memory for elts the header is lost.
ngx_array_create(a, n) ==
    /\ alive /\ array[a] = NoArray
    /\ \E h \in ngx_palloc(pool, ArrayHeader) :
         IF h.at = NULL
         THEN pool' = h.pool /\ UNCHANGED array
         ELSE \E e \in ngx_palloc(h.pool, n * ElemSize) :
                /\ pool' = e.pool
                /\ array' = IF e.at = NULL THEN array
                            ELSE [array EXCEPT ![a] = [hdr |-> h.at, elts |-> e.at,
                                                       nelts |-> 0, nalloc |-> n]]
    /\ UNCHANGED <<alive, user, list, opened, closed>>

\* Fault: the end of elts is not compared with the mark.
EndsAnywhere(p, r) == r.blk = 1

\* r ends where the first block's mark is: only that block is looked at.
EndsAtMark(p, r) == r.blk = 1 /\ r.to = p.blocks[1].last

\* Fault: one element is added whatever is needed.
GrownByOne(a, need, nalloc) ==
    IF /\ EndsAtMark(pool, array[a].elts)
       /\ pool.blocks[1].last + ElemSize <= BlockSize
    THEN {[pool  |-> [pool EXCEPT !.blocks[1].last = @ + ElemSize],
           array |-> [array[a] EXCEPT !.elts = Longer(@, ElemSize), !.nalloc = @ + 1]]}
    ELSE {}

\* Room for need more elements: in place at the mark of the first block, or in
\* a new piece of double the size, to which the elements are copied.
Grown(a, need, nalloc) ==
    IF /\ EndsAtMark(pool, array[a].elts)
       /\ pool.blocks[1].last + need * ElemSize <= BlockSize
    THEN {[pool  |-> [pool EXCEPT !.blocks[1].last = @ + need * ElemSize],
           array |-> [array[a] EXCEPT !.elts = Longer(@, need * ElemSize),
                                      !.nalloc = @ + need]]}
    ELSE {[pool  |-> r.pool,
           array |-> IF r.at = NULL THEN NoArray
                     ELSE [array[a] EXCEPT !.elts = r.at, !.nalloc = nalloc]]
            : r \in ngx_palloc(pool, nalloc * ElemSize)}

\* n elements more; without memory nothing happens.
Push(a, n, results) ==
    /\ alive /\ array[a] # NoArray /\ array[a].nelts + n <= MaxElems
    /\ \E g \in results :
         /\ pool' = g.pool
         /\ array' = IF g.array = NoArray THEN array
                     ELSE [array EXCEPT ![a] = [g.array EXCEPT !.nelts = @ + n]]
    /\ UNCHANGED <<alive, user, list, opened, closed>>

AsItIs(a) == {[pool |-> pool, array |-> array[a]]}

ngx_array_push(a) ==
    Push(a, 1, IF array[a].nelts = array[a].nalloc
               THEN Grown(a, 1, 2 * array[a].nalloc) ELSE AsItIs(a))

\* In place the array grows by n although some room may be left.
ngx_array_push_n(a, n) ==
    Push(a, n, IF array[a].nelts + n > array[a].nalloc
               THEN Grown(a, n, 2 * (IF n >= array[a].nalloc THEN n ELSE array[a].nalloc))
               ELSE AsItIs(a))

\* What lies at the mark of the first block is given back, elts before the
\* header.
GiveBack(p, r) == IF EndsAtMark(p, r) THEN [p EXCEPT !.blocks[1].last = r.from] ELSE p

ngx_array_destroy(a) ==
    /\ alive /\ array[a] # NoArray
    /\ pool' = GiveBack(GiveBack(pool, array[a].elts), array[a].hdr)
    /\ array' = [array EXCEPT ![a] = NoArray]
    /\ UNCHANGED <<alive, user, list, opened, closed>>

-----------------------------------------------------------------------------
(* The list.  parts[1] is embedded in the header.                          *)

ngx_list_create(n) ==
    /\ alive /\ list = NoList
    /\ \E h \in ngx_palloc(pool, ListHeader) :
         IF h.at = NULL
         THEN pool' = h.pool /\ UNCHANGED list
         ELSE \E e \in ngx_palloc(h.pool, n * ElemSize) :
                /\ pool' = e.pool
                /\ list' = IF e.at = NULL THEN list
                           ELSE [hdr |-> h.at, nalloc |-> n,
                                 parts |-> <<[node |-> NULL, elts |-> e.at, nelts |-> 0]>>]
    /\ UNCHANGED <<alive, user, array, opened, closed>>

LastPart == list.parts[Len(list.parts)]

ListPushFits ==
    /\ alive /\ list # NoList /\ LastPart.nelts < list.nalloc
    /\ list' = [list EXCEPT !.parts[Len(list.parts)].nelts = @ + 1]
    /\ UNCHANGED <<alive, pool, user, array, opened, closed>>

\* Without memory for elts the new part is lost.
ListPushGrows ==
    /\ alive /\ list # NoList /\ LastPart.nelts = list.nalloc
    /\ Len(list.parts) * list.nalloc < MaxElems
    /\ \E q \in ngx_palloc(pool, ListPart) :
         IF q.at = NULL
         THEN pool' = q.pool /\ UNCHANGED list
         ELSE \E e \in ngx_palloc(q.pool, list.nalloc * ElemSize) :
                /\ pool' = e.pool
                /\ list' = IF e.at = NULL THEN list
                           ELSE [list EXCEPT !.parts = Append(@,
                                   [node |-> q.at, elts |-> e.at, nelts |-> 1])]
    /\ UNCHANGED <<alive, user, array, opened, closed>>

-----------------------------------------------------------------------------
Next ==
    \/ Create \/ Reset \/ ngx_destroy_pool
    \/ \E h \in Handles : \/ \E size \in Sizes : Pcalloc(h, size) \/ Pnalloc(h, size)
                                                 \/ Pmemalign(h, size)
                          \/ ngx_pfree(h)
    \/ \E f \in Fds : \/ ngx_pool_cleanup_add(f, "ngx_pool_cleanup_file", 16)
                      \/ ngx_pool_cleanup_add(f, "ngx_pool_delete_file", 16)
                      \/ ngx_pool_cleanup_add(f, "none", 0)
                      \/ ngx_pool_run_cleanup_file(f)
    \/ \E a \in Arrays : \/ \E n \in Counts : ngx_array_create(a, n) \/ ngx_array_push_n(a, n)
                         \/ ngx_array_push(a) \/ ngx_array_destroy(a)
    \/ \E n \in Counts : ngx_list_create(n)
    \/ ListPushFits \/ ListPushGrows

Spec == Init /\ [][Next]_vars

-----------------------------------------------------------------------------
(* What is held, with its owner.                                           *)

Cleanups ==
    LET n == Len(pool.cleanup)
    IN  {Owned("cleanup", n - k, pool.cleanup[k].at) : k \in DOMAIN pool.cleanup}
        \cup {Owned("data", n - k, pool.cleanup[k].data) : k \in WithData}
Users == {Owned("user", h, user[h]) : h \in {i \in Handles : user[i] # NULL}}
ArrayMemory ==
    LET made == {a \in Arrays : array[a] # NoArray}
    IN  {Owned("array", a, array[a].hdr) : a \in made}
        \cup {Owned("elts", a, array[a].elts) : a \in made}
ListMemory ==
    IF list = NoList THEN {}
    ELSE {Owned("list", 0, list.hdr)}
         \cup {Owned("part", k, list.parts[k].elts) : k \in DOMAIN list.parts}
         \cup {Owned("node", k, list.parts[k].node) : k \in 2 .. Len(list.parts)}
Callers == Cleanups \cup Users \cup ArrayMemory \cup ListMemory
Held == Callers \cup LargeNodes(pool)

Cleanup == [at : Regions, data : Regions, fd : Fds,
            handler : {"none", "ngx_pool_cleanup_file", "ngx_pool_delete_file"}]

\* The type invariant.
TypeOK ==
    /\ alive \in BOOLEAN
    /\ pool \in [blocks : Seq(Blocks), current : Nat, large : Seq(Nodes), cleanup : Seq(Cleanup)]
    /\ pool.current \in DOMAIN pool.blocks
    /\ user \in [Handles -> Regions]
    /\ array \in [Arrays -> [hdr : Regions, elts : Regions, nelts : Nat, nalloc : Nat]]
    /\ list \in [hdr : Regions, nalloc : Nat,
                 parts : Seq([node : Regions, elts : Regions, nelts : Nat])]
    /\ opened \in [Fds -> Nat] /\ closed \in [Fds -> Nat]

\* Memory is handed out to one owner at a time: after any sequence of
\* allocations, failures, frees, growths in place, moves and returns of arrays
\* no two of the pieces somebody holds have a byte in common.
NoOverlap == \A u, v \in Held : u.owner # v.owner => Apart(u.at, v.at)

\* Everything held lies behind the header of its block, below the mark from
\* which the next allocation is made and inside the block, or is a piece that
\* exactly one node of the large list will free.  The pool's own nodes, headers
\* and elements hold pointers and are aligned, although ngx_pnalloc leaves the
\* mark anywhere.
WellPlaced ==
    \A u \in Held :
        /\ u.owner[1] # "user" => u.at.from % NGX_ALIGNMENT = 0
        /\ IF u.at.blk > 0
           THEN /\ u.at.blk \in DOMAIN pool.blocks
                /\ u.at.from >= (IF u.at.blk = 1 THEN PoolHeader ELSE DataHeader)
                /\ u.at.to <= pool.blocks[u.at.blk].last
                /\ pool.blocks[u.at.blk].last <= BlockSize
           ELSE Cardinality({k \in DOMAIN pool.large : pool.large[k].alloc = u.at.blk}) = 1

\* A block is left behind only after more than FailLimit + 1 new blocks had to
\* be made although it was there, and then every block before it is.
SkippedWereFull ==
    \A i \in DOMAIN pool.blocks :
        i < pool.current <=> pool.blocks[i].failed > FailLimit + 1

\* Every registered descriptor is closed once, by ngx_pool_run_cleanup_file or
\* with the pool, also when its number is registered again later.
FilesClosedOnce ==
    \A f \in Fds : opened[f] = closed[f] + (IF alive THEN Cardinality(Closes(f)) ELSE 0)

\* What push and push_n return lies in the array's own memory, and all parts
\* of a list but the last are full.
ElementsHaveRoom ==
    /\ \A a \in Arrays : LET r == array[a] IN
          /\ r.nelts <= r.nalloc
          /\ r.elts.to = r.elts.from + r.nalloc * ElemSize
    /\ \A k \in DOMAIN list.parts : LET q == list.parts[k] IN
          /\ q.nelts <= list.nalloc
          /\ k < Len(list.parts) => q.nelts = list.nalloc
          /\ q.elts.to = q.elts.from + list.nalloc * ElemSize
=============================================================================
