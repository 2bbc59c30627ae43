# Specifications of test_dbug

A ptrace debugger for x86-64 Linux (`main.c`, `command.c`, `dbug.c`, `mem.c`, `elf_parse.c`), the
C library it is built on (`ngx/`, an excerpt of nginx's core with Chinese comments) and a set of
small programs (`blog/`) from which the debugger grew. This directory holds TLA+ models of the
parts with state, the TLC configurations that check them, and TLAPS proofs.

## 1. Inventory

| Part | State | Operations | Talks to |
|---|---|---|---|
| Command line (`command.c`, `main.c`) | `dbug->cmd`, an array of words that is reused for every line | `get_command`, `play_command`, `cmd_set` | stdin; calls the commands with the array |
| Debugger core (`command.c`, `dbug.c`, `mem.c`) | `struct dbug_struct`: current pid, last wait status, registers, symbols, breakpoint table | `b`, `watch`, `c`, `showreg`, `dbug`, `attach`, `q`; inside them `insert_INT3_bp`, `resume_INT3_bp_next`, `find_current_SF_bp`, `read_pro_mem`, `write_pro_mem` | the kernel (ptrace, wait, kill, fork, exec) and through it the debugged processes |
| ELF symbols (`elf_parse.c`) | one table of names and addresses per launch | `open_funs`, `find_func`, `close_funs` | /proc, the executable; called by launch, attach and `b` |
| Pool (`ngx_palloc.c`) | list of blocks with marks, list of large pieces, list of cleanups | create, palloc, pnalloc, pcalloc, pmemalign, pfree, cleanup_add, run_cleanup_file, reset, destroy | malloc; used by arrays, lists, the command line |
| Array, list (`ngx_array.c`, `ngx_list.c`) | header and elements in pool memory | create, push, push_n, destroy | move the pool's mark directly |
| Shared-memory mutex (`ngx_shmtx.c`) | words `lock` and `wait`, a semaphore, in shared memory | trylock, lock, unlock, force_unlock, wakeup | other processes |
| Red-black tree (`ngx_rbtree.c`, the string tree of `ngx_string.c`) | root, links and colours in the owners' nodes, one shared sentinel | insert with three orders, delete, min, next, lookup of strings | their callers |
| Queue (`ngx_queue.c`, `ngx_queue.h`) | links in the owners' items and in heads | init, insert, remove, split, add, middle, sort | their callers |
| Strings (`ngx_string.c`) | none (pure) | numbers, hex, base64, UTF-8, escaping, comparing | their callers |
| Shared memory (`ngx_shmem.c`) | none of its own | mmap, munmap | |
| `blog/` programs | the pid, the byte lifted from the breakpoint, whether a system call is being entered or left | start or attach, plant a breakpoint, wait, handle the stop, resume | ptrace |

### What is hard

* **A hit is a protocol.** `c` waits, reads registers, searches the table, writes the original byte
  back, moves `rip`, single-steps, waits again and writes INT3 again. Between any two of these the
  process may get a signal, be killed, or land on another breakpoint.
* **`wait()` is for anybody.** `c`, the single step and the launch wait for *any* child, so with a
  launched and an attached process one takes the event of the other.
* **Errors are not noticed.** Most results of ptrace are dropped, and the test of PEEKTEXT for an
  error compares an unsigned number with 0. `status`, `regs` and the table outlive the process
  they were about. A kill is an event like any other to most of the code, which then works on old registers.
* **A child is traced before it is a program.** From PTRACE_TRACEME on a signal stops it, before exec or in the
  second debugger that a failing exec leaves behind; the first debugger takes that for the start of the program.
* **The array of words is never cleared**, and commands read elements without looking at `nelts`.
* **The mutex has a sleeping path.** A process counts itself in, tries once more and sleeps; the
  unlocking process reads the count, takes one off by compare-and-set and posts. Errors of the semaphore are logged only.
* **Arrays move the pool's mark** on pointer comparisons alone, while others allocate.
* **Linked structures are repaired by many mirrored cases** that only particular mixes of insertions
  and deletions reach, on nodes whose memory belongs to callers who use it again.
* **String functions are full of edges**: the last value that fits, a character cut off by the end, two
  passes that must agree on every byte, a machine that stops in the middle of its input.
* **The tracers of `blog/` tell stops apart by counting or not at all.**

### What makes each part correct

* Core: the bytes in memory match the table; a hit is rewound and re-armed; the debugger is
  transparent to the debugged program; commands return; a hit does not repeat for ever.
* Command line: words are split whole and in order; the function called is the one named, with
  what was typed.
* Mutex: mutual exclusion, only the holder unlocks, the count of sleepers and posts agree, no lost
  wakeup.
* Pool, array, list: nobody's memory overlaps, everything is inside its block and aligned,
  registered files are closed once, elements have room, the list of blocks is left behind in order.
* Tree: the colour and height rules, in-order walk in the order of the keys, equal keys by age, lookups
  that find what is there.
* Queue: the list a caller has in mind, read forwards and backwards; the middle; a stable sort.
* Strings: agreement with references that are told without loops.
* Tracers: the process runs as alone, every visit and every call is shown, every stop is answered.

`PROJECT.json` lists the hazards line by line, with the properties that cover each.

## 2. Modules

| Module | What it is |
|---|---|
| `Program` | Abstract specification: programs that execute along their control flow, with no debugger |
| `Debugger` | The core, the kernel's side of ptrace and wait, and the processes |
| `DebuggerProps` | Its properties, the refinement mapping to `Program`, the inductive invariants |
| `DebuggerMC` | A small image |
| `Debugger_proof` | Eleven theorems with proofs |
| `CommandLine`, `CommandLineProps`, `CommandLineMC`, `CommandLine_proof` | Reading, splitting and dispatching lines; two theorems |
| `Mutex` | Abstract specification of a lock |
| `Shmtx`, `ShmtxMC`, `Shmtx_proof` | The shared-memory mutex, four processes, six theorems |
| `Palloc` | The allocator as functions from a pool to its possible results |
| `Pool`, `PoolMC`, `Pool_proof` | The pool with its callers, cleanups, arrays and a list; what each result of `Palloc` is; six theorems |
| `SortedList` | Abstract specification: elements inserted into and removed from a sorted list |
| `Rbtree`, `RbtreeInsert_proof`, `RbtreeDelete_proof` | The red-black tree on the memory of its nodes; refines `SortedList`; two theorems |
| `Lists` | Abstract specification: sequences that are joined, cut and sorted |
| `Queue`, `Queue_proof` | The linked lists on the memory of their items and heads; refines `Lists`; two theorems |
| `LibraryMC` | A small tree and two small queues in one configuration |
| `Text`, `TextProps`, `TextMC` | The pure functions on strings; texts typed byte by byte and what is promised of each |
| `Tracers`, `TracersMC`, `Tracers_proof` | Six programs of `blog/` as one tracer with the program as a parameter; refines `Program`; three theorems |

Refinements (`INSTANCE ... WITH`, checked as properties): `Debugger` and `Tracers` implement `Program` with the
life of each process and the instruction it stands at, a hit that has not been rewound counting as one back;
`Shmtx` implements `Mutex` with the process between lock and unlock as `holder`; `Rbtree` implements `SortedList` with its
in-order walk; `Queue` implements `Lists` with the items from each head on.

Definitions whose comment begins with *Fault* are not part of a model: they are plausible mistakes
in the code, and `PROJECT.json` names for every checked property one that breaks it.

### Debugger

Kernel state, per process: `run` (life cycle), `image` (the debugger's own before exec and after one that failed, or the
program's), `event` (what `wait` has yet to report), `cause` (what stopped it), `rip`, `text` (the first byte of each instruction: the
program's own, INT3, or the 0xFF of a failed read), debug register 0, the resume flag and the single-step flag. Debugger
state: the fields of `struct dbug_struct`, `idx` (the entry that `resume_INT3_bp_next` and `insert_INT3_bp` work on), and `pc`, which
says in which blocking call, or between which two requests, it is.

Each request to ptrace and each `wait` that changes a process is an action, so that a kill, a signal to a running process or another child's event
may fall between any two. `command_continue` goes up to its `wait`; then comes
`ContinueSeesExit` or `ContinueSeesStop`, then `OtherStop` or `HitFound`, and for a hit `RestoreByte`, `SetRegs`, `StartStep`,
`StepWaitReturns`, `RearmInt3`. `command_break` saves a byte, `InsertInt3` writes INT3. Joined into one action are: PTRACE_GETREGS with the search of the
table; the PEEKTEXT and POKETEXT of one `write_pro_mem`, whose other bytes are kept and not modelled, so that a kill between the
two falls before or after; the writes of DR0 and DR7; and what `dbug_pro` and `attach_pro` do after `wait`, the reading of the symbols included.

A child runs the debugger's image until exec. Of that image one function with a symbol is told apart (`WildAddr`),
the rest is `OwnCode`. Any signal stops the child, and the launching `wait` then makes it current with the symbols of the debugger itself;
breakpoints can be set in its code, and a later exec replaces that code. The child of a failing `exec` returns from `dbug_pro` into the main
loop, a second debugger on the same terminal; of its commands those are modelled that reach
another process, call the function with the symbol or end it.

The kernel: a request on a process that is not stopped fails and changes nothing; `wait` takes any
pending event and fails without children; INT3 stops behind its byte; an execution breakpoint faults
in front of the instruction unless the resume flag is set; a process that runs into bytes that are not
an instruction faults or goes anywhere.

### CommandLine

Characters are a blank, a tab, a newline or a run of letters. `Split` follows the double loop of
`get_command`; the properties' reference has no loop: `Typed` is the set of the longest runs followed by a space, and the
array must hold the n-th of them where as many words precede it as runs. Two assumptions on the constants: a newline
only ends a line (`fgets` stops there), and the array has room for a word of each character of the buffer.
The array's elements stay when `nelts` is reset. What `dbug`, `attach`, `watch` and `b` take from the
array is recorded in `call`. The growth of the array is left to `Pool`, and what a command then
does is `Debugger`, whose arguments are any symbol, address or process; a word that is none of
these makes an insertion or launch fail there.

### Shmtx

One action per access to a shared word. `tries` counts the attempts of the spinning phase (the
pauses between them have no effect); a process killed by `Crash` stays where it is, holding what it
holds, and `ngx_shmtx_force_unlock` may be called with its pid. `sem_wait` fails in `AwakeAnyway` (the process leaves the inner loop as if it had been
posted) and `sem_post` in `PostFails` (the sleeper counted off gets none); `failed` counts both. The balance of counts and posts takes the failures into account; that somebody wakes is
said while no post has failed, since after one it is false.

### Palloc, Pool

An address is a block and an offset; the sizes of headers are those of a 64-bit build. As `malloc`
may fail at any call, each function returns the set of its results. `Pool` adds callers
that keep what they get, descriptors registered for cleanup (both handlers), cleanups without data, arrays and a list,
with all failure paths. The contents of elements are left out. Owners' cleanup and large nodes are named by
their place counted from the end of their list, which a new node at its front does not move. Callers are
assumed to behave: they do not use what they had before a reset, and free a large piece once. They reset only pools without cleanups: `ngx_reset_pool` keeps the list of cleanups but hands out the memory of its nodes
again, so that `ngx_destroy_pool` would walk what somebody else has written.

### Rbtree, SortedList

The variable is the tree's memory: root, links, keys and colours of all nodes and of the sentinel. A node has a left and a
right child as one function of the side, so that the two mirrored halves of insertion and deletion are one definition each
with the sides exchanged. `ngx_rbtree_delete` first splices a node out and then repairs on the way up, in the four cases
of the code: `WithBlackSibling`, `WithRedOuter` and `Balanced` are the three parts of a round (`Repaired`) that rotate. A deleted node's links are cleared as the code clears them, and its owner may insert it again at once. The three
orders (`value`, `timer`, where keys overflow, and `str`) are the insert functions of the code; `SortedList` compares
the times, values and strings that the keys stand for, and puts an equal element behind the older ones. Timers
that are alive together lie within half the range of a key (`HalfRange`), as the code's signed difference requires. The searches
along links are recursive functions over the nodes in the tree; the two loops that rebalance are functions over the number of rounds,
of which a climb takes no more than there are nodes (`Longest`).

### Queue, Lists

`links` holds `prev` and `next` of heads and items. The macros `ngx_queue_split` and `ngx_queue_add` are translated assignment by
assignment where one reads what another wrote. Items that are out of every list may be inserted again. A head that has been
added to another list is given away until it is initialised again. The loops are recursive functions over the number of steps:
`Along` is where each step along the links leads, for the walks of `ngx_queue_middle` and the search of `ngx_queue_sort`, whose
rounds carry the links and the next item. `Room` steps suffice for any list, as `Queue_proof` shows. A head stands for the items
read from it, if both directions agree, and otherwise for `NoList`.

### Text, TextProps

Pure functions from sequences of bytes. The loops that only run to the first difference or over every byte are
set and fold expressions; those that keep a state (numbers, unescaping, UTF-8) are folds or recursive functions of that state. The
specification types a text byte by byte over an alphabet of edges, per group of functions, and the invariants compare with
references: positional sums, encoding followed by decoding, reading a text unit by unit with lookahead, partition into characters, comparison by lists of parts. The limits of
numbers are parameters. There are two: `config.h:36-43` gives `NGX_MAX_INT_T_VALUE` the 32-bit value, so that `ngx_atoi`, `ngx_atofp` and
`ngx_hextoi` refuse numbers above 2147483647 although `ngx_int_t` has 64 bits, while `ngx_atosz`, `ngx_atoof` and `ngx_atotm` go up to
2^63 - 1, all that their types hold. The run has 47 and 247.

What the code admits is in the model and in the references: a quote `%` followed by a byte that is no digit is unescaped to that byte, and one with a
single digit is dropped together with the byte behind it, a `?` included, behind which unescaping then goes on; `ngx_sort` without memory leaves the array unsorted;
`ngx_utf8_decode` takes any byte from 0x80 on for a continuing one
and 0xF8 to 0xFF for leading ones like 0xF0 (not in the run's alphabet), and surrogates; the map `refresh` of `ngx_escape_uri` does not escape `%`,
although the comment above it lists it (`ngx_string.c:1511`), so that it is left out of the round trips.

### Tracers

The life cycle and the kernel's side are those of `Debugger`, for one process and with system-call stops; what a program
does is told by its breakpoint (`Uses`) and the steps named after its requests. A stop is handled in one action up to the next
`wait()`. The wait for a single step does not look at what it returned; a process that has been killed is noticed when it
cannot be resumed. Before that a tracer of system calls counts the registers it has read last (`regs`) as a stop of their own, and may print a line (`Leave`): a process killed inside `write` makes it print the call with -38 for a result, in a branch
marked as after the call (`blog/dbug.c:59`).

## 3. Runs

| Run | Question | Bounds |
|---|---|---|
| `session` | Everything promised of a session with one launched process, safety, refinement and liveness | 3 breakpoints or watches, 2 signals or kills, 98 000 states |
| `relaunch` | What still holds with a launched and an attached process, in any order of death | 2 breakpoints, 2 signals, 2.1 million states |
| `command_line` | Splitting and dispatching | all lines of up to 4 characters over two commands, and lines with tabs, other commands, cut by the buffer or by the end of input; 480 000 states |
| `shmtx` | The mutex among processes that may be killed | 4 processes, 1 crash, 1 failing `sem_wait` or `sem_post`, 1 million states |
| `pool` | Allocation, cleanups, frees, resets | 2 callers, 4 blocks, 2 large pieces, 2 registrations, 1 cleanup without data, 600 000 states |
| `containers` | An array and a list in one pool with a caller and a cleanup | 2 blocks, 3 elements, 175 000 states |
| `library` | The tree and the queues, in every sequence of operations | 7 nodes, 3 orders, 4 items, 2 heads, 150 000 states |
| `tracers` | Six programs of `blog/` on a process with a breakpoint in a loop and system calls | 2 signals, 4 800 states |
| `text` | The string functions | texts of 2 bytes over all, of 4 over 11 or 12 edges, pairs of names of 3 bytes over 7, 290 000 states |
| `junk_original` | Is the saved byte always code? | violated |
| `other_child` | Is the breakpoint back after a hit, with two processes? | violated |
| `stale_argv` | Does a program get only words of its own line? | violated |

Why the bounds are enough:

* The image has two functions, one whose first instruction is one byte long and one whose is two, in
  a loop with an exit, so that breakpoints are hit again, lie next to each other and are left behind.
  Three entries allow a duplicate `b`, a `watch` and a third; two signals interrupt a hit and what
  follows it.
* Two processes are the least with which `wait` can return the wrong one's event; a third would add
  no new kind of confusion, as the debugger knows one current process.
* The buffer of the command line is 6 instead of 50 characters so that lines longer than it exist.
* Four processes in the mutex are a holder, two that sleep and one that comes in between; one failing call shows what a single error does to the counts. One
  spinning attempt stands for any number: `tries` only decides when a process gives up.
* The pool's block size and limits are chosen so that a block holds two or three pieces, a block is
  left behind after the second failure (the code: the sixth), and the search for an empty node ends
  inside the list. `FailLimit` and `ScanLimit` are the code's 4 and 3, made parameters.
  Callers are interchangeable, so `pool` uses symmetry on them; its properties are invariants.
* Seven nodes make trees four levels high, in which all four cases of a deletion occur on either side and repeat on
  the way up; two nodes share a key, a time, a hash or a string, and the times run across an overflow of a key of four bits. Four
  items suffice for an empty, odd and even list, and for two equal items around others. Tree and queue share nothing:
  in `LibraryMC` each is used only while the other is untouched, so that the run is their sum and not their product.
* The two passes of the functions that escape and the round trips are compared on every byte and every pair of bytes, longer texts on the bytes that
  make quotes.
* The process of `tracers` passes the breakpoint again and again and makes a `write`, another call and a `write`.
* Four bytes hold a whole UTF-8 character of any length, a cut one and one with a neighbour, a base64 group and a
  rest, an escape and a byte behind it, a number past the largest; three bytes of a name hold parts before and behind a separator.

**Deadlock** is checked except where the system may really stop: in `relaunch`, `junk_original` and
`other_child` the debugger can wait for ever for a current process that is gone while another one is stopped and
has nothing to report (a hazard in its own right); in `shmtx` a killed holder leaves everybody asleep.
`Terminated` and `Ended` are the states in which the debugger has exited. In `tracers` and `text` the system ends: with the program, and
at the longest text.

**Fairness.** `session` assumes that the debugger's code runs on (`WF(Return)`), that processes
are scheduled, and, in `UserSpec`, that the user goes on typing `c`: without that no hit can
be followed by anything. Nothing is assumed of signals, kills, a failing exec's child or the other commands.
`shmtx` assumes that each process is scheduled and that a holder unlocks in the end; not that a
particular process gets the lock, which the code does not guarantee. `tracers` assumes that the tracer is scheduled and nothing
of the process.

### What the violations show

Each quotes a comment of the code in `PROJECT.json`.

1. `junk_original`: `b` on a dead process records 0xFF; a later launch executes it.
2. `other_child`: the single step's wait returns for another child and INT3 is not put back.
3. `stale_argv`: `dbug prog` after a longer line passes a word of that line to the program.

The properties of `session` need that no watch is on or right behind the first byte of a function that gets a breakpoint.
A watch right behind a one-byte instruction with a breakpoint stops with `rip - 1` in the table and is
taken for a hit: the instruction is executed twice (give `WatchAddrs` the value `{6}` to see `SoftwareTrapIsReal` fail). A watch on the
breakpoint's own address stops the single step before it executes anything, for ever (`{5}`, `HitMakesProgress`).

## 4. Proofs

`tlapm` checks thirty-two theorems; they hold for any image, symbols, addresses, number of breakpoints
and signals, any set of processes and pids, any lines, letters and buffer, any block size, callers and
limits, any finite set of items with any weights, any finite set of nodes with any keys, subject to the named assumptions. The bounds of section 3 limit the runs only.

**Debugger_proof.** The assumptions are those of `Debugger` (the image's addresses are naturals,
successors and symbols are instructions, a wild address is not).

* For any number of processes: `TypeCorrect`, `EveryInt3Known`, `NeverRestoresInt3`, `WaitIsAnswered`. The
  inductive invariant is `TableInv`: type correctness, every INT3 byte has an entry, the first entry for an
  address never holds an INT3, and between the requests of a hit or an insertion `idx` is an entry, for a hit the first of its address (`StepsOverEntry`). The
  last two are needed because `resume_INT3_bp_next` writes back what the first entry holds.
* For one process and no watch directly behind a symbol (`OneProcess`, `NoWatchBehindSymbol`; `other_child` and
  the end of section 3 show why): `ArmedAtThePrompt`, `CodeStaysIntact`, `RewoundAtThePrompt`, `HitsAreReal`,
  `StepsAreRearmed` (`ResumeRestores`: when the step's wait has returned for a living process, the INT3 it lifted is back)
  and `DebuggerIsTransparent`, the refinement of `Program`. The inductive invariant is `SessionInv` (`SessionInvariant`):
  `EventInv` (who can have something to report), `CurrentInv` (when the process is current, whose image it runs, and of which image the
  table and the symbols are: a child stopped before exec or in its own main loop is current with the debugger's), `ImageInv` (the bytes of a live process, with the one that is lifted or not
  yet written), `PlaceInv` (where it stands, in the program or in the debugger's code, and what each stop will be taken for). `ImageInv` needs
  `PlaceInv`, since a byte is only lifted for a real hit, and `PlaceInv` needs `ImageInv`, since only listed
  addresses trap. The refinement holds from exec on, since before it there is no program. The proof has a lemma per action; TLC checks `SessionInv`, of which `TableInv` and
  `TypeOK` are parts, too.

`ProcessAssumption`, `ImageAssumption` and `BoundAssumption` are evaluated by TLC in each run.

**Shmtx_proof.** `TypeCorrect`, `AtMostOneHolder`, `NobodyElseUnlocks`, `IsAMutex` (refinement of `Mutex` with
`holder` as the witness) from type correctness and mutual exclusion together, which are inductive: `CmpSet(0, 1)`
only succeeds when the word is 0, and the word is 1 exactly while somebody holds. `NobodyElseUnlocks` needs that pids are
not 0 or 1: force_unlock compares the lock, which is 0 or 1, with a pid, and never succeeds.
`NoPostIsLost` is a counting argument: for each action, how the finite sets of
registered and posting processes change against `wait` and `sem`; it covers processes killed anywhere and calls of the semaphore that fail, each of
which shifts the balance by one.
`SleepersAreWoken` (`SomebodyWakes`: no sleeper is left with a free lock, no post and nobody on the way) looks at the steps that could
leave only idle and sleeping processes: a failed retry sees the lock taken, an unlock goes on to `wakeup`, and `wakeup`
gives up only when `wait` is 0 or less, where by `NoPostIsLost` every sleeper has a post, unless one has failed.

**Pool_proof.** Six theorems: `PoolTypes`, `MemoryIsNotShared`, `MemoryIsInPlace`, `NoBlockIsSkippedEarly`,
`FilesAreClosedOnce`, `ElementsStayInside`. None of the properties is inductive alone. The invariant is:

* of the pool: every mark lies between header and end of its block, and the blocks before `current` are those that
  failed too often, and from `current` on the counts never rise: only therefore does moving `current` past the last full
  block skip full blocks alone (`ngx_palloc_block` counts a failure in *every* block it passes);
* of memory: every piece with an owner, the nodes of the two lists included, lies below its block's mark or is one
  whole large piece with exactly one node, aligned if it holds pointers, and any two are apart;
* of files, arrays and lists: an open descriptor has one cleanup not run yet, and a cleanup without a handler none; an array or part holds `nalloc * size` bytes and no
  more than `nalloc` elements, and all parts of a list but the last are full.

The first part of the module shows of each allocating function that every possible result has the first property and that what it gives was
nobody's (`Gives`); the second has one lemma per action on top of that. The code's loops over blocks and nodes are set expressions with a least or greatest
element here, whose existence is `LeastExists` (from the library's `WFMin`).

**CommandLine_proof.** `LinesAreSplitRight` (`SplitIsRight`) and `CommandsGetWhatWasTyped` (the action property `CallsWhatWasTyped`).
The double loop of `get_command` is a recursive function over the buffer. The library's theorem on recursive functions takes an
operator as parameter, so that its existence is proved here, from the right end to the left (`BackwardFunction`). Then, at each
position: the words found from there on are the runs that begin there or later, in order, and as many (a counting argument over
finite sets). `IInv`, checked by TLC as well, says that the array agrees with the buffer wherever `play_command` reads it;
it is inductive as `get_command` always rewrites a prefix. What lies behind `nelts` is what the violated `stale_argv` is about.

**Tracers_proof.** `PairedTheorem`, `VisitsTheorem` and `AloneTheorem` state `CallsArePaired`, `VisitsAreShown` and `RunsAsAlone`
(refinement of `Program`) for any process, system calls and number of signals, from `TracerAssumption`. `CallsArePaired` says of every line that it is the
result of a call with that call's arguments, except for the last line, which may be about the call inside which the process was killed. The inductive invariant `IInv`
says, for each kind of program and while no signal has misled it, where the process stands (`Place`: on an instruction, or
right behind INT3 at `Bar`), that INT3 is in place exactly outside the single step (`Breaks`), that the resume flag is only up at a
visit already shown (`Watches`), that the tracer's flag is up exactly inside a `write` and that the registers it holds while the process runs are those of the stop before (`Agrees`, `Reports`).
`AloneTheorem` maps each action to one step of `Program` or to none; rewinding `rip` changes nothing there because the
mapping already counts a process behind INT3 as being at it, which `Breaks` shows is where every stop in the loop leaves it.

**Queue_proof.** `MiddleIsAlwaysMiddle` (`MiddleIsMiddle`) and `QueueImplementsLists` (`ImplementsLists`), from `QueueAssumption` (finitely
many items, none of them a head, integer weights). The inductive invariant `IInv` says that some assignment of sequences to heads
is represented: the head and the items of each sequence are a closed loop without repetition in which neighbours point at each
other (`Chain`), and no two lists share a cell; stale links elsewhere are not constrained. The proof goes up in four layers:

* edges: which `u.next = v, v.prev = u` each macro makes, and that it breaks none outside a few cells (`Keeps`);
* loops and sequences: what inserting, removing, splitting and joining does to one loop (`ChainInsert` and so on), and that the
  others stay (`ChainStays`);
* walks: recursive functions over the number of steps, whose existence is shown by induction (`IterationExists`), follow the loop,
  so that reading a list, the middle and the search for a place give what they should; as no item repeats, `Room` is enough;
* sorting: after each round a prefix is a stably sorted permutation (`Sorting`, `OneMoreSorted`), the whole at the end,
  which is the sequence that `StableSort` defines by counting (`SortedIsStable`).

**RbtreeInsert_proof, RbtreeDelete_proof.** `TreeIsSound` (`TreeInv`) and `TreeIsRedBlackAlways` (`RedBlack`), from
`TreeAssumption`: finitely many nodes, apart from the sentinel and NULL, and numbers for keys. The inductive invariant `TreeInv` says that there are, for the
nodes whose left child is not NULL,

* positions from left to right, and for each node two bounds between which the positions of its subtree lie (`Ordered`);
* links that fit them in both directions: the child on a side covers what its parent covers on that side and is the sentinel
  when that is nothing (`HasChild`), a node is the child of its parent (`HasParent`), the root covers everything (`Rooted`);
  together `Shape`, which makes the links one tree without a word about reachability or recursion;
* heights in black nodes that agree edge by edge, and no red node below a red one (`Coloured`).

`RedBlack` alone is not inductive: it does not exclude cycles outside the tree or nodes reached twice, and in the middle of a loop it does not hold.
The states in the middle have the same positions and one fault each, told by the parameters of `Coloured`: during an insertion `x` may be red below
red (`Raising`), during the repair of a deletion one edge lacks a black node (`Lacking`). The parts:

* a rotation moves bounds and not positions (`RotateShape`), and what it does to the heights of five edges (`GoodTurn`); both sides at once, with the
  side as a variable;
* a round of either loop ends it or climbs to a node with a wider subtree (`Width`), so that the loops end within `Longest` rounds
  (`RebalanceSound`, `FixupSound`);
* the descents end as widths shrink; their recursive functions exist by induction over the width (`Descends`). A new leaf opens a place next to
  where the descent ends (`Opened`), and a deletion closes the one of the node cut out;
* the node that takes the place of a deleted one with two children gets its position, links and colour: a renaming (`Moved`), between
  the cut and the repair;
* `BlackHeight` is the height of the root (`SoundHeight`).

TLC checks `RedBlack` itself; it cannot evaluate `TreeInv`, which quantifies over all positions and bounds.

**Model-checked only:** the liveness properties (`CommandReturns`, `HitMakesProgress`, `DeadlockFreedom`, `StopsAreAnswered`), which
the prover cannot treat; of the tree `LookupFinds` and `ImplementsSortedList`, for which the positions below would have to be compared with the
keys; the strings, most of which are recursions over their bytes.

A refinement `[][Next]_v` admits steps that change nothing of `v`: `ImplementsSortedList` and `ImplementsLists` say that every change is the right one,
and not that an operation changes anything.

## 5. Not modelled

* Debugger: a nested debugger's own launches, attaches and breakpoints, what a child does between fork and PTRACE_TRACEME, reuse of pids, fork, threads and exec in the debugged
  program, different load addresses, watches on data, the delivery of signals to handlers (c
  suppresses them), printing.
* ELF: the parsing of /proc and of sections; `find_func`'s prefix match is in `CommandLine`.
* Pool: block sizes that are no multiple of 8 (an aligned mark could then pass the block's end), arrays of 0 elements.
* Mutex: `ngx_shmtx_destroy`, only to be called when nobody uses the lock, and spin = -1, where no
  semaphore is set up. `Semaphore = FALSE` in the model (a failed `sem_init`) is covered by the proofs only.
* Strings: copying (`ngx_cpystrn`, `ngx_pstrdup`, `ngx_strlow`), searching (`ngx_strnstr` and its like), `ngx_hex_dump`, formatted
  printing, and the hash macros.
* `blog/`: `syn.c`, `base.c`, `getinfo.c`, `readmem.c`, `writemem.c`, which issue a few requests in a row; what the other programs
  print; the reading of symbols in `dbug_break.c` and `attach.c`.
* Shared memory: two system calls.

## 6. Plan

1. Done: core, mutex, pool with array and list, command line, tree, queue, strings, tracers, and the theorems above.
2. Proofs next: the order of the tree's keys; the pure functions of `Text` that need no induction; what of
   `SessionInv` survives with several processes.
3. `open_funs` and the choice of symbols; searching in strings.
