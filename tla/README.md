# A TLA+ development of rklib

rklib is a header-only C11 library of containers and allocators. The headers in
`include/` are the implementation; `single_include/rklib.h` is generated from
them. The library starts no threads and keeps no files: every operation runs to
its end in the thread of its caller. What makes it hard is state that survives
between calls: positions held by a client while the structure changes under
them, slots that are reused, words that are partly padding, loops that change
what they traverse, and long sequences of legal calls. Beside the library the
repository has its own test framework, `triax/triax.h`, and that one is
concurrent: its runner forks tests, shares memory with them, kills those that
are late, and concludes from what a dead process left behind how it ended.

This directory holds TLA+ modules translated from that code, TLC configurations
that check them on small instances, and theorems that TLAPS proves for every
value of the constants. `PROJECT.json` maps every definition to the lines it
models and lists the runs, the seeded faults, the hazards and the theorems.

## 1. The system

| Component | State it keeps | Operations | Uses |
|---|---|---|---|
| Allocator (`rk_alloc.h`) | a vtable and a context; the thread's `alloc_ctx` | allocate, reallocate, deallocate; page and malloc allocators | the C library, mmap |
| Arena (`rk_arena.h`) | `beg <= cur <= end` in a borrowed buffer | bump allocation, resizing at the top, mark, rewind, clear | is an Allocator |
| ArenaStack (`rk_arenastack.h`) | a Vec of arenas, the index of the active one, the default chunk size | as Arena, over several buffers; retained buffers are reused | Arena, Vec, a backing Allocator; is an Allocator |
| Bitset (`rk_bitset.h`) | words owned by the caller | bit, range and whole operations, shifts, searches, counts, iteration | |
| Vec (`rk_vec.h`) | capacity, count and allocator in front of the elements | push, pop, insert, erase, reserve, shrink, erase_if | Allocator |
| Heap (`rk_heap.h`) | a Vec in heap order | push, pop, replace_top, heapify, erase_if | Vec |
| Deque (`rk_deque.h`) | buffer, `head`, `count`, `cap` | push and pop at both ends, in bulk too, reserve, shrink, erase_if | Allocator |
| Pool (`rk_pool.h`) | elements and a bitset of those in use | new, put, delete, clear, erase_if | Bitset, Allocator |
| Dict and Set (`rk_dict.h`) | `cap`, `count`, `ndeleted`, one state byte, key and value per slot | set, add, get_or_add, remove, extract, reserve, shrink, clear, assign, erase_if | Allocator |
| Trees (`rk_trees.h`) | nodes, root, count | BST, AVL, left-leaning red-black insertion and removal; iteration with a caller's stack | Allocator |
| Str and Strv (`rk_string.h`) | buffer, `len`, `cap`; a view is pointer and length | append, insert, erase, search, split, format | Allocator |
| Bit utilities (`rk_defs.h`) | none | the bit functions of C23, alignment, checked and saturating arithmetic | |
| Policy (`rk_config.h`) and portability (`rk_defs.h`) | none | load factor, failure hooks, type dispatch | |
| triax (`triax/triax.h`) | runner: the slots, which of them are in flight, counts of outcomes; per slot, in memory shared with the test: its phase and the reason it ended, and a log of assertions | select, start, collect, kill, classify and report tests; the assertion macros | fork, waitpid, kill, setjmp |

Components interact by direct calls and by callbacks of three kinds: the
function pointers of an allocator, the hash and comparison functions of a keyed
container, and the predicates of the `*_erase_if` macros, which run in the middle
of a loop over the container. The only state they share is memory: a client
holds pointers, marks and iterators into a structure across later calls. The
runner of triax and an isolated test share a page and a log file; the rest goes
through the process table. The tests use the library, not the other way round.

### What makes each component correct

* **Allocators.** Blocks that a client holds share no byte and are aligned; no
  call changes a block that was not its argument. For the arenas this hangs on
  one comparison, `ptr + size == cur`, that has to recognise the top block after
  any history of shrinking, freeing out of order, moving and rewinding. Marks
  stay usable as long as they lie below the cursor. A stack must lose no buffer
  when it reorders its descriptors, and rewinding must give back what was
  allocated since the mark.
* **Dict.** The table is a map. Keys stay unique and reachable across
  tombstones, their reuse and rehashes; `count` and `ndeleted` are exact; there
  is always an empty slot to end a probe; `dict_reserve` keeps its promise, churn
  does not enlarge the table, and retained entries keep their addresses.
* **Deque.** The ring is a sequence, wherever it wraps and however it grows,
  shrinks or is erased from in place.
* **Bitset.** The words stand for the documented set, padding is zero, and every
  query and traversal answers for that set.
* **Pool.** No element is handed out while it is held, none is lost, contents
  stay, and the erase loop visits each element once.
* **Vec.** The slots up to `count` are a sequence; a vector that has a block has
  at least one slot, since growing doubles without a test for zero; it keeps the
  allocator it was bound to until it is released.
* **Heap.** The array is in heap order after every call, the bulk ones too, and
  what is returned is a least element of the multiset held.
* **Trees.** Each is a map. Heights (AVL) and colours (red-black) are right
  between calls, no node is lost or freed twice, pointers to entries survive what
  the header says they survive. A traversal yields every key once, in order,
  within a stack as deep as the tree is high; `erase_if` and `release` end.
* **Str.** The text is what the calls made of it, also when an argument is a view
  of that text; it can be read as a C string wherever a call does not say
  otherwise. Searching skips no occurrence; the loop of `str_split` returns each
  token once and tells an empty last token from the end.
* **Bit utilities.** Each function agrees with its definition on every number,
  zero and the greatest included; sums, products and roundings are refused,
  saturate or wrap as documented.
* **triax.** Whatever a test does, and whenever it is killed, it gets one verdict
  and the one it deserves; its slot is given back without a process or a log
  entry left in it; the exit status of the run counts the verdicts; the run ends.

## 2. The modules

| Module | Models | Kind |
|---|---|---|
| `Blocks` | the promise of the Allocator interface | abstract specification |
| `ArenaOps` | the small functions of `rk_arena.h`, `rk_align_pad`, `rk_ptr_in_range` | operators |
| `Arena` | `rk_arena.h` | component, implements `Blocks` |
| `ArenaStack` | `rk_arenastack.h` | component over `ArenaOps`, implements `Blocks` |
| `TableMap` | what a Dict promises | abstract specification |
| `Dict` | `rk_dict.h` | component, implements `TableMap` |
| `Queue` | what a Deque promises | abstract specification |
| `Deque` | `rk_deque.h` | component, implements `Queue` |
| `BitsetOps` | the functions of `rk_bitset.h` on words | operators |
| `Bitset` | a client of all of them, and the comparison of `Bits` with its definitions | component |
| `Pool` | `rk_pool.h` and the word iterator of `rk_bitset.h` | component over `BitsetOps` |
| `List` | what a Vec promises | abstract specification |
| `VecOps` | the macros and functions of `rk_vec.h` | operators |
| `Vec` | a vector and its client | component, implements `List` |
| `PrioQueue` | what a Heap promises | abstract specification |
| `Heap` | `rk_heap.h`, its sift loops as operators over `VecOps` | component, implements `PrioQueue` |
| `TreeMap` | what a search tree promises | abstract specification |
| `TreeOps` | nodes, descent, the unbalanced tree, and the two ways to balance one in `rk_trees.h` | operators |
| `Tree` | the common interface and the shared loops of `rk_trees.h` | component, implements `TreeMap` |
| `Bits` | the bit functions and the arithmetic of `rk_defs.h`, over `w` bits | operators, used by `Bitset` |
| `Text` | what a Str promises | abstract specification |
| `StrvOps` | the functions of `rk_string.h` on views | operators |
| `StrOps` | the functions of `rk_string.h` on a Str | operators over `StrvOps` |
| `Str` | a Str and its client, and the tokenising loop | component, implements `Text` |
| `TestRun` | what a run of tests promises | abstract specification |
| `TriaxVerdict` | `triaxi_test_interpret` | operators |
| `TriaxTest` | filters, tags and the settings of a run; a test: `triaxi_run_func`, the assertion macros, and what user code may do | process, used by `Triax` |
| `Triax` | the runner, and the composition with its tests, the clock and signals | component, implements `TestRun` |
| `PowersOfTwo` | the capacities of `Dict`, `Deque` and `Vec` and the sizes of `ArenaStack` | operators |
| `NatFacts` | least and greatest numbers, remainders, powers of two | lemmas |
| `ArenaProofs`, `ArenaStackProofs`, `DictProofs`, `DequeProofs`, `PoolProofs`, `VecProofs`, `TriaxProofs` | theorems about the component each is named after, in `PoolProofs` also about `Bitset` | proofs |
| `MC*` | constants for TLC, where the `.cfg` alone cannot state them | instances |

Conventions. A C struct is a record with the fields of the struct. An operation
is an action with the same name up to its prefix; the functions it calls are
operators that return the new record. Lists of conditions in the code that end in
`RK_*_FAIL` or `rk_assert`, and so abort, have no successor, except in
`ArenaStack`, where `failed` records that an internal assertion was reached so
that a run can show it never is. Loops that can be observed in the middle, by a
callback or because they work on two structures, are actions that take one
iteration each; the others are one step, and where they search for the first
element with some property the model takes the least one.

Client state is explicit wherever a property is about it: `live` and `marks`
(what the client may still use, by the contract in the header), `held` (what it
stored in pool elements), `set` (what the documentation says a bitset holds),
`room` (the last promise of `dict_reserve`). The modelled code never reads these.

Most modules also have seeded faults: operators next to the one they alter,
marked as such, that no specification uses. Substituted one at a time they make
the property named with them in `PROJECT.json` fail, which shows that the
property depends on that piece of code.

### Arena and ArenaStack

Addresses are naturals, NULL is 0. An arena is `[beg, cur, end]`, as in the
code. `Allocate`, `Deallocate`, `Reallocate` are both the direct calls and the
vtable functions (they differ in the failure hook only); `TryResize` stands for
`arena_try_resize`, `arena_try_extend` and the forms for a block known to be at
the top. Zero sizes can only be requested directly, not through the typed
wrappers, which is why `Deallocate` and `Reallocate` exclude them and `TryResize`
does not. Two zero-size blocks at one address are one element of `live`: they
share no byte with anything, so nothing is lost.

A mark is a position. By the contract of `arena_rewind_to` it may be used while
it is not above the current position, so an operation that lowers the cursor
removes the marks above it from `marks`; in a stack positions are ordered first
by the index of the arena. Blocks that reach beyond a mark are lost by rewinding
to it.

In a stack the backing allocator is external: it answers with any address from
`Bases` where the buffer overlaps no other. Two buffers may touch, as they do when
the backing allocator is itself an arena. The vector of arenas is a sequence;
`InsertUnordered` is `vec_insert_at_unordered`.

### Dict

A slot is `[data, key, val]` with the state byte of the code: a fingerprint
below 128, 128 for empty, 254 for deleted. A hash is given by its low bits, which
choose the home slot, and its fingerprint. `% cap` is the code's `& mask`, as
capacities are powers of two. The loop of `grow` is stepwise: `fresh` is its
`new_self`, `idx` its index, `pending` the insertion whose `ensure_cap` called
it; so is the loop of `dict_assign`, `todo`. No other call starts in between, the
library being single-threaded, but every invariant is checked there. A `Set` is
a `Dict` with one value. Keys and values of erased slots are not kept, as the
code does not read them.

`call` is the call that is running, with its arguments and its answer, until it
returns. The refinement compares it with the table: the map is what `Lookup`
finds in the table, together with what the call has still to store (`pending`,
`todo`), and in `TableMap` a call has its whole effect when it begins. `Set`
changes the value of its key and no other, `Remove` takes its key away and
answers with the value it had, `EraseIf` takes away just the keys chosen, `Resize`
changes nothing, and the steps of a rehash are no steps of the map. An entry lost
in a rehash, an older value that comes back, or a call that hits another key would
each be a violation.

### Deque

The record of `RKI_DequeBase`, with the buffer as a function; bytes never
written are `Junk`. `deque_erase_if` is stepwise with its `read` and `write`
indices, and the refinement mapping sees the elements already kept followed by
those not read yet. `call` is the call that is running, with its arguments; a pop
returns a pointer to the vacated slot, and `val` is what the client reads there
after the pop. While erasing, `val` is the element that the predicate was shown
last and `keep` its answer: `Queue` has the place `at` behind the elements kept,
shows the one that follows it, and removes that one and no other.

### Bitset and Pool

A word is the set of positions of its ones, so `&`, `|`, `^`, `~` are set
operations and a shift moves positions; a loop over words that stops at the
first with some property is the choice of that word. `BITSET_NPOS` is -1, since
the code uses that its successor is 0. In-place shifts keep the direction of
their loop, which reads words it also writes. `Pool` uses the same operators for
its bitmap; `pool_erase_if` is stepwise, with the iterator's cached word.

The queries are functions of the words, so one invariant, `QueriesExact`, compares
all of them in every state with the documented set: positions of the first and
last bits, run lengths, traversals from every place, text in both directions,
equality. `BitOpsExact` uses the same instance the other way round: the number that
the bits stand for goes through every function of `Bits`, which are the loops of
the fallbacks in `rk_defs.h` (what a compiler's builtin does is not modelled), and
the results are compared with definitions by sets of positions and unbounded
integers. `ChunkFor` is the size an `ArenaStack` requests, with the wrapping that
the unbounded addresses of `ArenaStack` leave out: it is 0, which the backing
allocator refuses, or the chunk serves the request.

### Vec and Heap

A vector is NULL or a record of its header and its block. A slot keeps what it
held until it is written again, so an element that a call should have moved and
did not shows up as a stale one; a slot never written holds `Junk`. `call` is the
call that has just returned, with its arguments: the refinement compares each
change with the call that made it. `vec_push_unchecked` is `PushOne` where there
is room, `vec_init_list` is `From`. To pop or erase no element of a NULL vector is
within the precondition, but the code writes the header that is not there
(section 3); in the model such a vector stays NULL. The precondition that an array does not
overlap the vector's own block holds because arrays are values here.

A heap is a vector and uses its operators, as the code does. The sift loops carry
a hole; the operators take the same steps on the block. `out` is what the call
returned, and the refinement compares it with the multiset before and after.

### Trees

A tree is NULL or a record with the fields of the node, whose links are trees;
the functions of the code that take a node and return the new root of its
subtree become operators that do the same. They are recursive, so these modules
are for TLC only. The loop of the BST's `extract`, which walks a pointer to a
link, is written as the recursion that replaces that link. A node also carries
`at`, the key it held when the call began: rotations move nodes, which the client
cannot see, but copying an entry into another node breaks the client's pointer to
it, and `at` tells the two apart. `ref` is such a pointer.

`kind`, which no step changes, chooses the tree. `Walk` to `WalkEnd` are `tree_foreach`, one node per
step, in both directions, with a stack of the height of the tree or one less; its
body may set the value of a key that is there, which in the AVL and red-black
trees runs the balancing code on the way back. `EraseIf` to `RemoveEnd` are the
two passes of `erase_if`, `Release` to `ReleaseEnd` the loop of `release`. A
failed stack assertion leads to `pc = "abort"`, where nothing follows. `ret` is
the answer of a call until the client takes it.

### Str

A character is a number, a view the sequence of its characters, `STR_SPLIT_END` the
greatest size; subtraction of lengths wraps there. A Str is its block, `len` and
`cap`; a byte never written is `Junk`. The bytes behind the terminator are
forgotten after every call, since no call promises them: a call that relied on
them would show. An argument is a literal or a view of the Str's own text, which
is an offset into the block and is read when the code reads it, before or after
the block has moved. The `_mayalias` calls and `str_assign` take views; the
others, by their contract, only literals.

`TerminatorKept` is an action property and not an invariant, because
`str_push_raw`, and `str_reserve` of an unallocated Str, may leave a text
unterminated. After a raw push that fills the block there is no byte behind the
text at all; erasing, inserting and `str_erase_if` would then move or write that
byte. Calling them in that state is left out (`HasEnd`): the documentation of
`str_push_raw` puts the terminator in the client's hands. `str_cat_fmt` returns NULL
when formatting fails, and may have written over the terminator by then
(`CatFmtFails`). `Opens` names these three calls, and `Closes` those whose code ends by
writing a terminator; it leaves out three calls of which the header says so too, but
which do it only sometimes. Section 3 quotes them.

`QueriesExact` compares searches with the set of all occurrences and comparisons
with the lexicographic order. It leaves out two documented answers that the code
does not give, quoted at the end of section 3: the size of a difference in length,
and `str_findr` of an empty needle.

`SplitStart` to `SplitEnd` are the documented loop over `str_split`; when it is
over its tokens must be those of `str_split_alloc`, and may be joined into a Str.

### triax

The model is the POSIX branch. `plan` is the run: suites, tests with their
attributes, filters, tags, settings, and `does`, a bound on what the code of each
test may do besides returning. An invocation (a test with one parameter) runs in
a slot. `state`, `exit` and `log` are the memory shared with the runner; each
store to it is a step of its own, as an isolated test can be killed between any
two. `ctl` is the program counter in `triaxi_run_func`. `proc` is what the
operating system knows: alive, or a zombie with a status until it is reaped;
whether `setpgid` has been called; whether a descendant is alive in the group.
`did` is history: what the user's code really did. The modelled code never reads
it; `VerdictsTrue` compares it with what was reported.

In `Triax` the runner is one process: `rpc` is its program counter, `active` and
`nactive` the array of slots with those in flight first. Between the probe, the
second probe, the kill of the group, the third probe and the kill of the child
(`triaxi_collect_from_active`) the test and the clock go on: these are the steps
`poll`, `late`, `kill`, `third`, `wait`. A test that is not isolated runs as part
of the runner: its steps are those of the same `TriaxTest`, while the runner is
`inline`. The counts of outcomes are those of `verdict`. A deadline is a step of
the clock that may come at any moment.

A write to the log is one step (a few dozen bytes to a file). Fixtures return or
fail like the body, but cannot skip or throw.

## 3. What is checked

All runs check deadlock, as in each model some call is always possible, except
`trees`, where a traversal may stop at a failed assertion. The runner of triax
stutters once it is gone.

| Run | Instance | States | Shows |
|---|---|---|---|
| `arena` | 7 bytes at address 3 or 4, or no buffer; sizes 0-3, alignments 1, 2, 4; 3 blocks, 2 marks | 575k | `Arena` implements `Blocks`; `ArenaSafe`: blocks stay disjoint and consumed, marks reachable |
| `arena_stack` | buffers at 3, 5, 9, which may touch, below 13; sizes 0-2, alignments 1, 2; 2 blocks, 1 mark | 525k | `ArenaStack` implements `Blocks`, no buffer is lost, no internal assertion is reached, blocks stay consumed, and rewinding reclaims where buffers do not touch |
| `dict` | 3 keys (two with the same fingerprint and home slot), 2 values, capacities 2, 4, 8, load 3/4 | 14k | `Dict` implements `TableMap`, call by call; the invariants and promises of section 1 |
| `deque` | 3 values, capacities 1, 2, 4, arrays up to three elements | 42k | `Deque` implements `Queue`, call by call; the ring is well formed; buffers are replaced only when needed |
| `bitset` | words of 2 bits, 1 to 6 bits, two bitsets; numbers of up to 6 bits | 5.5k | every operation and query against the set; the bit functions and the arithmetic against their definitions |
| `vec` | 2 values, 2 allocators, capacities up to 4, arrays up to two elements | 54k | `Vec` implements `List`; a block has a slot; the allocator stays |
| `heap` | elements of three sizes, up to six of them with repetitions, capacities up to 8 | 37k | `Heap` implements `PrioQueue`; heap order |
| `trees` | all three trees: 7 keys and every sequence of set, add, get, extract in the balanced ones; fewer keys with traversals, `erase_if` and `release` | 184k | balance, no node is lost, traversals are exact, pointers are kept, loops end, `TreeMap` |
| `pool` | words of 2 bits, capacities 0, 2, 3, 4, static and dynamic, two values | 39k | exactness of the bitmap, contents, fullness, the erase loop |
| `str` | three characters with NUL among them, texts up to 3, capacities up to 5; literals up to 7 and needles up to 5 characters | 75k | `Str` implements `Text`, terminators stay, splitting and searching are exact |
| `triax` | one or two slots; 14 plans: one test that may do anything (isolated or inline, with and without timeout, `--break`, `--debug`, signals), three tests on two slots, two suites with filters, tags, parameters, fail-fast | 71k | verdicts are true, slots are clean, `Triax` implements `TestRun`, the run ends |
| `triax_fatal` | as `triax` | violated | see the finding below |

Bounds and why they are enough. The arena has room for three blocks with
padding between them, so every order of freeing and resizing around a block in
the middle occurs, and the buffer starts both aligned and misaligned. A stack
reaches three arenas, so that a retained one can be swapped, a new one inserted
in front of a retained one, and two be left by one rewind; alignments exceed that
of the backing allocator. The dictionary's keys collide in the small tables, wrap
around the end and separate in the largest; the load limit lets tombstones fill a
table with fewer entries than its capacity; the least capacity is 2 instead of 16
to bring growth, compaction and shrinking within three keys. The deque wraps at
every head and grows at every head; its least capacity is 1 instead of 8.
Two-bit words give every alignment of a position to a word, in bitsets of no, one
and two full words before the last. A shift by one place within a word of two bits
looks the same from both ends, so that a run cannot tell a shift by `b` from one by
`w - b`; the theorem `BitsetRepresents`, which is for words of every width, does.
Four slots let a vector double twice and an array go in between others, and six
elements give a heap two levels under the top on both sides, and a parent with
one child. Seven keys make trees of height four, so that the rotations and the
red-black deletion occur below the root too; two values under one key tell overwriting from
keeping. The loops need fewer keys, and take the tree in every shape of its kind
that these allow. The text of a Str grows through capacities 1, 2 and 4
and lies below, at and beyond each; the reserved capacities lie between. The search
table counts from needles of four characters on, and needles of five over two
characters repeat. The literals that are tokenised begin and end with delimiters
and have two in a row. Two slots make a slot be reused, and be collected in either
order, with a third test; the runs of one test, which let it do everything, cover
what a test can do to its own slot, and those of several tests let each do one
thing, as tests share nothing but the slots. `MaxLive` and `MaxMarks` bound what the client
holds; `MaxCap` and `AddrEnd` bound memory, beyond which the code aborts.

The library does nothing that its caller has not called for, so nothing is
assumed of the client. Most loops are bounded by what they traverse. Three are
not. The probe of a dictionary ends because of `ProbesEnd`, an invariant. The
traversal that `erase_if` makes and the loop of `release` follow links, the latter
links that it rewrites: for these `Tree` assumes weak fairness of `Loops`, the
steps of the library's own loops, which wait for nothing, and `LoopsEnd` says that
they end. The loop bodies of `tree_foreach` belong to the client and are under no
fairness.

For `RunEnds`, `Triax` assumes that the runner goes on (weak fairness of
`RunnerStep`; it blocks only in the `waitpid` for a test without a deadline or for
one it has killed), that deadlines pass (weak fairness of `DeadlinePasses`), and
nothing of a test that has a timeout: it may stop between any two steps. A test
without one can hang the run for ever, as the documentation says; such tests are
assumed to go on (weak fairness) and their bodies to return in the end (strong
fairness of `BodyReturns`, as the body is left for assertions on the way).

### Finding

`triax_fatal` (comment and code disagree). When a test is found in an assertion
whose result is complete, `triaxi_test_interpret` calls `triaxi_fatal` unless the
exit is an error (`triax/triax.h:5164`). The comment above says that nothing else
can get there: what stops execution in the middle of an assertion, "a real crash,
a hang killed by timeout", "does so *before* a result is ever logged"
(`triax/triax.h:5157-5158`). But `triaxi_log_res` writes the result
(line 1658) before it stores the state (line 1673). A test past its deadline that
is killed between the two leaves that very combination, and the runner aborts: the
verdicts of all other tests are lost. `CellsImpossible`, checked by `triax`, says
that this is the only way any of the cells marked impossible is reached.

### Where documentation and code differ otherwise

Met while modelling; the models follow the code, and no run is spent on these.

* `heap_shrink_to_fit` "frees the backing Vec entirely if the Heap is empty"
  (`include/rk_heap.h:126`); it calls `vec_shrink_to_fit`, which keeps one slot
  (`include/rk_vec.h:566`).
* `arenastack_rewind_to` "reclaims allocations made after a saved position"
  (`include/rk_arenastack.h:75`). Its loop accepts the first arena, from the active
  one down, whose cursor *equals* the mark (line 259). If a later arena is full and
  its buffer ends where that of the marked arena begins, the mark, taken while that
  arena was empty, equals the later cursor, and nothing is reclaimed until the next
  clear. `RewindReclaimsApart` therefore speaks of buffers that do not touch; safety
  holds for all of them.
* Three calls are documented to leave the text null-terminated, without exception.
  `str_shrink_to_fit` "resizes the Str's capacity [...], null-terminating it"
  (`include/rk_string.h:240-241`); it changes the capacity, or nothing (lines 892-896).
  `str_terminate` ends the text with a suffix "and then null-terminates it if it isn't"
  (268-269); when the suffix is there it does nothing (987-995). `str_cat` appends,
  "null-terminating `self`" (285-286); for an empty text it returns at once (903). A text
  that `str_push_raw`, or `str_reserve` of an unallocated Str, has left without a terminator
  has none after them.
* "If the strings are equal up to the length of the shorter one, the result is the
  difference in their lengths", says the note on `str_compare` (`include/rk_string.h:484-485`);
  it is -1, 0 or 1 (line 704). The sign is right.
* `str_findr` returns a view "to the last occurrence" (`include/rk_string.h:502`); of an
  empty needle, which occurs at the end too, it returns the front (line 753).
* `vec_pop_n` requires `count <= vec_count(self)` (`include/rk_vec.h:296`), which holds of no
  element and a NULL vector; the code subtracts from the count in a header that is not there
  (line 455).
* `str_reserve` of an unallocated Str gives it a block in which no byte is
  written, so that it is not terminated (line 883).
* A fixture of a test that is not isolated misuses the framework: the error it
  recorded is overwritten by the signal of `abort` (`triax/triax.h:5042`), where
  the comment at lines 1705-1708 says that it is preserved. The verdict is an error
  all the same, by the phase.
* An assertion whose expression throws is left without a result in the log and
  printed as passed; the test's verdict is right, as its phase is set to TEST on the
  way (line 5037). The branch for an exception in an assertion is never taken.

## 4. What is proved

`tlapm` checks the theorems below for every value of the constants: every hash
function, every number of slots, sizes, alignments and capacities, every plan. They
state properties that the runs of section 3 check on small instances. `Spec` is
the specification of the module, with its fairness where it has some.

| Theorem | States |
|---|---|
| `ArenaIsSafe` | `Spec => []ArenaSafe`: blocks stay disjoint and consumed, marks reachable |
| `ArenaImplementsBlocks`, `ArenaStackImplementsBlocks` | both arenas implement `Blocks` |
| `ContractDisjoint` (in `ArenaProofs`) | whatever implements `Blocks` keeps live blocks disjoint |
| `ArenaStackLiveConsumed` | live blocks lie below the cursors of retained arenas, and no internal assertion is reached |
| `ArenaStackBuffersKept` | only `arenastack_release` gives up a buffer, and none is held twice |
| `ArenaStackRewindReclaims` | rewinding restores the marked position, where buffers do not touch |
| `DictProbesEnd`, `DictCountersExact` | keys are unique and on their probe paths, an empty slot is left; `count` and `ndeleted` are right |
| `DictReserveKept`, `DictChurnKeepsCapacity`, `DictAddressesKept` | what an insertion does to the capacity, and what stays in its slot |
| `DictImplementsMap` | the table is a map on which every call does what its name and arguments say, and no step of a rehash or of `dict_assign` shows |
| `DequeRingOK`, `DequeGrowsOnlyWhenFull` | the ring is well formed and shows no byte never written; when its buffer is replaced |
| `DequeImplementsQueue` | the ring is a sequence: every call does what its name says, and `deque_erase_if` shows each element once and removes those chosen |
| `BitsetRepresents` | after any operation on bitsets each stands for the documented set, and no padding bit is set |
| `BitsetQueriesExact` | every count, search, traversal and conversion to text answers for that set, and two bitsets are equal when their sets are |
| `PoolHeldExact` | the bits are the elements the clients hold, a free one is found whenever there is one, and contents stay |
| `PoolEraseVisitsAll` | the loop of `pool_erase_if` sees each element once |
| `VecTypeOK`, `VecAllocatorKept` | a block has a slot and room for its count; a vector keeps the allocator it was bound to |
| `VecImplementsList` | every call on a vector does to a sequence what its name says |
| `TriaxSlotsFree` | the array of slots is exact, and a free slot holds nothing of its last test |
| `TriaxCellsImpossible` | no test leaves behind what the verdict table calls impossible, but for the finding above |
| `TriaxVerdictsTrue` | what is reported of a test is what its code did, or that the runner killed it |
| `TriaxImplementsRun` | the runner implements `TestRun` |

But for `Represents` none of the invariants is inductive as the runs state it. What
each proof adds:

* **Arena.** That a fresh block is clear of the others follows from `LiveConsumed`
  (they end below the cursor), and that `LiveConsumed` survives when the top block
  shrinks follows from `LiveDisjoint`. `IInv` joins the two with the alignment of
  live blocks, which the refinement needs for blocks resized in place. Three lemmas
  carry the steps: a bump, a resize at the top, a drop of the cursor.
* **ArenaStack.** `SInv` is `StackOK` (the arenas have buffers that are not empty and
  share no byte, cursors inside them, and the active one is among them), `BlocksOK` (live
  blocks are disjoint, aligned, and each lies in one of the buffers, below the cursor
  of an arena in use if it has a byte), `MarksOK` (each mark lies in the consumed range
  of its own arena, which is in use) and the absence of a failed assertion. They need
  one another: that `rewind_to` finds an arena rests on `MarksOK`, that clearing the
  arenas behind it loses no block that is still valid on `BlocksOK`.
* **Dict.** `IInv` is the type, `Usable` (what `ProbesEnd` and `CountersExact` say of a
  table) and, inside a rehash, what the loop has built so far: `FreshOK` says that the
  new table holds just the entries below `idx`, without tombstones and within its load
  limit, `PendingOK` that there is room for the insertion that waits. `RoomOK` says in
  which form the promise of `dict_reserve` is kept. The lemmas about a probe speak of
  the first slot with some property on a probe path, as the model does. For the
  refinement each operation is described by what `Lookup` finds before and after it, and
  inside a rehash the new table and what is pending give what the call began with.
* **Deque.** `RingInv` is the shape of the ring, the range of the indices of
  `deque_erase_if`, and that slots from `head` on, `count` of them, are written, also
  those behind the write index. One lemma per operation gives its `Effect`: the
  invariant, the sequence the ring shows, and the condition on growth; the three
  theorems follow from the same lemmas.
* **triax.** `SlotsInv` adds where the tests are: in the slots in flight and, between
  the start of a test and its end, in the next one (`Placed`); that invocations in
  slots are older than `next` (`Numbered`); that the isolated tests, and they alone, have
  a process, which the runner knows of except between `fork` and its return (`Housed`);
  and that a live child without a group has not come to `setpgid` yet. What the
  steps of a test may do is said once, in `TestEffect`, which each of the 22 actions
  of `TriaxTest` is shown to satisfy; the rest is one lemma per step of the runner.
  The verdicts need to know what each test has been through. `Story` says, for every
  place in `triaxi_run_func`, which phase, exit and log a test there can have, and how
  they agree with `did`; it is kept by every step of the test and by none of another.
  `Closed` says that the status of a process that has ended by itself, put together with
  the shared memory by `Fix`, gives the verdict deserved, and `Told` that a test the
  runner has killed is a zombie with SIGKILL and not collected yet. For the refinement
  `Books` follows the run: the tests in slots are of the suite that runs and have no
  verdict, nothing behind `next` has one, all before it has been started or reported
  unless a failure has stopped the run, and with fail_fast that failure is of this suite.
* **Bitset.** `Represents` is inductive. The work is in the operators: one lemma for each
  says of every place of every word whether its bit is set afterwards (`Stands`). A
  shift moves a position `W * w + b` by `W * (sh \div W) + sh % W`, and the lemmas about
  `ShiftedWord` and `UnshiftedWord` follow the carry from one word to the next. The
  loops of a shift in place are recursive functions over the bitset itself: what they
  compute is given (`DownTo`, `UpTo`), shown to solve the recursion because a word
  that is read has not been written yet, and shown to be the only solution.
  The queries follow from `Represents` alone. A search goes to the lowest or highest
  word that has a bit, and its answer is the least or greatest of the set because a
  word's positions precede those of the next; a search from a cursor is one of the
  bitset with the bits before it masked away. The searches for clear bits are those of
  the complement, whose padding is cleared again, and a run is as long as the
  distance to the first bit that ends it.
* **Pool.** `PoolInv` is the type and the equation between the bits and the elements
  held; that `stdc_first_trailing_zero` finds a free slot before the padding, and that
  the count of bits is the count of elements, are lemmas about the operators. `IterInv`
  is about the loop: what remains of the word that was loaded is still held, since only
  the bit just visited is cleared behind it, and with the bits of later words and what
  was visited it makes up the elements there were at the start.
* **Vec.** `IInv` says that the vector is NULL or a record of the right shape, with at
  least one slot and no more than `MaxCap`. One lemma per operation gives the sequence
  that its result stands for as a function of the one before: two of them splice arrays
  through a move of overlapping slots, and the one about `vec_erase_if` counts the kept
  elements below each slot (`Rank`). The refinement compares the result with `List`,
  whose `Keeping` is a recursive function; that it is the sequence of the kept elements is
  shown from the uniqueness of what the recursion defines.

Each of these was checked by TLC as an invariant of the run before it was proved.

Induction. The library's induction theorems take an operator as a parameter and
cannot be used by the installed provers. `LeastExists` of `NatFacts` replaces them: of
the numbers that break a claim take the least. It is proved from the library's theorem
that strict inclusion of finite sets is well-founded. What the recursion of
`FlattenSeq` returns is proved this way too (`FlattenIsSeq` in `TriaxProofs`).

Assumptions on the constants: addresses and sizes are naturals and alignments
positive (in `Arena` that they are powers of two is not needed); hashes are naturals,
fingerprints below 128, and the load limit is less than the capacity; least capacities
are positive, and powers of two in `Deque`; markers such as `Junk` are not elements; plans
consist of sequences, with numbers of jobs and parameters that are naturals; and there
is a slot for every job, as `triaxi_runner_init` allocates them. A test is taken not to raise
SIGKILL by itself, since nobody could tell that from a kill by the runner.

Only model-checked:

* Out of the provers' reach. `Heap` and `Tree` rest on recursive operators, the loops of
  `Bits` and the searches of `StrvOps` on recursive functions over data. `LoopsEnd` and
  `RunEnds` are liveness properties.
* Not proved. Of `Bitset` `BitOpsExact`, of `Str` everything.

## 5. What is not modelled

* The contents of memory in the arenas, and so the `memcpy` of a move.
* Failure of the backing allocator: the hooks abort.
* Overflow of `size_t` in size computations of the containers; addresses and sizes
  are unbounded there. The computations that are guarded, and the one of the arena
  stack, are in `Bits`.
* The page and malloc allocators: each operation is a call of the operating system.
* Debug logging, what `printf` formats, type-checking macros, compiler portability,
  builtins.
* The allocator a tree or a Str is bound to at its first allocation: the same macro
  as in `Vec`. The arithmetic of tree heights in an `int`.
* Of triax: the Windows branch; parsing of arguments and of filters; what is printed
  or written as JUnit; capture and replay of output; threads in tests; descendants
  that write to the shared memory or the log, or leave the process group; a
  process number that is used again; `EPERM` from `kill`; signals other than those
  that terminate the runner.
* The tests of the repository, its configuration header, the umbrella header, and
  `single_include/rklib.h`. The last is a generated copy of the other headers, nearly
  two fifths of all lines: mapping definitions to it as well would count the same code twice,
  so the map stays far below the share of lines that the models really cover.
