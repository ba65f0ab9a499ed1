----------------------------- MODULE ArenaStack -----------------------------
(***************************************************************************)
(* rk_arenastack.h: arenas in a vector, the first cur + 1 of them in use.  *)
(* A request the active arena cannot serve moves on to a retained arena    *)
(* that is large enough, or to a new one; existing blocks never move.      *)
(*                                                                         *)
(* `stack` is struct ArenaStack (the vector as a sequence, so arenas[i] of *)
(* the code is arenas[i + 1] here); the backing allocator is external and  *)
(* answers with any free address that is a multiple of AlignMax.  `live`   *)
(* and `marks` are the client's ghosts: a block also remembers the buffer  *)
(* it was carved from, a mark the index of the arena it was taken in.      *)
(* `failed` records that a step reached an assertion that aborts.          *)
(***************************************************************************)
EXTENDS ArenaOps, Sequences, FiniteSetsExt, PowersOfTwo

CONSTANTS Bases,      \* addresses the backing allocator may answer with
          AddrEnd,    \* end of the address space
          AlignMax,   \* align_max
          InitSizes,  \* arguments of arenastack_init
          Sizes,      \* request sizes
          Aligns,     \* request alignments
          MaxLive,    \* bound: blocks the client holds at once
          MaxMarks    \* bound: marks the client holds at once

ASSUME StackAssumption ==
  /\ AddrEnd \in Nat /\ AlignMax \in Nat \ {0}
  /\ \A a \in Bases : a \in Nat \ {NULL} /\ a % AlignMax = 0
  /\ InitSizes \subseteq Nat /\ Sizes \subseteq Nat /\ Aligns \subseteq Nat \ {0}

VARIABLES stack, live, marks, failed

vars == <<stack, live, marks, failed>>

Contract == INSTANCE Blocks

-----------------------------------------------------------------------------
\* stdc_bit_ceil: the least power of two that is not below n.
BitCeil(n) == CHOOSE p \in PowersUpTo(2 * n + 1) :
                /\ n <= p
                /\ \A q \in PowersUpTo(2 * n + 1) : n <= q => p <= q

ZeroStack == [arena_size |-> 0, arenas |-> <<>>, cur |-> 0]

ActiveOf(s) == s.arenas[s.cur + 1]
Active == ActiveOf(stack)

\* alloc_allocate(size, align_max): external, any free place.
BackingChunks(arenas, size) ==
  {a \in Bases : /\ a + size <= AddrEnd
                 /\ \A i \in DOMAIN arenas : \/ a + size <= arenas[i].beg
                                             \/ arenas[i].end <= a}

\* arenastack_init, as the set of stacks it may return.
InitStacks(cap) == {[arena_size |-> BitCeil(cap),
                     arenas |-> <<ArenaInit(a, BitCeil(cap))>>,
                     cur |-> 0] : a \in BackingChunks(<<>>, BitCeil(cap))}

\* The slack that lets any align_max-aligned chunk serve the request.
Needed(n, al) == n + (al - 1)

\* Seeded fault of InsertUnordered: the element in the way is overwritten.
InsertOverwriting(arenas, i, a) ==
  IF i = Len(arenas) THEN Append(arenas, a) ELSE [arenas EXCEPT ![i + 1] = a]

\* vec_insert_at_unordered: the element in the way moves to the end.
InsertUnordered(arenas, i, a) ==
  IF i = Len(arenas) THEN Append(arenas, a)
  ELSE Append([arenas EXCEPT ![i + 1] = a], arenas[i + 1])

SwapAt(arenas, i, j) == [arenas EXCEPT ![i + 1] = arenas[j + 1], ![j + 1] = arenas[i + 1]]

\* Indices of the retained arenas a request may move on to.
LargeEnough(s, need) ==
  {i \in (s.cur + 1) .. (Len(s.arenas) - 1) : need <= Capacity(s.arenas[i + 1])}

\* The slow path of rki_arenastack_allocate up to its last call: the first
\* retained arena that is large enough is swapped into place and cleared, or
\* else a new one is inserted there.
NextArena(s, need) ==
  LET c == s.cur + 1 IN
  IF LargeEnough(s, need) # {}
  THEN LET swapped == SwapAt(s.arenas, Min(LargeEnough(s, need)), c)
       IN {[s EXCEPT !.cur = c,
                     !.arenas = [swapped EXCEPT ![c + 1] = Cleared(@)]]}
  ELSE LET size == BitCeil(Max({need, s.arena_size}))
       IN {[s EXCEPT !.cur = c,
                     !.arenas = InsertUnordered(s.arenas, c, ArenaInit(a, size))]
             : a \in BackingChunks(s.arenas, size)}

\* Every stack rki_arenastack_allocate may serve the request from: a zero stack
\* is initialised first, and the active arena is left only when it is too full.
ServingStacks(n, al) ==
  UNION {IF Fits(ActiveOf(s), n, al) THEN {s} ELSE NextArena(s, Needed(n, al))
           : s \in IF stack.arena_size = 0
                     THEN InitStacks(BitCeil(Needed(n, al))) ELSE {stack}}

-----------------------------------------------------------------------------
\* Positions: (index of the arena, address), compared in that order.
AtOrBefore(m, s) == /\ s.arena_size # 0
                    /\ \/ m.idx < s.cur
                       \/ m.idx = s.cur /\ m.pos <= ActiveOf(s).cur

\* A mark beyond the current position is no longer valid; a null mark is.
MarksFor(s) == {m \in marks : m.pos = NULL \/ AtOrBefore(m, s)}

Blk(s, p, n, al) == [ptr |-> p, size |-> n, align |-> al, buf |-> ActiveOf(s).beg]

IndexOfBuf(s, buf) == CHOOSE i \in 0 .. (Len(s.arenas) - 1) : s.arenas[i + 1].beg = buf

\* The blocks that end before a mark, and so survive a rewind to it.
KeptBy(m) == {b \in live : LET i == IndexOfBuf(stack, b.buf)
                           IN i < m.idx \/ (i = m.idx /\ b.ptr + b.size <= m.pos)}

RoomForBlock == Cardinality(live) < MaxLive
RoomForMark  == Cardinality(marks) < MaxMarks

SetActive(s, a) == [s EXCEPT !.arenas[s.cur + 1] = a]

\* Arenas lo .. hi with their cursors at the beginning.
ClearRange(s, lo, hi) ==
  [s EXCEPT !.arenas = [i \in DOMAIN s.arenas |->
     IF i - 1 \in lo .. hi THEN Cleared(s.arenas[i]) ELSE s.arenas[i]]]

ClearedStack(s) == IF s.arena_size = 0 THEN s
                   ELSE [ClearRange(s, 0, s.cur) EXCEPT !.cur = 0]

\* Seeded fault of IsActiveTop: the check on the end of the block alone.
TopByEnd(b) == IsTopAllocation(Active, b.ptr, b.size)

\* rki_arenastack_is_active_top: also asks where the block starts, because the
\* buffer of the active arena may begin where the previous one ends.
IsActiveTop(b) == Active.beg <= b.ptr /\ IsTopAllocation(Active, b.ptr, b.size)

-----------------------------------------------------------------------------
Init == /\ stack = ZeroStack
        /\ live = {}
        /\ marks = {}
        /\ failed = FALSE

InitStack(cap) ==
  /\ stack = ZeroStack
  /\ stack' \in InitStacks(cap)
  /\ UNCHANGED <<live, marks, failed>>

\* rki_arenastack_allocate, giving the client one block and taking `lost` away
\* from it; its last call aborts if the chosen arena cannot serve the request.
Serve(n, al, lost) ==
  \E s \in ServingStacks(n, al) :
    LET a == ActiveOf(s) IN
    IF Fits(a, n, al)
    THEN /\ stack' = SetActive(s, Bumped(a, n, al))
         /\ live' = (live \ lost) \cup {Blk(s, Placed(a, al), n, al)}
         /\ UNCHANGED <<marks, failed>>
    ELSE /\ stack' = s
         /\ failed' = TRUE
         /\ UNCHANGED <<live, marks>>

\* arenastack_allocate and arenastack_new
Allocate(n, al) == RoomForBlock /\ Serve(n, al, {})

\* rki_arenastack_deallocate
Deallocate(b) ==
  /\ b.size > 0
  /\ stack' = IF IsActiveTop(b) THEN SetActive(stack, Resized(Active, b.size, 0)) ELSE stack
  /\ live' = live \ {b}
  /\ marks' = MarksFor(stack')
  /\ UNCHANGED failed

\* arenastack_try_resize, arenastack_try_extend and the top form.
TryResize(b, n) ==
  /\ IsActiveTop(b)
  /\ ResizeFits(Active, b.size, n)
  /\ stack' = SetActive(stack, Resized(Active, b.size, n))
  /\ live' = (live \ {b}) \cup {Blk(stack, b.ptr, n, b.align)}
  /\ marks' = MarksFor(stack')
  /\ UNCHANGED failed

\* rki_arenastack_reallocate: in place if it can, where it is if not growing,
\* otherwise elsewhere.
Reallocate(b, n) ==
  /\ b.size > 0 /\ n > 0
  /\ \/ TryResize(b, n)
     \/ /\ ~ (IsActiveTop(b) /\ ResizeFits(Active, b.size, n))
        /\ n <= b.size
        /\ live' = (live \ {b}) \cup {[b EXCEPT !.size = n]}
        /\ UNCHANGED <<stack, marks, failed>>
     \/ /\ ~ (IsActiveTop(b) /\ ResizeFits(Active, b.size, n))
        /\ n > b.size
        /\ Serve(n, b.align, {b})

\* arenastack_mark
Mark ==
  /\ RoomForMark
  /\ marks' = marks \cup {IF stack.arena_size = 0 THEN [pos |-> NULL, idx |-> 0]
                          ELSE [pos |-> Active.cur, idx |-> stack.cur]}
  /\ UNCHANGED <<stack, live, failed>>

\* arenastack_clear
Clear ==
  /\ stack' = ClearedStack(stack)
  /\ live' = {}
  /\ marks' = {m \in marks : m.pos = NULL}
  /\ UNCHANGED failed

\* The arenas in use whose consumed range holds the address, or ends there.
Holders(p) == {i \in 0 .. stack.cur :
                 LET a == stack.arenas[i + 1] IN p = a.cur \/ InRange(p, a.beg, a.cur)}

\* Seeded faults of Rewound: an emptied arena is never left, or the arena rewound
\* always is.
RewoundInPlace(i, p) ==
  [ClearRange(stack, i + 1, stack.cur) EXCEPT !.arenas[i + 1].cur = p, !.cur = i]
RewoundTooFar(i, p) ==
  [ClearRange(stack, i + 1, stack.cur) EXCEPT
     !.arenas[i + 1].cur = p, !.cur = IF i > 0 THEN i - 1 ELSE i]

\* The loop of arenastack_rewind_to: from the active arena down, arenas that do
\* not hold the mark are cleared; one that is empty afterwards is left.
Rewound(i, p) ==
  LET s == [ClearRange(stack, i + 1, stack.cur) EXCEPT !.arenas[i + 1].cur = p]
  IN [s EXCEPT !.cur = IF i > 0 /\ IsEmpty(s.arenas[i + 1]) THEN i - 1 ELSE i]

\* arenastack_rewind_to
RewindTo(m) ==
  IF m.pos = NULL THEN Clear
  ELSE IF Holders(m.pos) = {}
  THEN /\ stack' = ClearRange(stack, 0, stack.cur)
       /\ failed' = TRUE
       /\ UNCHANGED <<live, marks>>
  ELSE /\ stack' = Rewound(Max(Holders(m.pos)), m.pos)
       /\ live' = KeptBy(m)
       /\ marks' = {k \in MarksFor(stack') :
                      k.idx < m.idx \/ (k.idx = m.idx /\ k.pos <= m.pos)}
       /\ UNCHANGED failed

\* arenastack_release
Release ==
  /\ stack' = ZeroStack
  /\ live' = {}
  /\ marks' = {}
  /\ UNCHANGED failed

Next ==
  /\ ~ failed
  /\ \/ \E cap \in InitSizes : InitStack(cap)
     \/ \E n \in Sizes, al \in Aligns : Allocate(n, al)
     \/ \E b \in live : Deallocate(b)
     \/ \E b \in live, n \in Sizes : TryResize(b, n)
     \/ \E b \in live, n \in Sizes : Reallocate(b, n)
     \/ Mark
     \/ \E m \in marks : RewindTo(m)
     \/ Clear
     \/ Release

Spec == Init /\ [][Next]_vars

-----------------------------------------------------------------------------
\* The struct and the ghosts have their shape, and cur indexes the vector.
TypeOK ==
  /\ stack.arena_size \in Nat /\ stack.cur \in Nat
  /\ \A i \in DOMAIN stack.arenas : /\ stack.arenas[i] \in ArenaRec
                                    /\ stack.arenas[i].beg <= stack.arenas[i].cur
                                    /\ stack.arenas[i].cur <= stack.arenas[i].end
  /\ IF stack.arena_size = 0 THEN stack = ZeroStack ELSE stack.cur < Len(stack.arenas)
  /\ \A b \in live : b.ptr \in Nat /\ b.size \in Sizes /\ b.align \in Aligns
  /\ failed \in BOOLEAN

\* The stack serves its valid callers: neither the final arena_allocate of the slow path nor the search of a rewind
\* to a valid mark ever reaches its abort: the slack in `needed` covers any
\* alignment, and every valid mark lies in the consumed range of some arena.
NeverFails == ~ failed

\* Nor is a block forgotten: every one lies in a retained buffer; if it has any bytes, in that of an arena
\* in use and below its cursor: arenas reordered, reused and cleared behind the
\* active one hold no block.
LiveConsumed ==
  /\ TypeOK /\ NeverFails
  /\ \A b \in live : \E i \in DOMAIN stack.arenas :
    LET a == stack.arenas[i] IN
    /\ a.beg = b.buf /\ a.beg <= b.ptr /\ b.ptr + b.size <= a.end
    /\ b.size > 0 => i <= stack.cur + 1 /\ b.ptr + b.size <= a.cur

\* A stack keeps the promise of the Allocator interface.
ImplementsBlocks == Contract!Spec

Buffers == {[beg |-> stack.arenas[i].beg, end |-> stack.arenas[i].end] : i \in DOMAIN stack.arenas}

\* Only arenastack_release gives buffers up: swapping and inserting descriptors
\* loses none of them and duplicates none.
BuffersKept == [][Release \/ (Buffers \subseteq Buffers' /\ Cardinality(Buffers') = Len(stack'.arenas))]_vars

\* Rewinding to m restores the saved position, or the end of the preceding arena
\* when that position is the start of a later one: everything allocated since is
\* free again.
Reclaims(m) ==
  LET a == stack.arenas[m.idx + 1] IN
  IF m.idx > 0 /\ m.pos = a.beg
  THEN stack'.cur = m.idx - 1
  ELSE stack'.cur = m.idx /\ ActiveOf(stack').cur = m.pos

\* The buffer of an arena used after the one of m touches that one.
Touched(m) ==
  \E i \in (m.idx + 1) .. stack.cur :
    LET a == stack.arenas[m.idx + 1] b == stack.arenas[i + 1]
    IN  b.end = a.beg \/ a.end = b.beg

\* arenastack_rewind_to "reclaims allocations made after a saved position", as its
\* documentation says, through arenas reordered, reused and left, except where
\* buffers touch: there the position may be the cursor of a later arena too, at which
\* the search from the active arena down stops.
RewindReclaimsApart ==
  [][\A m \in marks : RewindTo(m) /\ m.pos # NULL /\ ~ Touched(m) => Reclaims(m)]_vars
=============================================================================
