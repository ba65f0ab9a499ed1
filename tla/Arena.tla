------------------------------- MODULE Arena -------------------------------
(***************************************************************************)
(* rk_arena.h: a bump allocator over one borrowed buffer, used directly    *)
(* (arena_allocate, arena_try_resize, marks) and through the allocator     *)
(* vtable (rki_arena_allocate / _reallocate / _deallocate).                *)
(*                                                                         *)
(* `arena` is the code's state.  `live` and `marks` are the client's: the  *)
(* blocks it may use and the marks it may rewind to, by the contract of    *)
(* the header.  The code sees neither; it trusts the sizes it is passed.   *)
(* A request whose failure reaches RK_ARENA_FAIL aborts the program and    *)
(* has no successor state.                                                 *)
(***************************************************************************)
EXTENDS ArenaOps, FiniteSets

CONSTANTS Starts,     \* possible addresses of the borrowed buffer (may hold NULL)
          Cap,        \* its length in bytes
          Sizes,      \* request sizes
          Aligns,     \* request alignments
          MaxLive,    \* bound: blocks the client holds at once
          MaxMarks    \* bound: marks the client holds at once

ASSUME ArenaAssumption == /\ Starts \subseteq Nat
                          /\ Cap \in Nat
                          /\ Sizes \subseteq Nat
                          /\ Aligns \subseteq Nat \ {0}

VARIABLES arena, live, marks

vars == <<arena, live, marks>>

Contract == INSTANCE Blocks

Block == [ptr : Nat, size : Sizes, align : Aligns]

Blk(p, n, al) == [ptr |-> p, size |-> n, align |-> al]

\* A mark above the cursor is no longer valid (arena_rewind_to's contract).
MarksUpTo(p) == {m \in marks : m <= p}

RoomForBlock == Cardinality(live) < MaxLive
RoomForMark  == Cardinality(marks) < MaxMarks

-----------------------------------------------------------------------------
Init == /\ \E s \in Starts : arena = ArenaInit(s, Cap)
        /\ live = {}
        /\ marks = {}

\* arena_allocate, rki_arena_allocate, and arena_try_allocate when it fits.
Allocate(n, al) ==
  /\ RoomForBlock
  /\ Fits(arena, n, al)
  /\ arena' = Bumped(arena, n, al)
  /\ live' = live \cup {Blk(Placed(arena, al), n, al)}
  /\ UNCHANGED marks

\* rki_arena_deallocate: only the top block gives its bytes back.  The typed
\* wrappers never pass on a null pointer or a zero size.
Deallocate(b) ==
  /\ b.size > 0
  /\ arena' = IF IsTopAllocation(arena, b.ptr, b.size)
                THEN Resized(arena, b.size, 0) ELSE arena
  /\ live' = live \ {b}
  /\ marks' = MarksUpTo(arena'.cur)

\* rki_arena_reallocate: in place at the top, in place when not growing, and
\* otherwise a fresh block, the old one left behind as consumed space.
Reallocate(b, n) ==
  /\ b.size > 0 /\ n > 0
  /\ \/ /\ IsTopAllocation(arena, b.ptr, b.size)
        /\ ResizeFits(arena, b.size, n)
        /\ arena' = Resized(arena, b.size, n)
        /\ live' = (live \ {b}) \cup {[b EXCEPT !.size = n]}
     \/ /\ ~ (IsTopAllocation(arena, b.ptr, b.size) /\ ResizeFits(arena, b.size, n))
        /\ n <= b.size
        /\ arena' = arena
        /\ live' = (live \ {b}) \cup {[b EXCEPT !.size = n]}
     \/ /\ ~ (IsTopAllocation(arena, b.ptr, b.size) /\ ResizeFits(arena, b.size, n))
        /\ n > b.size
        /\ Fits(arena, n, b.align)
        /\ arena' = Bumped(arena, n, b.align)
        /\ live' = (live \ {b}) \cup {Blk(Placed(arena, b.align), n, b.align)}
  /\ marks' = MarksUpTo(arena'.cur)

\* arena_try_resize and arena_try_extend; arena_resize_top and its try form are
\* the case of a block already known to be the top.  Zero sizes are allowed,
\* and a refusal leaves everything as it was.
TryResize(b, n) ==
  /\ IsTopAllocation(arena, b.ptr, b.size)
  /\ ResizeFits(arena, b.size, n)
  /\ arena' = Resized(arena, b.size, n)
  /\ live' = (live \ {b}) \cup {[b EXCEPT !.size = n]}
  /\ marks' = MarksUpTo(arena'.cur)

\* arena_mark
Mark ==
  /\ RoomForMark
  /\ marks' = marks \cup {arena.cur}
  /\ UNCHANGED <<arena, live>>

\* arena_rewind_to: the client loses the blocks that reach beyond the mark.
RewindTo(m) ==
  /\ arena' = IF m = arena.cur THEN arena ELSE [arena EXCEPT !.cur = m]
  /\ live' = {b \in live : b.ptr + b.size <= m}
  /\ marks' = MarksUpTo(m)

\* arena_clear
Clear ==
  /\ arena' = Cleared(arena)
  /\ live' = {}
  /\ marks' = {}

Next == \/ \E n \in Sizes, al \in Aligns : Allocate(n, al)
        \/ \E b \in live : Deallocate(b)
        \/ \E b \in live, n \in Sizes : Reallocate(b, n)
        \/ \E b \in live, n \in Sizes : TryResize(b, n)
        \/ Mark
        \/ \E m \in marks : RewindTo(m)
        \/ Clear

Spec == Init /\ [][Next]_vars

-----------------------------------------------------------------------------
\* The record stays a well-formed arena whose cursor never leaves the buffer,
\* and the ghosts stay blocks and marks.
TypeOK == /\ arena \in ArenaRec
          /\ arena.beg <= arena.cur /\ arena.cur <= arena.end
          /\ arena.beg = NULL => arena.end = NULL
          /\ live \subseteq Block
          /\ marks \subseteq Nat

\* Every byte the client may use lies in the buffer and below the cursor, so
\* that no later bump can hand it out again: the end-position test of
\* arena_is_top_allocation never mistakes one block for another, however blocks
\* were shrunk, moved, emptied and rewound before.
LiveConsumed == \A b \in live : /\ arena.beg # NULL
                                /\ arena.beg <= b.ptr
                                /\ b.ptr + b.size <= arena.end
                                /\ b.size > 0 => b.ptr + b.size <= arena.cur

\* Blocks never share a byte, through any mix of resizing, freeing out of
\* order, marking and rewinding.
LiveDisjoint == Contract!AllDisjoint

\* A mark the client may still use never trips the range assertion of
\* arena_rewind_to, whatever was freed, shrunk or rewound since it was taken.
MarksReachable == \A m \in marks : m = arena.cur \/ InRange(m, arena.beg, arena.cur)

\* What no sequence of legal calls may cost the client: the shape of the arena, its
\* bytes, their separation, and the use of its marks.
ArenaSafe == TypeOK /\ LiveConsumed /\ LiveDisjoint /\ MarksReachable

\* The arena keeps the promise of the Allocator interface: every step grants
\* an aligned block clear of the others, resizes one, or releases some.
ImplementsBlocks == Contract!Spec
=============================================================================
