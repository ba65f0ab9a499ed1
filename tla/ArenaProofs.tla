---------------------------- MODULE ArenaProofs ----------------------------
(***************************************************************************)
(* For every buffer, every set of request sizes and every set of           *)
(* alignments, an arena never hands out a byte twice and implements the    *)
(* Allocator interface.                                                    *)
(*                                                                         *)
(* The inductive invariant is TypeOK, LiveConsumed, LiveDisjoint,          *)
(* LiveAligned and MarksReachable.  LiveDisjoint alone is not inductive: a *)
(* bump is clear of the live blocks only because they all lie below the cursor, and they    *)
(* stay below it only because the block that is shrunk or freed at the top *)
(* is, being disjoint from the others, above them.                         *)
(***************************************************************************)
EXTENDS Arena, TLAPS

LiveAligned == \A b \in live : b.ptr % b.align = 0

IInv == TypeOK /\ LiveConsumed /\ LiveDisjoint /\ LiveAligned /\ MarksReachable

USE DEF NULL

-----------------------------------------------------------------------------
\* rk_align_pad: padding is a natural number and reaches a multiple.
LEMMA PadNat == ASSUME NEW p \in Nat, NEW al \in Nat \ {0}
                PROVE  AlignPad(p, al) \in Nat
BY DEF AlignPad

(* The padding makes the place a multiple of the alignment.                   *)
LEMMA PadAligns == ASSUME NEW p \in Nat, NEW al \in Nat \ {0}
                   PROVE  (p + AlignPad(p, al)) % al = 0
<1> DEFINE q == (-p) \div al
           r == (-p) % al
<1>1. -p = al * q + r /\ q \in Int /\ r \in Nat
  OBVIOUS
<1>2. p + r = al * (-q)
  BY <1>1
<1>3. \A k \in Int : (al * k) % al = 0
  OBVIOUS
<1>4. QED
  BY <1>1, <1>2, <1>3 DEF AlignPad

\* arena_try_allocate: what fits is placed at an aligned address above the old
\* cursor and inside the buffer, and the new cursor is its end.
LEMMA BumpPlaces ==
  ASSUME TypeOK, NEW n \in Nat, NEW al \in Nat \ {0}, Fits(arena, n, al)
  PROVE  /\ arena.beg # NULL
         /\ Placed(arena, al) \in Nat
         /\ Placed(arena, al) % al = 0
         /\ arena.cur <= Placed(arena, al)
         /\ Bumped(arena, n, al) = [arena EXCEPT !.cur = Placed(arena, al) + n]
         /\ Placed(arena, al) + n <= arena.end
<1>1. arena.cur \in Nat /\ arena.beg \in Nat /\ arena.end \in Nat
  BY DEF TypeOK, ArenaRec
<1>2. AlignPad(arena.cur, al) \in Nat /\ (arena.cur + AlignPad(arena.cur, al)) % al = 0
  BY <1>1, PadNat, PadAligns
<1>3. arena.beg # NULL
  BY <1>1 DEF TypeOK, Fits
<1>4. n <= arena.end - arena.cur - AlignPad(arena.cur, al)
  BY <1>1, <1>2, <1>3 DEF Fits, Remaining
<1>5. QED
  BY <1>1, <1>2, <1>3, <1>4 DEF Placed, Bumped

\* arena_try_resize_top: the start stays, the cursor becomes the new end.
LEMMA ResizeMovesCursor ==
  ASSUME TypeOK, LiveConsumed, NEW b \in live, NEW n \in Nat,
         IsTopAllocation(arena, b.ptr, b.size), ResizeFits(arena, b.size, n)
  PROVE  /\ Resized(arena, b.size, n) = [arena EXCEPT !.cur = b.ptr + n]
         /\ b.ptr + n \in Nat
         /\ arena.beg <= b.ptr /\ b.ptr + n <= arena.end
<1>1. /\ arena.cur \in Nat /\ arena.beg \in Nat /\ arena.end \in Nat
      /\ b.ptr \in Nat /\ b.size \in Nat
  BY ArenaAssumption DEF TypeOK, ArenaRec, Block
<1>2. arena.beg # NULL /\ arena.beg <= b.ptr
  BY DEF LiveConsumed
<1>3. (arena.cur - b.size) + n = b.ptr + n
  BY <1>1 DEF IsTopAllocation
<1>4. b.ptr + n <= arena.end
  BY <1>1, <1>2 DEF IsTopAllocation, ResizeFits, Remaining
<1>5. QED
  BY <1>1, <1>2, <1>3, <1>4 DEF Resized

-----------------------------------------------------------------------------
\* Marks that are not above the new cursor stay where a rewind finds them.
LEMMA MarksKeep ==
  ASSUME IInv, arena' \in ArenaRec, arena'.beg = arena.beg,
         marks' \subseteq MarksUpTo(arena'.cur)
  PROVE  MarksReachable' /\ marks' \subseteq Nat
BY DEF IInv, TypeOK, ArenaRec, MarksReachable, MarksUpTo, InRange

\* The three ways in which the set of live blocks changes.  A new block that
\* lies between the old cursor and the new one keeps the invariant;
LEMMA BumpKeeps ==
  ASSUME IInv, NEW S \in SUBSET live, NEW n \in Sizes, NEW al \in Aligns,
         Fits(arena, n, al), arena' = Bumped(arena, n, al),
         live' = S \cup {Blk(Placed(arena, al), n, al)},
         marks' \subseteq MarksUpTo(arena'.cur)
  PROVE  IInv' /\ Contract!Placeable(Blk(Placed(arena, al), n, al), live)
<1> DEFINE p == Placed(arena, al)
           c == Blk(p, n, al)
<1>1. n \in Nat /\ al \in Nat \ {0}
  BY ArenaAssumption
<1>2. /\ arena.beg # NULL /\ p \in Nat /\ p % al = 0 /\ arena.cur <= p
      /\ arena' = [arena EXCEPT !.cur = p + n] /\ p + n <= arena.end
  BY <1>1, BumpPlaces DEF IInv
<1>3. /\ arena \in ArenaRec /\ arena.beg <= arena.cur /\ arena.cur <= arena.end
      /\ arena' \in ArenaRec /\ arena'.beg = arena.beg /\ arena'.end = arena.end
      /\ arena'.cur = p + n
  BY <1>1, <1>2 DEF IInv, TypeOK, ArenaRec
<1>4. c \in Block /\ c.ptr = p /\ c.size = n /\ c.align = al
  BY <1>1, <1>2 DEF Block, Blk
<1>5. \A b \in live : b.ptr \in Nat /\ b.size \in Nat
  BY ArenaAssumption DEF IInv, TypeOK, Block
<1>6. \A b \in live : Contract!Disjoint(c, b) /\ Contract!Disjoint(b, c)
  BY <1>1, <1>2, <1>3, <1>4, <1>5 DEF IInv, LiveConsumed, Contract!Disjoint, Contract!BlockEnd, ArenaRec
<1>7. TypeOK' /\ MarksReachable'
  BY <1>1, <1>2, <1>3, <1>4, MarksKeep DEF IInv, TypeOK, ArenaRec
<1>8. LiveConsumed'
  BY <1>1, <1>2, <1>3, <1>4, <1>5 DEF IInv, LiveConsumed, ArenaRec
<1>9. LiveDisjoint'
  BY <1>6 DEF IInv, LiveDisjoint, Contract!AllDisjoint
<1>10. LiveAligned'
  BY <1>2, <1>4 DEF IInv, LiveAligned
<1>11. QED
  BY <1>2, <1>4, <1>6, <1>7, <1>8, <1>9, <1>10 DEF IInv, Contract!Placeable, Contract!Aligned

\* a block that changes size where it is keeps the invariant, because a top
\* block has every other block below it;
LEMMA ResizeKeeps ==
  ASSUME IInv, NEW b \in live, NEW n \in Sizes,
         \/ /\ IsTopAllocation(arena, b.ptr, b.size)
            /\ ResizeFits(arena, b.size, n)
            /\ arena' = Resized(arena, b.size, n)
         \/ n <= b.size /\ arena' = arena,
         live' = (live \ {b}) \cup {[b EXCEPT !.size = n]},
         marks' \subseteq MarksUpTo(arena'.cur)
  PROVE  IInv' /\ Contract!Placeable([b EXCEPT !.size = n], live \ {b})
<1> DEFINE c == [b EXCEPT !.size = n]
<1>1. n \in Nat /\ Sizes \subseteq Nat
  BY ArenaAssumption
<1>2. \A x \in live : x \in Block /\ x.ptr \in Nat /\ x.size \in Nat
  BY <1>1 DEF IInv, TypeOK, Block
<1>3. c \in Block /\ c.ptr = b.ptr /\ c.size = n /\ c.align = b.align
  BY <1>2 DEF Block
<1>4. live' = (live \ {b}) \cup {c}
  OBVIOUS
<1> HIDE DEF c
<1>5. /\ arena.beg # NULL /\ arena.beg <= b.ptr /\ b.ptr + b.size <= arena.end
      /\ b.size > 0 => b.ptr + b.size <= arena.cur
  BY DEF IInv, LiveConsumed
<1>6. /\ arena.beg \in Nat /\ arena.cur \in Nat /\ arena.end \in Nat
      /\ arena.beg <= arena.cur /\ arena.cur <= arena.end
      /\ arena.beg = NULL => arena.end = NULL
      /\ arena \in ArenaRec
  BY DEF IInv, TypeOK, ArenaRec
<1>7. \A x \in live \ {b} : Contract!Disjoint(x, b)
  BY DEF IInv, LiveDisjoint, Contract!AllDisjoint
<1>8. LiveAligned'
  BY <1>4, <1>3 DEF IInv, LiveAligned
<1>9. CASE /\ IsTopAllocation(arena, b.ptr, b.size)
           /\ ResizeFits(arena, b.size, n)
           /\ arena' = Resized(arena, b.size, n)
  <2>1. /\ arena' = [arena EXCEPT !.cur = b.ptr + n]
        /\ b.ptr + n \in Nat /\ b.ptr + n <= arena.end
    BY <1>1, <1>9, ResizeMovesCursor DEF IInv
  <2>2. /\ arena' \in ArenaRec /\ arena'.beg = arena.beg /\ arena'.end = arena.end
        /\ arena'.cur = b.ptr + n
    BY <1>6, <2>1 DEF ArenaRec
  <2>3. \A x \in live \ {b} : x.size > 0 => x.ptr + x.size <= b.ptr
    <3> SUFFICES ASSUME NEW x \in live \ {b}, x.size > 0
                 PROVE  x.ptr + x.size <= b.ptr
      OBVIOUS
    <3>1. x.ptr + x.size <= arena.cur /\ arena.cur = b.ptr + b.size
      BY <1>9 DEF IInv, LiveConsumed, IsTopAllocation
    <3>2. b.size = 0 \/ x.ptr + x.size <= b.ptr \/ b.ptr + b.size <= x.ptr
      BY <1>7, <1>2 DEF Contract!Disjoint, Contract!BlockEnd
    <3>3. QED
      BY <1>2, <3>1, <3>2
  <2>4. \A x \in live \ {b} : Contract!Disjoint(x, c) /\ Contract!Disjoint(c, x)
    BY <1>1, <1>2, <1>3, <2>3 DEF Contract!Disjoint, Contract!BlockEnd
  <2>5. TypeOK' /\ MarksReachable'
    BY MarksKeep, <1>4, <1>1, <1>2, <1>3, <1>5, <1>6, <2>1, <2>2 DEF IInv, TypeOK
  <2>6. LiveConsumed'
    BY <1>4, <1>1, <1>2, <1>3, <1>5, <2>1, <2>2, <2>3 DEF IInv, LiveConsumed
  <2>7. LiveDisjoint'
    BY <1>4, <2>4 DEF IInv, LiveDisjoint, Contract!AllDisjoint
  <2>8. QED
    BY <1>1, <1>2, <1>3, <1>8, <2>4, <2>5, <2>6, <2>7 DEF IInv, LiveAligned, Contract!Placeable, Contract!Aligned, c
<1>10. CASE n <= b.size /\ arena' = arena
  <2>1. \A x \in live \ {b} : Contract!Disjoint(x, c) /\ Contract!Disjoint(c, x)
    BY <1>1, <1>2, <1>3, <1>7, <1>10 DEF Contract!Disjoint, Contract!BlockEnd
  <2>2. TypeOK' /\ MarksReachable'
    BY MarksKeep, <1>4, <1>3, <1>6, <1>10 DEF IInv, TypeOK
  <2>3. LiveConsumed'
    BY <1>4, <1>1, <1>2, <1>3, <1>5, <1>6, <1>10 DEF IInv, LiveConsumed
  <2>4. LiveDisjoint'
    BY <1>4, <2>1 DEF IInv, LiveDisjoint, Contract!AllDisjoint
  <2>5. QED
    BY <1>3, <1>8, <2>1, <2>2, <2>3, <2>4 DEF IInv, LiveAligned, Contract!Placeable, Contract!Aligned, c
<1>11. QED
  BY <1>9, <1>10

\* and blocks may be given up while the cursor moves to any place in the buffer
\* that is above the bytes of those that stay.
LEMMA DropKeeps ==
  ASSUME IInv, NEW cut \in Nat, arena.beg <= cut, cut <= arena.end,
         arena' = [arena EXCEPT !.cur = cut],
         live' \subseteq live, marks' \subseteq MarksUpTo(cut),
         \A b \in live' : b.size > 0 => b.ptr + b.size <= cut
  PROVE  IInv'
<1>1. TypeOK' /\ MarksReachable'
  BY MarksKeep DEF IInv, TypeOK, ArenaRec
<1>2. LiveConsumed'
  BY DEF IInv, TypeOK, ArenaRec, LiveConsumed
<1>3. LiveDisjoint' /\ LiveAligned'
  BY DEF IInv, LiveDisjoint, LiveAligned, Contract!AllDisjoint
<1>4. QED
  BY <1>1, <1>2, <1>3 DEF IInv

-----------------------------------------------------------------------------
(* The zeroed arena satisfies the invariant.                                  *)
LEMMA InitInv == Init => IInv
BY ArenaAssumption DEF Init, ArenaInit, IInv, TypeOK, ArenaRec, LiveConsumed, LiveDisjoint,
                       LiveAligned, MarksReachable, Contract!AllDisjoint

\* Every step keeps the invariant and is a step of the allocator contract.
LEMMA StepInv == IInv /\ [Next]_vars => IInv' /\ [Contract!Next]_live
<1> SUFFICES ASSUME IInv, [Next]_vars
             PROVE  IInv' /\ [Contract!Next]_live
  OBVIOUS
<1> USE DEF IInv
<1>1. /\ Sizes \subseteq Nat /\ Aligns \subseteq Nat \ {0}
      /\ \A b \in live : /\ b \in Block /\ b.ptr \in Nat /\ b.size \in Nat
                         /\ b.size \in Sizes /\ b.align \in Aligns
      /\ arena \in ArenaRec /\ arena.beg \in Nat /\ arena.cur \in Nat /\ arena.end \in Nat
      /\ arena.beg <= arena.cur /\ arena.cur <= arena.end
      /\ marks \subseteq Nat
  BY ArenaAssumption DEF TypeOK, Block, ArenaRec
<1>2. \A p : \A m \in MarksUpTo(p) : m \in marks /\ m <= p
  BY DEF MarksUpTo
<1>3. ASSUME NEW n \in Sizes, NEW al \in Aligns, Allocate(n, al)
      PROVE  IInv' /\ [Contract!Next]_live
  <2>1. IInv' /\ Contract!Placeable(Blk(Placed(arena, al), n, al), live)
    <3>1. marks' \subseteq MarksUpTo(arena'.cur)
      <4>1. \A m \in marks : m <= arena.cur
        BY <1>1 DEF MarksReachable, InRange
      <4>2. arena'.cur \in Nat /\ arena.cur <= arena'.cur
        BY <1>1, <1>3, BumpPlaces DEF Allocate, ArenaRec
      <4>3. QED
        BY <1>1, <1>3, <4>1, <4>2 DEF Allocate, MarksUpTo
    <3>2. QED
      BY <1>1, <1>3, <3>1, BumpKeeps DEF Allocate
  <2>2. Contract!Grant
    BY <1>3, <2>1 DEF Allocate, Contract!Grant
  <2>3. QED
    BY <2>1, <2>2 DEF Contract!Next
<1>4. ASSUME NEW b \in live, Deallocate(b)
      PROVE  IInv' /\ [Contract!Next]_live
  <2>1. live' = live \ {b} /\ marks' = MarksUpTo(arena'.cur) /\ b.size > 0
    BY <1>4 DEF Deallocate
  <2>2. CASE IsTopAllocation(arena, b.ptr, b.size)
    <3>1. arena' = [arena EXCEPT !.cur = b.ptr] /\ arena.beg <= b.ptr /\ b.ptr <= arena.end
      BY <1>1, <1>4, <2>2 DEF Deallocate, Resized, IsTopAllocation, LiveConsumed
    <3>2. ASSUME NEW x \in live', x.size > 0
          PROVE  x.ptr + x.size <= b.ptr
      <4>1. x \in live /\ x # b
        BY <2>1
      <4>2. x.ptr + x.size <= b.ptr \/ b.ptr + b.size <= x.ptr
        BY <2>1, <3>2, <4>1, <1>1 DEF LiveDisjoint, Contract!AllDisjoint, Contract!Disjoint, Contract!BlockEnd
      <4>3. x.ptr + x.size <= b.ptr + b.size
        BY <2>2, <3>2, <4>1 DEF LiveConsumed, IsTopAllocation
      <4>4. QED
        BY <1>1, <3>2, <4>1, <4>2, <4>3
    <3>3. IInv'
      BY <1>1, <2>1, <3>1, <3>2, DropKeeps
    <3>4. QED
      BY <2>1, <3>3 DEF Contract!Next, Contract!Discard
  <2>3. CASE ~ IsTopAllocation(arena, b.ptr, b.size)
    <3>1. arena' = [arena EXCEPT !.cur = arena.cur]
      BY <1>1, <1>4, <2>3 DEF Deallocate, ArenaRec
    <3>2. IInv'
      BY <1>1, <2>1, <3>1, DropKeeps DEF LiveConsumed
    <3>3. QED
      BY <2>1, <3>2 DEF Contract!Next, Contract!Discard
  <2>4. QED
    BY <2>2, <2>3
<1>5. ASSUME NEW b \in live, NEW n \in Sizes, Reallocate(b, n)
      PROVE  IInv' /\ [Contract!Next]_live
  <2>1. marks' \subseteq MarksUpTo(arena'.cur)
    BY <1>5 DEF Reallocate
  <2>2. CASE live' = (live \ {b}) \cup {[b EXCEPT !.size = n]}
             /\ \/ /\ IsTopAllocation(arena, b.ptr, b.size)
                   /\ ResizeFits(arena, b.size, n)
                   /\ arena' = Resized(arena, b.size, n)
                \/ n <= b.size /\ arena' = arena
    <3>1. IInv' /\ Contract!Placeable([b EXCEPT !.size = n], live \ {b})
      BY <2>1, <2>2, ResizeKeeps
    <3>2. [b EXCEPT !.size = n].align = b.align
      BY <1>1 DEF Block
    <3>3. Contract!Resize
      BY <2>2, <3>1, <3>2 DEF Contract!Resize
    <3>4. QED
      BY <3>1, <3>3 DEF Contract!Next
  <2>3. CASE /\ Fits(arena, n, b.align)
             /\ arena' = Bumped(arena, n, b.align)
             /\ live' = (live \ {b}) \cup {Blk(Placed(arena, b.align), n, b.align)}
    <3>1. IInv' /\ Contract!Placeable(Blk(Placed(arena, b.align), n, b.align), live)
      BY <1>1, <2>1, <2>3, BumpKeeps
    <3>2. Contract!Resize
      BY <2>3, <3>1 DEF Contract!Resize, Contract!Placeable, Blk
    <3>3. QED
      BY <3>1, <3>2 DEF Contract!Next
  <2>4. QED
    BY <1>5, <2>2, <2>3 DEF Reallocate
<1>6. ASSUME NEW b \in live, NEW n \in Sizes, TryResize(b, n)
      PROVE  IInv' /\ [Contract!Next]_live
  <2>1. IInv' /\ Contract!Placeable([b EXCEPT !.size = n], live \ {b})
    BY <1>6, ResizeKeeps DEF TryResize
  <2>2. [b EXCEPT !.size = n].align = b.align
    BY <1>1 DEF Block
  <2>3. Contract!Resize
    BY <1>6, <2>1, <2>2 DEF TryResize, Contract!Resize
  <2>4. QED
    BY <2>1, <2>3 DEF Contract!Next
<1>7. ASSUME Mark
      PROVE  IInv' /\ [Contract!Next]_live
  BY <1>1, <1>7 DEF Mark, TypeOK, LiveConsumed, MarksReachable, LiveDisjoint, LiveAligned, Contract!AllDisjoint
<1>8. ASSUME NEW m \in marks, RewindTo(m)
      PROVE  IInv' /\ [Contract!Next]_live
  <2>1. m \in Nat /\ arena.beg <= m /\ m <= arena.end
    BY <1>1 DEF MarksReachable, InRange
  <2>2. arena' = [arena EXCEPT !.cur = m]
    BY <1>1, <1>8 DEF RewindTo, ArenaRec
  <2>3. live' \subseteq live /\ marks' = MarksUpTo(m)
    BY <1>8 DEF RewindTo
  <2>4. IInv'
    BY <1>8, <2>1, <2>2, <2>3, DropKeeps DEF RewindTo
  <2>5. QED
    BY <2>3, <2>4 DEF Contract!Next, Contract!Discard
<1>9. ASSUME Clear
      PROVE  IInv' /\ [Contract!Next]_live
  <2>1. arena' = [arena EXCEPT !.cur = arena.beg] /\ live' = {} /\ marks' = {}
    BY <1>9 DEF Clear, Cleared
  <2>2. IInv'
    BY <1>1, <2>1, DropKeeps
  <2>3. QED
    BY <2>1, <2>2 DEF Contract!Next, Contract!Discard
<1>10. CASE UNCHANGED vars
  BY <1>10 DEF vars, TypeOK, LiveConsumed, MarksReachable, LiveDisjoint, LiveAligned, Contract!AllDisjoint
<1>11. QED
  BY <1>3, <1>4, <1>5, <1>6, <1>7, <1>8, <1>9, <1>10 DEF Next

\* An arena never hands out a byte twice, for any buffer, sizes and alignments:
\* the inductive invariant holds throughout.
THEOREM ArenaIsSafe == Spec => []ArenaSafe
<1>1. IInv => ArenaSafe
  BY DEF IInv, ArenaSafe
<1>2. QED
  BY <1>1, InitInv, StepInv, PTL DEF Spec

\* An arena implements the Allocator interface.
THEOREM ArenaImplementsBlocks == Spec => ImplementsBlocks
<1>1. Init => Contract!Init
  BY DEF Init, Contract!Init
<1>2. QED
  BY <1>1, InitInv, StepInv, PTL DEF Spec, ImplementsBlocks, Contract!Spec

\* Under the contract of rk_alloc.h, live blocks are pairwise disjoint.
THEOREM ContractDisjoint == Contract!Spec => []Contract!AllDisjoint
<1>1. Contract!Init => Contract!AllDisjoint
  BY DEF Contract!Init, Contract!AllDisjoint
<1>2. Contract!AllDisjoint /\ [Contract!Next]_live => Contract!AllDisjoint'
  <2> SUFFICES ASSUME Contract!AllDisjoint, [Contract!Next]_live
               PROVE  Contract!AllDisjoint'
    OBVIOUS
  <2>1. \A b, c : Contract!Disjoint(b, c) => Contract!Disjoint(c, b)
    BY DEF Contract!Disjoint
  <2>2. CASE Contract!Grant
    BY <2>1, <2>2 DEF Contract!Grant, Contract!Placeable, Contract!AllDisjoint
  <2>3. CASE Contract!Resize
    <3>1. PICK b \in live, c \in live' : /\ live' = (live \ {b}) \cup {c}
                                         /\ Contract!Placeable(c, live \ {b})
      BY <2>3 DEF Contract!Resize
    <3>2. QED
      BY <2>1, <3>1 DEF Contract!Placeable, Contract!AllDisjoint
  <2>4. CASE Contract!Discard
    BY <2>4 DEF Contract!Discard, Contract!AllDisjoint
  <2>5. CASE UNCHANGED live
    BY <2>5 DEF Contract!AllDisjoint
  <2>6. QED
    BY <2>2, <2>3, <2>4, <2>5 DEF Contract!Next
<1>3. QED
  BY <1>1, <1>2, PTL DEF Contract!Spec
=============================================================================
