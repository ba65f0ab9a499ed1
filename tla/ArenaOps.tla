------------------------------ MODULE ArenaOps ------------------------------
(***************************************************************************)
(* The state-free half of rk_arena.h: an Arena is a record of three        *)
(* addresses, beg <= cur <= end, and every operator below is one of the    *)
(* small functions that read a bump arena or compute its next cursor.      *)
(* Addresses are naturals and NULL is 0; the address space is unbounded,   *)
(* which the code may assume because every difference it forms lies inside *)
(* one backing buffer.                                                     *)
(***************************************************************************)
EXTENDS Integers

NULL == 0

ArenaRec == [beg : Nat, cur : Nat, end : Nat]

\* arena_init: a null buffer ignores its length.
ArenaInit(arr, len) ==
  [beg |-> arr, cur |-> arr, end |-> IF arr = NULL THEN NULL ELSE arr + len]

Cleared(a) == [a EXCEPT !.cur = a.beg]

Capacity(a)  == IF a.beg = NULL THEN 0 ELSE a.end - a.beg
Remaining(a) == IF a.beg = NULL THEN 0 ELSE a.end - a.cur
IsEmpty(a)   == a.beg = NULL \/ a.cur = a.beg

\* Seeded fault: pads by the misalignment instead of up to the next multiple.
PadByRemainder(p, align) == p % align

\* rk_align_pad: (-ptr) & (align - 1), for align a power of two.
AlignPad(p, align) == (-p) % align

\* The tests and the cursor of arena_try_allocate.
Fits(a, n, align) == /\ a.cur # NULL
                     /\ AlignPad(a.cur, align) <= Remaining(a)
                     /\ n <= Remaining(a) - AlignPad(a.cur, align)
Placed(a, align)  == a.cur + AlignPad(a.cur, align)
Bumped(a, n, align) == [a EXCEPT !.cur = Placed(a, align) + n]

\* arena_is_top_allocation: an end-position test, nothing else.
IsTopAllocation(a, p, size) == p + size = a.cur

\* Seeded fault: winds the cursor back over the old payload only.
ResizedToNothing(a, old, new) == [a EXCEPT !.cur = a.cur - old]

\* The test and the cursor of arena_try_resize_top.
ResizeFits(a, old, new) == /\ new <= Remaining(a) + old
                           /\ a.cur # NULL
Resized(a, old, new)    == [a EXCEPT !.cur = (a.cur - old) + new]

\* rk_ptr_in_range: half open.
InRange(p, lo, hi) == lo <= p /\ p < hi
=============================================================================
