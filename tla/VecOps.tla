------------------------------- MODULE VecOps -------------------------------
(***************************************************************************)
(* Vec(T) of rk_vec.h: NULL, or a header and a block of `cap` slots.  mem  *)
(* is the block; its slots keep what they held until they are written      *)
(* again, and a slot that was never written holds Junk.                    *)
(***************************************************************************)
EXTENDS Naturals, Sequences, FiniteSets, PowersOfTwo

CONSTANT Junk

\* The null pointer, which has none of the fields of a vector.
NULL == [null |-> TRUE]

\* vec_count and vec_cap accept NULL.
Count(v) == IF v = NULL THEN 0 ELSE v.count
Cap(v)   == IF v = NULL THEN 0 ELSE v.cap

Contents(v) == [i \in 1 .. Count(v) |-> v.mem[i - 1]]

\* Seeded fault of CapMin1: a capacity of zero is given as asked for.
CapMin1Exact(c) == c

\* rki_vec_cap_min1, and stdc_bit_ceil, which is 1 for 0.
CapMin1(c) == IF c = 0 THEN 1 ELSE c
BitCeil(n) == CHOOSE p \in PowersUpTo(2 * n + 1) :
                n <= p /\ \A q \in PowersUpTo(2 * n + 1) : n <= q => p <= q

\* rki_vec_init
NewVec(cap, alloc) ==
  [mem |-> [i \in 0 .. cap - 1 |-> Junk], cap |-> cap, count |-> 0, alloc |-> alloc]

\* RKI_VEC_CHANGE_CAP: alloc_reallocate keeps what fits.
ChangeCap(v, c) ==
  [v EXCEPT !.mem = [i \in 0 .. c - 1 |-> IF i < v.cap THEN v.mem[i] ELSE Junk], !.cap = c]

\* RKI_VEC_RESERVE_1 and RKI_VEC_RESERVE; a NULL vector binds alloc_ctx.
Reserve1(v, ctx) ==
  IF v = NULL THEN NewVec(1, ctx)
  ELSE IF v.count = v.cap THEN ChangeCap(v, 2 * v.cap) ELSE v

Reserve(v, c, ctx) ==
  IF v = NULL THEN IF c = 0 THEN NULL ELSE NewVec(c, ctx)
  ELSE IF c > v.cap THEN ChangeCap(v, c) ELSE v

\* rk_copy of arr to the slots from i on.
CopyTo(v, i, arr) ==
  [v EXCEPT !.mem = [j \in DOMAIN v.mem |->
                       IF j \in i .. i + Len(arr) - 1 THEN arr[j - i + 1] ELSE v.mem[j]]]

\* memmove of n slots from src to dst.
MoveTo(v, dst, src, n) ==
  [v EXCEPT !.mem = [j \in DOMAIN v.mem |->
                       IF j \in dst .. dst + n - 1 THEN v.mem[src + (j - dst)] ELSE v.mem[j]]]

PushN(v, arr, ctx) ==
  IF arr = <<>> THEN v
  ELSE LET r == Reserve(v, Count(v) + Len(arr), ctx)
       IN  [CopyTo(r, r.count, arr) EXCEPT !.count = @ + Len(arr)]

\* RKI_VEC_PUSH, for which the room is doubled.
Push(v, x, ctx) ==
  LET r == Reserve1(v, ctx) IN [CopyTo(r, r.count, <<x>>) EXCEPT !.count = @ + 1]

\* Seeded fault of InsertArr: one element too few is moved out of the way.
InsertArrShort(r, i, arr) ==
  [CopyTo(MoveTo(r, i + Len(arr), i, IF r.count = i THEN 0 ELSE r.count - i - 1), i, arr)
     EXCEPT !.count = @ + Len(arr)]

\* rki_vec_insert_arr_at
InsertArr(r, i, arr) ==
  [CopyTo(MoveTo(r, i + Len(arr), i, r.count - i), i, arr) EXCEPT !.count = @ + Len(arr)]

\* rki_vec_insert_at_unordered
InsertUnordered(r, i, x) ==
  LET moved == IF i < r.count THEN CopyTo(r, r.count, <<r.mem[i]>>) ELSE r
  IN  [CopyTo(moved, i, <<x>>) EXCEPT !.count = @ + 1]

\* rki_vec_erase_at_n
EraseAtN(v, i, n) ==
  IF n = 0 THEN v ELSE [MoveTo(v, i, i + n, v.count - n - i) EXCEPT !.count = @ - n]

\* vec_erase_at_unordered
EraseUnordered(v, i) == [CopyTo(v, i, <<v.mem[v.count - 1]>>) EXCEPT !.count = @ - 1]

\* RKI_VEC_ERASE_IF: the w-th element the predicate spares is written to slot w.
Kept(v, keep) == {i \in 0 .. v.count - 1 : v.mem[i] \in keep}

Rank(S, i) == Cardinality({j \in S : j < i})

EraseIf(v, keep) ==
  IF Count(v) = 0 THEN v
  ELSE LET S == Kept(v, keep)
       IN  [v EXCEPT !.mem = [j \in DOMAIN v.mem |->
                                IF j < Cardinality(S)
                                THEN v.mem[CHOOSE i \in S : Rank(S, i) = j]
                                ELSE v.mem[j]],
                     !.count = Cardinality(S)]

\* vec_reverse, which swaps the slots at the two ends until they meet.
Reversed(v) ==
  IF v = NULL THEN v
  ELSE [v EXCEPT !.mem = [j \in DOMAIN v.mem |->
                            IF j < v.count THEN v.mem[v.count - 1 - j] ELSE v.mem[j]]]

\* RKI_VEC_ASSIGN; it does nothing for NULL and an empty array.
Assign(v, arr, ctx) ==
  LET r == Reserve(v, Len(arr), ctx)
  IN  IF r = NULL THEN r ELSE [CopyTo(r, 0, arr) EXCEPT !.count = Len(arr)]

\* RKI_VEC_RESIZE
Resize(v, n, ctx) ==
  LET r == Reserve(v, n, ctx) IN IF r = NULL THEN r ELSE [r EXCEPT !.count = n]

\* RKI_VEC_SHRINK_TO_FIT and _EXACT
ShrinkTo(v, c) == IF v # NULL /\ c < v.cap THEN ChangeCap(v, c) ELSE v
=============================================================================
