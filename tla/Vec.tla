-------------------------------- MODULE Vec ---------------------------------
(***************************************************************************)
(* One Vec(T) and its client, which may also change the default allocator. *)
(* A call and its answer are one step; the client then takes the answer.   *)
(***************************************************************************)
EXTENDS VecOps

CONSTANTS Vals,      \* element values
          Allocs,    \* allocators
          Arrays,    \* the arrays the client passes
          MaxCap,    \* the largest capacity; beyond it the code aborts
          Nothing    \* no call

\* The kinds of calls that differ in what they promise.
Kinds == {"init", "from", "release", "clear", "reverse", "reserve", "shrink", "resize", "push_n",
          "insert_arr_at", "insert_at_unordered", "erase_at_n", "erase_at_unordered", "erase_if",
          "assign", "pop_n"}

\* What the client sees of a call, see Returns.
Calls == [op : Kinds, i : Nat, n : Nat, arr : Seq(Vals), keep : SUBSET (Vals \cup {Junk}),
          val : Vals \cup {Junk}]

ASSUME VecAssumption ==
  /\ Arrays \subseteq Seq(Vals) /\ MaxCap \in Nat \ {0}
  /\ Junk \notin Vals /\ Nothing \notin Calls

VARIABLES vec,        \* the client's variable of type Vec(T)
          alloc_ctx,  \* the default allocator
          call        \* what has just returned

vars == <<vec, alloc_ctx, call>>

Init == vec = NULL /\ alloc_ctx \in Allocs /\ call = Nothing

Sizes == 0 .. MaxCap

\* The call leaves v.  The fields a call has no argument for are zero or empty.
Returns(v, op, i, n, arr, keep, val) ==
  /\ call = Nothing
  /\ Cap(v) <= MaxCap
  /\ vec' = v
  /\ call' = [op |-> op, i |-> i, n |-> n, arr |-> arr, keep |-> keep, val |-> val]
  /\ UNCHANGED alloc_ctx

Plain(v, op) == Returns(v, op, 0, 0, <<>>, {}, Junk)

\* vec_init and vec_from.
InitVec(c, a) == vec = NULL /\ Plain(NewVec(CapMin1(c), a), "init")

From(arr, a) ==
  LET v == NewVec(CapMin1(Len(arr)), a)
  IN  /\ vec = NULL
      /\ Returns([CopyTo(v, 0, arr) EXCEPT !.count = Len(arr)], "from", 0, 0, arr, {}, Junk)

Release == Plain(NULL, "release")

Clear == Plain(IF vec = NULL THEN vec ELSE [vec EXCEPT !.count = 0], "clear")

ReverseAll == Plain(Reversed(vec), "reverse")

ReserveCap(c) == Plain(Reserve(vec, c, alloc_ctx), "reserve")

\* Seeded fault of Shrink: an empty vector gives its block back.
ShrinkAway ==
  \/ Plain(IF Count(vec) = 0 THEN NULL ELSE ShrinkTo(vec, BitCeil(Count(vec))), "shrink")
  \/ Plain(IF Count(vec) = 0 THEN NULL ELSE ShrinkTo(vec, CapMin1(Count(vec))), "shrink")

Shrink ==
  \/ Plain(ShrinkTo(vec, BitCeil(Count(vec))), "shrink")
  \/ Plain(ShrinkTo(vec, CapMin1(Count(vec))), "shrink")

ResizeTo(n) == Returns(Resize(vec, n, alloc_ctx), "resize", 0, n, <<>>, {}, Junk)

\* vec_push, and vec_push_unchecked where there is room.
PushOne(x) == Returns(Push(vec, x, alloc_ctx), "push_n", 0, 0, <<x>>, {}, Junk)

PushArr(arr) == Returns(PushN(vec, arr, alloc_ctx), "push_n", 0, 0, arr, {}, Junk)

\* vec_insert_at, vec_insert_arr_at and vec_insert_at_unordered.
InsertOne(i, x) ==
  i <= Count(vec)
  /\ Returns(InsertArr(Reserve1(vec, alloc_ctx), i, <<x>>), "insert_arr_at", i, 0, <<x>>, {}, Junk)

InsertMany(i, arr) ==
  /\ i <= Count(vec)
  /\ Returns(IF arr = <<>> THEN vec
             ELSE InsertArr(Reserve(vec, Count(vec) + Len(arr), alloc_ctx), i, arr),
             "insert_arr_at", i, 0, arr, {}, Junk)

InsertAnywhere(i, x) ==
  /\ i <= Count(vec)
  /\ Returns(InsertUnordered(Reserve1(vec, alloc_ctx), i, x),
             "insert_at_unordered", i, 0, <<x>>, {}, Junk)

EraseRange(i, n) ==
  /\ i + n <= Count(vec)
  /\ Returns(EraseAtN(vec, i, n), "erase_at_n", i, n, <<>>, {}, Junk)

EraseAnywhere(i) ==
  /\ i < Count(vec)
  /\ Returns(EraseUnordered(vec, i), "erase_at_unordered", i, 0, <<>>, {}, Junk)

EraseWhere(keep) == Returns(EraseIf(vec, keep), "erase_if", 0, 0, <<>>, keep, Junk)

AssignArr(arr) == Returns(Assign(vec, arr, alloc_ctx), "assign", 0, 0, arr, {}, Junk)

\* vec_pop and vec_pop_n, which return the elements, or the slots, given up.  The
\* code takes n off the count of a NULL vector too, for which n = 0 is allowed: if
\* the program gets over that write, nothing has changed.
Pop(n) ==
  /\ n <= Count(vec)
  /\ LET left == Count(vec) - n
     IN  Returns(IF vec = NULL THEN NULL ELSE [vec EXCEPT !.count = left], "pop_n", 0, n,
                 <<>>, {}, IF n = 1 THEN vec.mem[left] ELSE Junk)

SetContext(a) == call = Nothing /\ alloc_ctx' = a /\ UNCHANGED <<vec, call>>

Return == call # Nothing /\ call' = Nothing /\ UNCHANGED <<vec, alloc_ctx>>

Next ==
  \/ Release \/ Clear \/ ReverseAll \/ Shrink \/ Return
  \/ \E a \in Allocs : SetContext(a) \/ \E c \in Sizes : InitVec(c, a)
  \/ \E arr \in Arrays : PushArr(arr) \/ AssignArr(arr) \/ \E a \in Allocs : From(arr, a)
  \/ \E c \in Sizes : ReserveCap(c) \/ ResizeTo(c) \/ Pop(c)
  \/ \E x \in Vals : PushOne(x)
  \/ \E i \in Sizes :
       \/ EraseAnywhere(i)
       \/ \E x \in Vals : InsertOne(i, x) \/ InsertAnywhere(i, x)
       \/ \E arr \in Arrays : InsertMany(i, arr)
       \/ \E n \in Sizes : EraseRange(i, n)
  \/ \E keep \in SUBSET (Vals \cup {Junk}) : EraseWhere(keep)

Spec == Init /\ [][Next]_vars

-----------------------------------------------------------------------------
\* The header describes the block, and a block is never empty: growing doubles
\* the capacity without a test for zero.
TypeOK ==
  /\ alloc_ctx \in Allocs
  /\ vec # NULL => /\ DOMAIN vec.mem = 0 .. vec.cap - 1
                   /\ vec.cap \in 1 .. MaxCap /\ vec.count \in 0 .. vec.cap
                   /\ vec.alloc \in Allocs

Abstract == INSTANCE List WITH Elements <- Vals \cup {Junk}, items <- Contents(vec)

\* Every call does to the elements what its name says: what the two copies move
\* and overwrite, and the slots that are left over, do not show.
ImplementsList == Abstract!Spec

\* The allocator of a vector stays the one it was bound to until the client
\* releases it, however empty it becomes and whatever alloc_ctx is meanwhile: the
\* block goes back to the allocator it came from.
AllocatorKept ==
  [][vec # NULL => IF call' # Nothing /\ call'.op = "release" THEN vec' = NULL
                   ELSE vec' # NULL /\ vec'.alloc = vec.alloc]_vars
=============================================================================
