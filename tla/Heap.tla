-------------------------------- MODULE Heap --------------------------------
(***************************************************************************)
(* One Heap(T) of rk_heap.h over the vector of VecOps, and its client.  A   *)
(* value in hand moves a hole up or down the tree until it fits.            *)
(***************************************************************************)
EXTENDS VecOps

CONSTANTS Elements,   \* the values of type T
          Arrays,     \* the arrays the client passes
          Alloc,      \* the allocator
          Prio(_),    \* the order of CMP_FUN
          MaxCount,   \* bound on the elements held
          None        \* no element

ASSUME HeapAssumption ==
  /\ \A e \in Elements : Prio(e) \in Nat
  /\ Arrays \subseteq Seq(Elements) /\ MaxCount \in Nat \ {0}
  /\ Junk \notin Elements /\ None \notin Elements

-----------------------------------------------------------------------------
Parent(i) == (i - 1) \div 2

\* Seeded fault of LesserChild: the last leaf is not looked at.
LesserChildLeft(mem, i, n) ==
  LET l == 2 * i + 1
  IN  IF l + 2 < n /\ Prio(mem[l + 1]) < Prio(mem[l]) THEN l + 1 ELSE l

\* The child of i that has to stay above the other; the right one may be missing.
LesserChild(mem, i, n) ==
  LET l == 2 * i + 1
  IN  IF l + 1 < n /\ Prio(mem[l + 1]) < Prio(mem[l]) THEN l + 1 ELSE l

\* rki_heap_sift_down
RECURSIVE SiftDown(_, _, _, _)
SiftDown(mem, i, value, n) ==
  LET child == LesserChild(mem, i, n)
  IN  IF i < n \div 2 /\ Prio(value) > Prio(mem[child])
      THEN SiftDown([mem EXCEPT ![i] = mem[child]], child, value, n)
      ELSE [mem EXCEPT ![i] = value]

\* The loop of heap_push.
RECURSIVE SiftUp(_, _, _)
SiftUp(mem, i, value) ==
  IF i > 0 /\ Prio(value) < Prio(mem[Parent(i)])
  THEN SiftUp([mem EXCEPT ![i] = mem[Parent(i)]], Parent(i), value)
  ELSE [mem EXCEPT ![i] = value]

\* The loop of rki_heap_heapify over the places below i, the highest first.
RECURSIVE HeapifyBelow(_, _, _)
HeapifyBelow(mem, i, n) ==
  IF i = 0 THEN mem ELSE HeapifyBelow(SiftDown(mem, i - 1, mem[i - 1], n), i - 1, n)

Heapify(v) ==
  IF v = NULL THEN v ELSE [v EXCEPT !.mem = HeapifyBelow(@, v.count \div 2, v.count)]

\* heap_push
Pushed(v, x, ctx) ==
  LET r == Push(v, x, ctx) IN [r EXCEPT !.mem = SiftUp(@, r.count - 1, x)]

\* heap_pop: the last element fills the hole at the top.
WithoutTop(v) ==
  LET n == v.count - 1
  IN  [v EXCEPT !.count = n, !.mem = IF n > 0 THEN SiftDown(@, 0, v.mem[n], n) ELSE @]

\* heap_replace_top
TopReplaced(v, x) == [v EXCEPT !.mem = SiftDown(@, 0, x, v.count)]

\* Seeded fault of Filtered: the order is taken to survive erasure.
FilteredOnly(v, keep) == EraseIf(v, keep)

\* heap_erase_if: the order is restored only if something was erased.
Filtered(v, keep) ==
  LET r == EraseIf(v, keep) IN IF Count(r) # Count(v) THEN Heapify(r) ELSE r

-----------------------------------------------------------------------------
VARIABLES data,   \* the vector
          out     \* what the last call returned

vars == <<data, out>>

Init == data = NULL /\ out = None

\* The call leaves v and returns x.
Leaves(v, x) == Count(v) <= MaxCount /\ data' = v /\ out' = x

\* heap_init; a zero-initialised heap is the initial state.
InitHeap(cap) == data = NULL /\ Leaves(NewVec(CapMin1(cap), Alloc), None)

\* heap_from, and heap_adopt of a vector that holds arr in cap slots.
From(arr) ==
  data = NULL /\ Leaves(Heapify(PushN(NewVec(CapMin1(Len(arr)), Alloc), arr, Alloc)), None)

Adopt(arr, cap) ==
  /\ data = NULL /\ cap > 0 /\ cap >= Len(arr)
  /\ Leaves(Heapify(PushN(NewVec(cap, Alloc), arr, Alloc)), None)

AssignArr(arr) == Leaves(Heapify(Assign(data, arr, Alloc)), None)

Extend(arr) == Leaves(Heapify(PushN(data, arr, Alloc)), None)

PushOne(x) == Leaves(Pushed(data, x, Alloc), None)

\* heap_pop, and heap_try_pop where there is something to pop.
Pop == Count(data) > 0 /\ Leaves(WithoutTop(data), data.mem[0])

TryPopEmpty == Count(data) = 0 /\ Leaves(data, None)

ReplaceTop(x) == Count(data) > 0 /\ Leaves(TopReplaced(data, x), data.mem[0])

Peek == Count(data) > 0 /\ Leaves(data, data.mem[0])

EraseWhere(keep) == Leaves(Filtered(data, keep), None)

Clear == Leaves(IF data = NULL THEN data ELSE [data EXCEPT !.count = 0], None)

Release == Leaves(NULL, None)

ReserveCap(cap) == Leaves(Reserve(data, cap, Alloc), None)

ShrinkToFit == Leaves(ShrinkTo(data, BitCeil(Count(data))), None)

Sizes == 0 .. MaxCount

Next ==
  \/ Pop \/ TryPopEmpty \/ Peek \/ Clear \/ Release \/ ShrinkToFit
  \/ \E cap \in Sizes : InitHeap(cap) \/ ReserveCap(cap)
  \/ \E arr \in Arrays : \/ From(arr) \/ AssignArr(arr) \/ Extend(arr)
                         \/ \E cap \in Sizes : Adopt(arr, cap)
  \/ \E x \in Elements : PushOne(x) \/ ReplaceTop(x)
  \/ \E keep \in SUBSET Elements : EraseWhere(keep)

Spec == Init /\ [][Next]_vars

-----------------------------------------------------------------------------
\* The vector of a heap has a slot, and every element it counts was written.
TypeOK ==
  /\ out \in Elements \cup {None}
  /\ data # NULL => /\ data.cap > 0 /\ data.count \in 0 .. data.cap
                    /\ \A i \in 0 .. data.count - 1 : data.mem[i] \in Elements

\* No element is smaller than its parent: every call leaves the heap in order,
\* those that put many elements in or take many out with one repair at the end.
HeapOrder ==
  /\ TypeOK
  /\ \A i \in 1 .. Count(data) - 1 : Prio(data.mem[Parent(i)]) <= Prio(data.mem[i])

Abstract == INSTANCE PrioQueue WITH bag <- [e \in Elements |->
              Cardinality({i \in 1 .. Count(data) : Contents(data)[i] = e})]

\* The heap is a priority queue: what peek, pop and replace_top return is least,
\* and moving the hole neither loses nor doubles an element.
ImplementsQueue == Abstract!Spec
=============================================================================
