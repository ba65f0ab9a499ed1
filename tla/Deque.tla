------------------------------- MODULE Deque --------------------------------
(***************************************************************************)
(* rk_deque.h: a ring buffer whose capacity is zero or a power of two.     *)
(*                                                                         *)
(* `deque` is RKI_DequeBase with the buffer as a function from slots to    *)
(* values; slots keep what they held until they are written again, and a   *)
(* slot of a new buffer holds Junk.  The mask `& (cap - 1)` is % cap, which *)
(* is the same for the capacities that RingOK admits.  `read` and `write`  *)
(* are the loop variables of deque_erase_if, zero outside of it; its       *)
(* predicate may not change the deque, so no call starts before it ends.   *)
(* `call` records the call that is running, with its arguments and what it *)
(* gave the client, until it returns: no code keeps it, and no call but    *)
(* deque_erase_if takes more than one step.                                *)
(***************************************************************************)
EXTENDS Naturals, Sequences, PowersOfTwo

CONSTANTS Vals,
          Nothing,  \* no call
          Junk,     \* content of a slot that was never written
          MinCap,   \* the least capacity of a buffer, 8 in the code
          MaxCap,   \* the largest capacity; beyond it the code aborts
          Arrays,   \* arguments of deque_push_front_n, deque_push_back_n, deque_assign
          Requests  \* arguments of deque_init and deque_reserve

Powers == PowersUpTo(MaxCap)

ASSUME DequeAssumption ==
  /\ MaxCap \in Nat /\ MinCap \in Powers
  /\ Arrays \subseteq Seq(Vals) /\ Requests \subseteq Nat
  /\ Junk \notin Vals
  /\ Nothing \notin [op : {"erase_if"}, val : Vals, keep : BOOLEAN]

VARIABLES deque, read, write, call

vars == <<deque, read, write, call>>

-----------------------------------------------------------------------------
ZeroDeque == [data |-> <<>>, head |-> 0, count |-> 0, cap |-> 0]

\* rki_deque_slot_index
SlotIndex(d, i) == (d.head + i) % d.cap

At(d, i) == d.data[SlotIndex(d, i)]

\* Seeded fault of RoundCap: the floor, and no rounding to a power of two.
FloorOnly(n) == IF n <= MinCap THEN MinCap ELSE n

\* stdc_bit_ceil(rk_MAX(8, n))
RoundCap(n) == CHOOSE c \in Powers : /\ MinCap <= c /\ n <= c
                                     /\ \A p \in Powers : MinCap <= p /\ n <= p => c <= p

\* Whether the code can have a buffer for n elements at all.
Possible(n) == \E c \in Powers : MinCap <= c /\ n <= c

\* Elements up to the end of the buffer; the rest has wrapped to its start.
FirstSegment(d) == IF d.count < d.cap - d.head THEN d.count ELSE d.cap - d.head

\* rki_deque_realloc_to
ReallocTo(d, newcap) ==
  [d EXCEPT !.data = [j \in 0 .. (newcap - 1) |->
                        IF j < FirstSegment(d) THEN d.data[d.head + j]
                        ELSE IF j < d.count THEN d.data[j - FirstSegment(d)]
                        ELSE Junk],
            !.head = 0, !.cap = newcap]

\* rki_deque_reserve
Reserved(d, n) == IF n <= d.cap THEN d ELSE ReallocTo(d, RoundCap(n))

\* Seeded fault of Grown: one slot is always kept free.
GrownEarly(d) ==
  IF d.count + 1 >= d.cap THEN Reserved(d, IF d.cap # 0 THEN d.cap * 2 ELSE MinCap) ELSE d

\* rki_deque_grow_one
Grown(d) == IF d.count = d.cap THEN Reserved(d, IF d.cap # 0 THEN d.cap * 2 ELSE MinCap) ELSE d

\* rki_deque_copy_in
CopyIn(d, start, s) ==
  LET first == IF d.cap - start < Len(s) THEN d.cap - start ELSE Len(s)
  IN [d EXCEPT !.data = [j \in 0 .. (d.cap - 1) |->
        IF start <= j /\ j < start + first THEN s[j - start + 1]
        ELSE IF j < Len(s) - first THEN s[first + j + 1]
        ELSE d.data[j]]]

\* rki_deque_push_back_n; nothing at all for an empty array
PushedBack(d, s) ==
  IF s = <<>> THEN d
  ELSE LET r == Reserved(d, d.count + Len(s))
       IN [CopyIn(r, SlotIndex(r, r.count), s) EXCEPT !.count = @ + Len(s)]

\* rki_deque_push_front_n
PushedFront(d, s) ==
  IF s = <<>> THEN d
  ELSE LET r == Reserved(d, d.count + Len(s))
           h == (r.head + r.cap - Len(s)) % r.cap
       IN [CopyIn(r, h, s) EXCEPT !.head = h, !.count = @ + Len(s)]

Cleared(d) == [d EXCEPT !.head = 0, !.count = 0]

\* The reset of head when the last element goes.
Popped(d, h) == [d EXCEPT !.count = @ - 1, !.head = IF d.count = 1 THEN 0 ELSE h]

-----------------------------------------------------------------------------
Init == deque = ZeroDeque /\ read = 0 /\ write = 0 /\ call = Nothing

\* The call c makes the deque d of it; no other call is running.
Becomes(c, d) == /\ call = Nothing
                 /\ deque' = d
                 /\ call' = c
                 /\ UNCHANGED <<read, write>>

\* deque_init
InitDeque(n) == /\ deque = ZeroDeque /\ n > 0 /\ Possible(n)
                /\ Becomes([op |-> "init", n |-> n], ReallocTo(deque, RoundCap(n)))

\* rki_deque_push_front
PushFront(v) ==
  LET r == Grown(deque)
      h == (r.head + r.cap - 1) % r.cap IN
  /\ Possible(deque.count + 1)
  /\ Becomes([op |-> "push_front", val |-> v],
             [r EXCEPT !.head = h, !.count = @ + 1, !.data[h] = v])

\* rki_deque_push_back
PushBack(v) ==
  LET r == Grown(deque) IN
  /\ Possible(deque.count + 1)
  /\ Becomes([op |-> "push_back", val |-> v],
             [r EXCEPT !.data[SlotIndex(r, r.count)] = v, !.count = @ + 1])

PushFrontN(s) == /\ Possible(deque.count + Len(s))
                 /\ Becomes([op |-> "push_front_n", arr |-> s], PushedFront(deque, s))

PushBackN(s) == /\ Possible(deque.count + Len(s))
                /\ Becomes([op |-> "push_back_n", arr |-> s], PushedBack(deque, s))

\* rki_deque_assign
Assign(s) == /\ Possible(Len(s))
             /\ Becomes([op |-> "assign", arr |-> s], PushedBack(Cleared(deque), s))

\* rki_deque_pop_front, and rki_deque_try_pop_front: the client reads the slot
\* after the element has been removed.
PopFront ==
  LET d == Popped(deque, (deque.head + 1) % deque.cap) IN
  /\ deque.count > 0
  /\ Becomes([op |-> "pop_front", val |-> d.data[SlotIndex(deque, 0)]], d)

\* rki_deque_pop_back, rki_deque_try_pop_back
PopBack ==
  LET d == Popped(deque, deque.head) IN
  /\ deque.count > 0
  /\ Becomes([op |-> "pop_back", val |-> d.data[SlotIndex(deque, deque.count - 1)]], d)

Clear == Becomes([op |-> "clear"], Cleared(deque))

Release == Becomes([op |-> "release"], ZeroDeque)

\* rki_deque_reserve
Reserve(n) == /\ n <= deque.cap \/ Possible(n)
              /\ Becomes([op |-> "reserve", n |-> n], Reserved(deque, n))

\* rki_deque_shrink_to_fit
ShrinkToFit ==
  Becomes([op |-> "shrink"],
          IF deque.count = 0 THEN ZeroDeque
          ELSE IF RoundCap(deque.count) = deque.cap THEN deque
          ELSE ReallocTo(deque, RoundCap(deque.count)))

Erasing == call # Nothing /\ call.op = "erase_if"

\* Every call but deque_erase_if is back with its client after its one step.
Return == /\ call # Nothing /\ ~ Erasing
          /\ call' = Nothing
          /\ UNCHANGED <<deque, read, write>>

\* deque_erase_if up to its loop; it returns at once if there is no element.
EraseStart == deque.count > 0 /\ Becomes([op |-> "erase_if"], deque)

\* One iteration: the predicate is shown an element, and it is kept or not.
EraseStep(keep) ==
  /\ Erasing /\ read < deque.count
  /\ call' = [op |-> "erase_if", val |-> At(deque, read), keep |-> keep]
  /\ read' = read + 1
  /\ IF keep
     THEN /\ deque' = [deque EXCEPT !.data[SlotIndex(deque, write)] = At(deque, read)]
          /\ write' = write + 1
     ELSE UNCHANGED <<deque, write>>

\* Seeded fault of EraseEnd: the count is not updated when nothing is kept.
EraseEndKeeping ==
  /\ Erasing /\ read = deque.count
  /\ deque' = [deque EXCEPT !.count = IF write = 0 THEN @ ELSE write]
  /\ call' = Nothing /\ read' = 0 /\ write' = 0

\* What follows the loop, and the return.
EraseEnd ==
  /\ Erasing /\ read = deque.count
  /\ deque' = [deque EXCEPT !.count = write, !.head = IF write = 0 THEN 0 ELSE @]
  /\ call' = Nothing /\ read' = 0 /\ write' = 0

Next == \/ \E n \in Requests : InitDeque(n) \/ Reserve(n)
        \/ \E v \in Vals : PushFront(v) \/ PushBack(v)
        \/ \E s \in Arrays : PushFrontN(s) \/ PushBackN(s) \/ Assign(s)
        \/ PopFront
        \/ PopBack
        \/ Clear
        \/ Release
        \/ ShrinkToFit
        \/ EraseStart
        \/ \E keep \in BOOLEAN : EraseStep(keep)
        \/ EraseEnd
        \/ Return

Spec == Init /\ [][Next]_vars

-----------------------------------------------------------------------------
\* The ring fits its buffer, the buffer is a power of two that the mask can
\* index, and the writes of deque_erase_if never overtake its reads.
RingOK ==
  /\ \/ deque = ZeroDeque
     \/ /\ deque.cap \in Powers
        /\ deque.data \in [0 .. (deque.cap - 1) -> Vals \cup {Junk}]
        /\ deque.head \in 0 .. (deque.cap - 1)
        /\ deque.count \in 0 .. deque.cap
  /\ write \in 0 .. read /\ read \in 0 .. deque.count
  /\ ~ Erasing => read = 0 /\ write = 0

\* The elements from position lo up to but not including hi.
Between(lo, hi) == [i \in 1 .. (hi - lo) |-> At(deque, lo + i - 1)]

\* What the client sees: every element, or in deque_erase_if those it has kept
\* and those it has not looked at yet.
Contents == Between(0, write) \o Between(read, deque.count)

Abstract == INSTANCE Queue WITH items <- Contents, at <- write

\* To the client the ring is a sequence on which each call does what its name and
\* arguments say, through wrapping, growing and shrinking: a pop gives the element
\* at its end, and deque_erase_if shows its predicate every element once, in their
\* order, and takes out that element if the predicate holds of it, and no other.
ImplementsQueue == Abstract!Spec

\* A buffer is replaced by another only if it is too small for what is asked of
\* it, or by deque_shrink_to_fit: deque_reserve(n) makes room for n elements.
GrowsOnlyWhenFull ==
  [][deque.cap # 0 /\ deque'.cap > deque.cap
       => deque'.count > deque.cap \/ \E n \in Requests : n > deque.cap /\ Reserve(n)]_vars
=============================================================================
