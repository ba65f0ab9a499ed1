-------------------------------- MODULE Pool --------------------------------
(***************************************************************************)
(* rk_pool.h: an array of elements and a bitset of the slots in use; the   *)
(* first free slot serves a request.  `pool` is the struct, either that of *)
(* a Pool(T, C) or a dynamic one, zero before it is initialised and after  *)
(* it is released.                                                         *)
(*                                                                         *)
(* `held` is the client's ghost: the elements it holds and what it stored  *)
(* in them.  pool_erase_if is a loop over the iterator of rk_bitset.h,     *)
(* `iter`, which loads a word at a time; `start` and `visited` are ghosts  *)
(* of the elements it had to visit and has.  Its predicate may not change  *)
(* the pool.                                                               *)
(***************************************************************************)
EXTENDS BitsetOps, Sequences

CONSTANTS Vals,
          Junk,    \* content of an element never written
          Caps     \* the capacities of pools

ASSUME PoolAssumption == Caps \subseteq Nat /\ Junk \notin Vals

VARIABLES pool, held, iter, start, visited

vars == <<pool, held, iter, start, visited>>

ZeroPool == [static |-> FALSE, cap |-> 0, data |-> <<>>, els |-> <<>>]
NoIter == [on |-> FALSE, word |-> 0, remaining |-> {}]

Slots == 0 .. (pool.cap - 1)
FreeSlot == FirstTrailingZero(pool.data, pool.cap)  \* one-based, 0 if none

-----------------------------------------------------------------------------
Init == /\ pool = ZeroPool
        /\ held = <<>>
        /\ iter = NoIter /\ start = {} /\ visited = {}

Quiet == ~ iter.on /\ UNCHANGED <<iter, start, visited>>

\* rki_dpool_init, or the definition of a static pool: elements are not written.
InitPool(cap, static) ==
  /\ Quiet /\ pool = ZeroPool
  /\ pool' = [static |-> static, cap |-> cap, data |-> ClearAll(cap),
              els |-> [s \in 0 .. (cap - 1) |-> Junk]]
  /\ UNCHANGED held

\* The client is given element s with content v.  Were it another request's, that
\* one would still expect what it stored.
Given(s, v) == [t \in DOMAIN held \cup {s} |-> IF t \in DOMAIN held THEN held[t] ELSE v]

\* pool_try_new and pool_new.  The element has the content it was left with; a
\* full or zero pool changes nothing, where pool_new aborts.
New ==
  /\ Quiet /\ pool.cap # 0 /\ FreeSlot # 0
  /\ pool' = [pool EXCEPT !.data = SetBit(@, FreeSlot - 1)]
  /\ held' = Given(FreeSlot - 1, pool.els[FreeSlot - 1])

\* pool_try_put and pool_put
Put(v) ==
  /\ Quiet /\ pool.cap # 0 /\ FreeSlot # 0
  /\ pool' = [pool EXCEPT !.data = SetBit(@, FreeSlot - 1), !.els[FreeSlot - 1] = v]
  /\ held' = Given(FreeSlot - 1, v)

\* The client writes to an element it holds.
Write(s, v) ==
  /\ Quiet
  /\ pool' = [pool EXCEPT !.els[s] = v]
  /\ held' = [held EXCEPT ![s] = v]

Without(s) == [t \in DOMAIN held \ {s} |-> held[t]]

\* Seeded fault of Freed: the word of the slot is cleared.
FreedWord(p, s) == [p EXCEPT !.data[s \div W] = {}]

Freed(p, s) == [p EXCEPT !.data = ClearBit(@, s)]

\* pool_delete
Delete(s) == /\ Quiet
             /\ pool' = Freed(pool, s)
             /\ held' = Without(s)

\* pool_clear
Clear == /\ Quiet
         /\ pool' = [pool EXCEPT !.data = ClearAll(pool.cap)]
         /\ held' = <<>>

\* pool_release, which only clears a static pool
Release == /\ Quiet
           /\ pool' = IF pool.static THEN [pool EXCEPT !.data = ClearAll(pool.cap)] ELSE ZeroPool
           /\ held' = <<>>

-----------------------------------------------------------------------------
\* pool_erase_if: rki_bitset_iter_next from its initial state.
EraseStart ==
  /\ ~ iter.on
  /\ iter' = [NoIter EXCEPT !.on = TRUE]
  /\ start' = DOMAIN held /\ visited' = {}
  /\ UNCHANGED <<pool, held>>

\* The next word is loaded when nothing of the current one remains, with its
\* padding masked out.
LoadWord ==
  /\ iter.on /\ iter.remaining = {} /\ iter.word < Words(pool.cap)
  /\ iter' = [iter EXCEPT !.word = @ + 1,
                          !.remaining = pool.data[iter.word] \cap Valid(pool.cap, iter.word)]
  /\ UNCHANGED <<pool, held, start, visited>>

\* The lowest remaining bit is visited, and its element deleted if pred holds.
Visit(pred) ==
  LET s == (iter.word - 1) * W + Min(iter.remaining) IN
  /\ iter.on /\ iter.remaining # {}
  /\ iter' = [iter EXCEPT !.remaining = @ \ {Min(@)}]
  /\ visited' = visited \cup {s}
  /\ pool' = IF pred THEN Freed(pool, s) ELSE pool
  /\ held' = IF pred THEN Without(s) ELSE held
  /\ UNCHANGED start

EraseEnd ==
  /\ iter.on /\ iter.remaining = {} /\ iter.word = Words(pool.cap)
  /\ iter' = NoIter /\ start' = {} /\ visited' = {}
  /\ UNCHANGED <<pool, held>>

Next == \/ \E cap \in Caps, static \in BOOLEAN : InitPool(cap, static)
        \/ New
        \/ \E v \in Vals : Put(v)
        \/ \E s \in DOMAIN held, v \in Vals : Write(s, v)
        \/ \E s \in DOMAIN held : Delete(s)
        \/ Clear
        \/ Release
        \/ EraseStart
        \/ LoadWord
        \/ \E pred \in BOOLEAN : Visit(pred)
        \/ EraseEnd

Spec == Init /\ [][Next]_vars

-----------------------------------------------------------------------------
\* The struct, the ghosts and the iterator have their shape.
TypeOK ==
  /\ pool.cap \in Caps \cup {0} /\ pool.static \in BOOLEAN
  /\ pool.data \in Bitsets(pool.cap) \/ pool = ZeroPool
  /\ pool.els \in [Slots -> Vals \cup {Junk}] \/ pool = ZeroPool
  /\ DOMAIN held \subseteq Slots
  /\ iter.on \in BOOLEAN /\ iter.word \in 0 .. Words(pool.cap) /\ iter.remaining \subseteq Word
  /\ visited \subseteq start

\* The bits of the pool are the elements the client holds: none is handed out twice,
\* or while it lies beyond the capacity, and none is lost: a request fails only when
\* the client holds every element.
UsedExact == /\ TypeOK
             /\ BitsOf(pool.data) = DOMAIN held
             /\ CountOnes(pool.data) = Cardinality(DOMAIN held)
             /\ pool.cap # 0 => (FreeSlot = 0) = (DOMAIN held = Slots)

\* An element keeps its content while it is held, whatever is allocated, freed
\* and reused around it, by a loop of pool_erase_if too.
ValuesKept == \A s \in DOMAIN held : pool.els[s] = held[s]

\* An element belongs to one client at a time, with what was stored in it.
HeldExact == UsedExact /\ ValuesKept

\* pool_erase_if evaluates its predicate once for every element there was at its
\* start, although it frees elements of the word it is iterating over.
EraseVisitsAll ==
  iter.on =>
    LET here  == {(iter.word - 1) * W + b : b \in iter.remaining}
        ahead == {i \in BitsOf(pool.data) : i \div W >= iter.word}
    IN /\ visited \cup here \cup ahead = start
       /\ visited \cap (here \cup ahead) = {}
=============================================================================
