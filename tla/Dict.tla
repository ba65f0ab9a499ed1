-------------------------------- MODULE Dict --------------------------------
(***************************************************************************)
(* rk_dict.h: the open-addressing table behind Dict(K, V) and Set(K).      *)
(*                                                                         *)
(* A slot pairs a byte of `data` with a key and a value; what a removal    *)
(* leaves behind in keys[] and vals[] is never read and is not kept here.  *)
(* The linear probe visits the slots at distances 0, 1, ... from the home  *)
(* slot, so the slot where it stops is the one at the least distance that  *)
(* satisfies its exit condition.                                           *)
(*                                                                         *)
(* Everything a call does is one step, except the loop of a rehash: `fresh` *)
(* is its new_self, `idx` its loop variable, `pending` the insertion that   *)
(* prepare_insert holds back until it ends; `todo` is the rest of an assign *)
(* loop.  Two variables are ghosts: `call` is the call that is running,     *)
(* with what it answers, until it returns; `room` is what the last          *)
(* dict_reserve promised, until a removal or another structural operation   *)
(* withdraws the promise.                                                   *)
(***************************************************************************)
EXTENDS Naturals, FiniteSets, Sequences

CONSTANTS Keys, Vals,
          NoKey, Absent,     \* contents of a slot that holds no entry
          Nothing,           \* no call
          Hash,              \* the bits of a key's hash that pick its home slot
          Fp,                \* its fingerprint, the top 7 bits of the hash
          MinCap,            \* the least capacity, 16 in the code
          MaxCap,            \* the largest capacity; beyond it the code aborts
          LoadNum, LoadDen,  \* RK_DICT_LOAD_NUM, RK_DICT_LOAD_DEN
          Reserves,          \* arguments of dict_reserve and dict_init
          Assigns            \* sequences of pairs given to dict_assign

ASSUME DictAssumption ==
  /\ MinCap \in Nat \ {0} /\ MaxCap \in Nat
  /\ LoadNum \in Nat \ {0} /\ LoadDen \in Nat /\ LoadNum < LoadDen
  /\ Hash \in [Keys -> Nat] /\ Fp \in [Keys -> 0 .. 127]
  /\ NoKey \notin Keys /\ Absent \notin Vals
  /\ Reserves \subseteq Nat /\ Assigns \subseteq Seq(Keys \X Vals)

VARIABLES table, fresh, idx, pending, todo, call, room

vars == <<table, fresh, idx, pending, todo, call, room>>

-----------------------------------------------------------------------------
EMPTY   == 128  \* 0x80
DELETED == 254  \* 0xFE

EmptyOrDeleted(s) == s.data >= 128

EmptySlot   == [data |-> EMPTY, key |-> NoKey, val |-> Absent]
DeletedSlot == [data |-> DELETED, key |-> NoKey, val |-> Absent]
LiveSlot(k, v) == [data |-> Fp[k], key |-> k, val |-> v]

Least(S) == CHOOSE d \in S : \A e \in S : d <= e
Larger(m, n) == IF m > n THEN m ELSE n

\* rki_ds_load_limit
LoadLimit(cap) == (cap \div LoadDen) * LoadNum + ((cap % LoadDen) * LoadNum) \div LoadDen

\* The capacities the doubling loops run through before they abort.
Caps == {c \in MinCap .. MaxCap : \E e \in 0 .. MaxCap : c = MinCap * 2^e}

CapsForCount(n) == {c \in Caps : n <= LoadLimit(c)}
CapForCount(n)  == Least(CapsForCount(n))
RoundCaps(n) == {c \in Caps : n <= c}

NoTable == [cap |-> 0, count |-> 0, ndeleted |-> 0, slots |-> <<>>]

\* dict_init with a capacity that is already rounded
EmptyTable(cap) == [cap |-> cap, count |-> 0, ndeleted |-> 0,
                    slots |-> [i \in 0 .. (cap - 1) |-> EmptySlot]]

Live(t) == {i \in 0 .. (t.cap - 1) : ~ EmptyOrDeleted(t.slots[i])}

\* rki_ds_needs_rehash
NeedsRehash(t) == t.count + t.ndeleted >= LoadLimit(t.cap)

-----------------------------------------------------------------------------
\* The slot a probe for k visits after d steps (RKI_DS_HOME, RKI_DS_NEXT).
Visited(t, k, d) == (Hash[k] + d) % t.cap

Holds(s, k) == s.data = Fp[k] /\ s.key = k

\* Where the loop of probe_f may stop: an empty slot or the key itself.
Stops(t, k) == {d \in 0 .. (t.cap - 1) :
                  LET s == t.slots[Visited(t, k, d)] IN s.data = EMPTY \/ Holds(s, k)}

Tombstones(t, k, end) == {d \in 0 .. (end - 1) : t.slots[Visited(t, k, d)].data = DELETED}

Result(found, tombstone, i) == [found |-> found, tombstone |-> tombstone, idx |-> i]

\* Seeded fault of Probe: a tombstone ends the search.
ProbeToTombstone(t, k) ==
  IF t.cap = 0 THEN Result(FALSE, FALSE, 0)
  ELSE LET end == Least({d \in 0 .. (t.cap - 1) :
                           t.slots[Visited(t, k, d)].data \in {EMPTY, DELETED}
                           \/ Holds(t.slots[Visited(t, k, d)], k)})
           i == Visited(t, k, end)
       IN Result(Holds(t.slots[i], k), t.slots[i].data = DELETED, i)

\* probe_f
Probe(t, k) ==
  IF t.cap = 0 THEN Result(FALSE, FALSE, 0)
  ELSE LET end == Least(Stops(t, k))
           i == Visited(t, k, end)
       IN IF Holds(t.slots[i], k) THEN Result(TRUE, FALSE, i)
          ELSE IF Tombstones(t, k, end) # {}
          THEN Result(FALSE, TRUE, Visited(t, k, Least(Tombstones(t, k, end))))
          ELSE Result(FALSE, FALSE, i)

\* dict_get, dict_at and dict_contains: the value of the key, if it has one.
Lookup(t, k) == LET r == Probe(t, k) IN IF r.found THEN t.slots[r.idx].val ELSE Absent

\* Seeded fault of InsertAt: the tombstone counter is never decremented.
InsertKeepingTombstone(t, k, v, r) ==
  [t EXCEPT !.count = @ + 1, !.slots[r.idx] = LiveSlot(k, v)]

\* insert_f
InsertAt(t, k, v, r) ==
  [t EXCEPT !.count = @ + 1,
            !.ndeleted = IF r.tombstone THEN @ - 1 ELSE @,
            !.slots[r.idx] = LiveSlot(k, v)]

Inserted(t, k, v) == InsertAt(t, k, v, Probe(t, k))

\* Seeded fault of Erased: an erased slot becomes empty.
ErasedToEmpty(t, I) ==
  [t EXCEPT !.count = @ - Cardinality(I),
            !.slots = [i \in DOMAIN t.slots |-> IF i \in I THEN EmptySlot ELSE t.slots[i]]]

\* What dict_remove, dict_extract and dict_erase_if do to the slots they erase.
Erased(t, I) ==
  [t EXCEPT !.count = @ - Cardinality(I),
            !.ndeleted = @ + Cardinality(I),
            !.slots = [i \in DOMAIN t.slots |-> IF i \in I THEN DeletedSlot ELSE t.slots[i]]]

\* Seeded fault of Rehashed: the slot is not probed for.
RehashedHome(t, s) == [t EXCEPT !.slots[Visited(t, s.key, 0)] = s]

\* The body of the loop of grow: the entry goes to the first empty slot.
Rehashed(t, s) ==
  LET empty == {d \in 0 .. (t.cap - 1) : t.slots[Visited(t, s.key, d)].data = EMPTY}
  IN [t EXCEPT !.slots[Visited(t, s.key, Least(empty))] = LiveSlot(s.key, s.val)]

-----------------------------------------------------------------------------
Init == /\ table = NoTable /\ fresh = NoTable /\ idx = 0
        /\ pending = <<>> /\ todo = <<>> /\ call = Nothing /\ room = 0

Growing == fresh # NoTable
Done == ~ Growing /\ todo = <<>>

\* No call starts before the one before it has returned.
Starts(c) == Done /\ call = Nothing /\ call' = c

\* Every loop of the call has ended.
Return == Done /\ call # Nothing /\ call' = Nothing
          /\ UNCHANGED <<table, fresh, idx, pending, todo, room>>

NotGrowing == UNCHANGED <<fresh, idx, pending>>

\* The part of grow before its loop: new_self already has the final count.
StartGrow(cap, insertion) ==
  /\ fresh' = [EmptyTable(cap) EXCEPT !.count = table.count]
  /\ idx' = 0
  /\ pending' = insertion
  /\ UNCHANGED table

\* Seeded fault of GrowthTarget: every rehash doubles the capacity.
AlwaysDouble(t) == IF 2 * t.cap <= MaxCap THEN 2 * t.cap ELSE t.cap

\* The new capacity in ensure_cap, for one more entry.
GrowthTarget(t) == Larger(CapForCount(t.count + 1), t.cap)

\* prepare_insert and what follows it for a key that is not stored: a zero
\* table is initialised, a full one rehashed first.
Insert(k, v) ==
  \/ /\ table.cap = 0
     /\ CapsForCount(1) # {}
     /\ table' = Inserted(EmptyTable(CapForCount(1)), k, v)
     /\ NotGrowing
  \/ /\ table.cap # 0 /\ ~ NeedsRehash(table)
     /\ table' = Inserted(table, k, v)
     /\ NotGrowing
  \/ /\ table.cap # 0 /\ NeedsRehash(table)
     /\ CapsForCount(table.count + 1) # {}
     /\ StartGrow(GrowthTarget(table), <<k, v>>)

\* dict_set without its guard
Store(k, v) ==
  LET r == Probe(table, k) IN
  \/ /\ r.found
     /\ table' = [table EXCEPT !.slots[r.idx].val = v]
     /\ NotGrowing
  \/ /\ ~ r.found
     /\ Insert(k, v)

\* dict_set
Set(k, v) ==
  /\ Starts([op |-> "set", key |-> k, val |-> v, inserted |-> ~ Probe(table, k).found])
  /\ Store(k, v)
  /\ UNCHANGED <<todo, room>>

\* dict_add, dict_get_or_add, set_add: a stored key changes nothing.
Add(k, v) ==
  LET found == Probe(table, k).found IN
  /\ Starts([op |-> "add", key |-> k, val |-> v, inserted |-> ~ found,
             value |-> IF found THEN Lookup(table, k) ELSE v])
  /\ IF found THEN UNCHANGED table /\ NotGrowing ELSE Insert(k, v)
  /\ UNCHANGED <<todo, room>>

\* One iteration of the loop of grow.
GrowStep ==
  /\ Growing /\ idx < table.cap
  /\ fresh' = IF idx \in Live(table) THEN Rehashed(fresh, table.slots[idx]) ELSE fresh
  /\ idx' = idx + 1
  /\ UNCHANGED <<table, pending, todo, call, room>>

\* The end of grow, and of the insertion that waits for it.
GrowEnd ==
  /\ Growing /\ idx = table.cap
  /\ table' = IF pending = <<>> THEN fresh ELSE Inserted(fresh, pending[1], pending[2])
  /\ fresh' = NoTable /\ idx' = 0 /\ pending' = <<>>
  /\ UNCHANGED <<todo, call, room>>

\* dict_remove, dict_extract: the key may be absent.
Remove(k) ==
  LET r == Probe(table, k) IN
  /\ Starts([op |-> "remove", key |-> k, removed |-> r.found, value |-> Lookup(table, k)])
  /\ IF r.found THEN table' = Erased(table, {r.idx}) /\ room' = 0
     ELSE UNCHANGED <<table, room>>
  /\ NotGrowing /\ UNCHANGED todo

\* dict_erase_if with a predicate that holds of the entries K
EraseIf(K) ==
  /\ Starts([op |-> "erase_if", keys |-> K])
  /\ table' = Erased(table, {i \in Live(table) : table.slots[i].key \in K})
  /\ room' = 0
  /\ NotGrowing /\ UNCHANGED todo

ClearedTable(t) == IF t.cap = 0 THEN t ELSE EmptyTable(t.cap)

\* dict_clear
Clear ==
  /\ Starts([op |-> "clear"])
  /\ table' = ClearedTable(table)
  /\ room' = 0
  /\ NotGrowing /\ UNCHANGED todo

\* dict_init, whose argument counts slots
InitTable(n) ==
  /\ Starts([op |-> "init", n |-> n]) /\ table = NoTable
  /\ RoundCaps(n) # {}
  /\ table' = EmptyTable(Least(RoundCaps(n)))
  /\ NotGrowing /\ UNCHANGED <<todo, room>>

\* Seeded fault of TooFewFree: tombstones are not counted.
NeverTooFew(t, n) == FALSE

\* The last test of dict_reserve: tombstones take the room of the entries.
TooFewFree(t, n) == t.ndeleted > LoadLimit(t.cap) - n

\* dict_reserve
Reserve(n) ==
  LET requested == Larger(n, table.count)
      cap == CapForCount(requested) IN
  /\ Starts([op |-> "reserve", n |-> n]) /\ n > 0
  /\ CapsForCount(requested) # {}
  /\ room' = n
  /\ UNCHANGED todo
  /\ \/ table.cap = 0 /\ table' = EmptyTable(cap) /\ NotGrowing
     \/ table.cap # 0 /\ cap > table.cap /\ StartGrow(cap, <<>>)
     \/ /\ table.cap # 0 /\ cap <= table.cap
        /\ IF TooFewFree(table, requested)
           THEN StartGrow(table.cap, <<>>)
           ELSE UNCHANGED table /\ NotGrowing

\* dict_release
Release ==
  /\ Starts([op |-> "release"])
  /\ table' = NoTable
  /\ room' = 0
  /\ NotGrowing /\ UNCHANGED todo

\* dict_shrink_to_fit
ShrinkToFit ==
  /\ Starts([op |-> "shrink"])
  /\ room' = 0
  /\ UNCHANGED todo
  /\ IF table.count = 0 THEN table' = NoTable /\ NotGrowing
     ELSE LET cap == CapForCount(table.count) IN
          IF cap < table.cap \/ table.ndeleted > 0
          THEN StartGrow(cap, <<>>)
          ELSE UNCHANGED table /\ NotGrowing

\* dict_assign up to its loop: clear, then reserve room for n entries.
Assign(pairs) ==
  LET n == Len(pairs)
      cap == CapForCount(n) IN
  /\ Starts([op |-> "assign", pairs |-> pairs])
  /\ CapsForCount(n) # {}
  /\ todo' = pairs
  /\ room' = n
  /\ NotGrowing
  /\ table' = IF n > 0 /\ cap > table.cap THEN EmptyTable(cap) ELSE ClearedTable(table)

\* One iteration of the loop of dict_assign.
AssignStep ==
  /\ ~ Growing /\ todo # <<>>
  /\ Store(Head(todo)[1], Head(todo)[2])
  /\ todo' = Tail(todo)
  /\ UNCHANGED <<call, room>>

Next == \/ \E k \in Keys, v \in Vals : Set(k, v) \/ Add(k, v)
        \/ GrowStep
        \/ GrowEnd
        \/ \E k \in Keys : Remove(k)
        \/ \E K \in SUBSET Keys : EraseIf(K)
        \/ Clear
        \/ \E n \in Reserves : InitTable(n) \/ Reserve(n)
        \/ Release
        \/ ShrinkToFit
        \/ \E pairs \in Assigns : Assign(pairs)
        \/ AssignStep
        \/ Return

Spec == Init /\ [][Next]_vars

-----------------------------------------------------------------------------
Slots == {EmptySlot, DeletedSlot} \cup {LiveSlot(k, v) : k \in Keys, v \in Vals}

IsTable(t) == \E c \in Caps :
  t \in [cap : {c}, count : Nat, ndeleted : Nat, slots : [0 .. (c - 1) -> Slots]]

\* The tables and the loop state have their shape.
TypeOK ==
  /\ table = NoTable \/ IsTable(table)
  /\ fresh = NoTable \/ IsTable(fresh)
  /\ idx \in 0 .. table.cap
  /\ pending \in Keys \X Vals \/ pending = <<>>
  /\ todo \in Seq(Keys \X Vals)
  /\ room \in Nat

\* No two slots hold the same key, however tombstones were reused and entries
\* moved.
KeysUnique(t) == \A i, j \in Live(t) : t.slots[i].key = t.slots[j].key => i = j

\* The probe for a stored key meets no empty slot before it gets to its entry.
Reachable(t) ==
  \A i \in Live(t) : \E d \in 0 .. (t.cap - 1) :
    /\ Visited(t, t.slots[i].key, d) = i
    /\ \A e \in 0 .. (d - 1) : t.slots[Visited(t, t.slots[i].key, e)].data # EMPTY

HasEmptySlot(t) == t.cap # 0 => \E i \in DOMAIN t.slots : t.slots[i].data = EMPTY

\* Every probe ends, and where it should: removals, and the order in which a rehash
\* moves the entries, leave each key one slot that probe_f gets to; and however many
\* tombstones they leave, there is an empty slot, without which the loop of probe_f
\* would not end for a key that is not stored.
ProbesEnd == /\ \A t \in {table, fresh} : KeysUnique(t) /\ Reachable(t)
             /\ HasEmptySlot(table)

\* The table is well formed, and count and ndeleted are exactly its live slots and
\* its tombstones.
CountersExact ==
  /\ TypeOK
  /\ table.count = Cardinality(Live(table))
  /\ table.ndeleted = Cardinality({i \in DOMAIN table.slots : table.slots[i].data = DELETED})

\* What the running call has still to store, first to last.
Puts == (IF pending = <<>> THEN <<>> ELSE <<pending>>) \o todo

\* The map a client will find once the call has returned: what the lookups
\* answer, with what is still to be stored.
Seen == [k \in Keys |->
           LET I == {i \in DOMAIN Puts : Puts[i][1] = k}
           IN  IF I = {} THEN Lookup(table, k)
               ELSE Puts[CHOOSE i \in I : \A j \in I : j <= i][2]]

Abstract == INSTANCE TableMap
              WITH map <- Seen, Capacities <- Reserves, Arrays <- Assigns

\* To the client the table is a map on which each call does what its name and
\* arguments say, and which it answers for: dict_set and dict_add store their
\* key and nothing else, a removal takes its key and no other and no older value
\* comes back, dict_assign leaves its pairs, and dict_reserve, dict_shrink_to_fit
\* and every step of a rehash change nothing.
ImplementsMap == Abstract!Spec

\* dict_reserve(n) keeps its promise: no insertion rehashes before the table
\* has n entries, as long as no removal or structural operation intervenes.
ReserveKept == [][~ Growing /\ Growing' /\ pending' # <<>> => table.count >= room]_vars

\* An insertion enlarges the table only when the live entries need it; when the
\* load is due to tombstones it compacts at the same capacity.
ChurnKeepsCapacity ==
  [][Growing /\ pending # <<>> /\ table'.cap > table.cap
       => LoadLimit(table.cap) <= table.count]_vars

\* Except in a rehash, an entry that stays stored stays in its slot, so the
\* pointers a client holds to retained entries stay valid.
AddressesKept ==
  [][~ Growing => \A i \in Live(table), j \in Live(table') :
       table.slots[i].key = table'.slots[j].key => i = j]_vars
=============================================================================
