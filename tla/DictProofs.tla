----------------------------- MODULE DictProofs -----------------------------
(***************************************************************************)
(* For every set of keys, every hash, every fingerprint and every load     *)
(* limit below one, the table of Dict finds what it stores.                *)
(***************************************************************************)
EXTENDS Dict, NatFacts

-----------------------------------------------------------------------------
\* rki_ds_load_limit is the number of entries at which count / cap gets to the
\* load factor, computed without the overflow of cap * LoadNum.
LEMMA LoadLimitIs ==
  ASSUME NEW c \in Nat
  PROVE  /\ LoadLimit(c) \in Nat
         /\ LoadDen * LoadLimit(c) <= LoadNum * c
         /\ LoadNum * c < LoadDen * (LoadLimit(c) + 1)
<1> DEFINE q == c \div LoadDen
           r == c % LoadDen
           s == (r * LoadNum) \div LoadDen
           u == (r * LoadNum) % LoadDen
<1>1. LoadNum \in Nat \ {0} /\ LoadDen \in Nat \ {0}
  BY DictAssumption
<1>2. q \in Int /\ r \in 0 .. (LoadDen - 1) /\ c = LoadDen * q + r
  BY <1>1, DivMod
<1>3. r * LoadNum \in Nat
  BY <1>1, <1>2
<1>4. s \in Int /\ u \in 0 .. (LoadDen - 1) /\ r * LoadNum = LoadDen * s + u
  BY <1>1, <1>3, DivMod
<1>5. LoadLimit(c) = q * LoadNum + s
  BY DEF LoadLimit
<1> HIDE DEF q, r, s, u
<1>6. q \in Nat
  <2>1. ASSUME q <= -1
        PROVE  FALSE
    <3>1. LoadDen * q <= LoadDen * (-1)
      BY <1>1, <1>2, <2>1
    <3>2. QED
      BY <1>1, <1>2, <3>1
  <2>2. QED
    BY <1>2, <2>1
<1>7. s \in Nat
  <2>1. ASSUME s <= -1
        PROVE  FALSE
    <3>1. LoadDen * s <= LoadDen * (-1)
      BY <1>1, <1>4, <2>1
    <3>2. QED
      BY <1>1, <1>3, <1>4, <3>1
  <2>2. QED
    BY <1>4, <2>1
<1>8. LoadLimit(c) \in Nat
  BY <1>1, <1>5, <1>6, <1>7
<1>9. LoadDen * LoadLimit(c) + u = LoadNum * c
  <2>1. LoadDen * LoadLimit(c) = LoadDen * (q * LoadNum) + LoadDen * s
    BY <1>1, <1>5, <1>6, <1>7
  <2>2. LoadNum * c = LoadNum * (LoadDen * q) + LoadNum * r
    BY <1>1, <1>2, <1>6
  <2>3. LoadNum * (LoadDen * q) = LoadDen * (q * LoadNum)
    BY <1>1, <1>6
  <2>4. LoadNum * r = r * LoadNum
    BY <1>1, <1>2
  <2>5. QED
    BY <1>1, <1>3, <1>4, <1>6, <1>7, <1>8, <2>1, <2>2, <2>3, <2>4
<1>10. QED
  <2>1. LoadDen * (LoadLimit(c) + 1) = LoadDen * LoadLimit(c) + LoadDen
    BY <1>1, <1>8
  <2>2. LoadDen * LoadLimit(c) \in Nat /\ LoadNum * c \in Nat
    BY <1>1, <1>8
  <2>3. QED
    BY <1>1, <1>4, <1>8, <1>9, <2>1, <2>2

\* A table that keeps to the limit has a slot that is neither live nor deleted.
LEMMA LoadLimitBelow ==
  ASSUME NEW c \in Nat \ {0}
  PROVE  LoadLimit(c) < c
<1>1. LoadNum \in Nat /\ LoadDen \in Nat \ {0} /\ LoadNum < LoadDen
  BY DictAssumption
<1>2. LoadLimit(c) \in Nat /\ LoadDen * LoadLimit(c) <= LoadNum * c
  BY LoadLimitIs
<1>3. SUFFICES ASSUME c <= LoadLimit(c)
               PROVE  FALSE
  BY <1>2
<1>4. LoadDen * c <= LoadDen * LoadLimit(c)
  BY <1>1, <1>2, <1>3
<1>5. LoadNum * c < LoadDen * c
  BY <1>1
<1>6. LoadNum * c \in Nat /\ LoadDen * c \in Nat /\ LoadDen * LoadLimit(c) \in Nat
  BY <1>1, <1>2
<1>7. QED
  BY <1>2, <1>4, <1>5, <1>6

(* The load limit grows with the capacity.                                    *)
LEMMA LoadLimitGrows ==
  ASSUME NEW b \in Nat, NEW c \in Nat, b <= c
  PROVE  LoadLimit(b) <= LoadLimit(c)
<1>1. LoadNum \in Nat /\ LoadDen \in Nat \ {0}
  BY DictAssumption
<1>2. /\ LoadLimit(b) \in Nat /\ LoadDen * LoadLimit(b) <= LoadNum * b
      /\ LoadLimit(c) \in Nat /\ LoadNum * c < LoadDen * (LoadLimit(c) + 1)
  BY LoadLimitIs
<1>3. LoadNum * b <= LoadNum * c
  BY <1>1
<1>4. SUFFICES ASSUME LoadLimit(c) + 1 <= LoadLimit(b)
               PROVE  FALSE
  BY <1>2
<1>5. LoadDen * (LoadLimit(c) + 1) <= LoadDen * LoadLimit(b)
  BY <1>1, <1>2, <1>4
<1>6. /\ LoadNum * b \in Nat /\ LoadNum * c \in Nat
      /\ LoadDen * LoadLimit(b) \in Nat /\ LoadDen * (LoadLimit(c) + 1) \in Nat
  BY <1>1, <1>2
<1>7. QED
  BY <1>2, <1>3, <1>5, <1>6

-----------------------------------------------------------------------------
(* The least element of a non-empty set of naturals is in it and bounds it    *)
(* from below.                                                                *)
LEMMA LeastIs ==
  ASSUME NEW S, S \subseteq Nat, S # {}
  PROVE  Least(S) \in S /\ \A e \in S : Least(S) <= e
<1>1. \E d \in S : \A e \in S : d <= e
  BY LeastExists
<1>2. QED
  BY <1>1 DEF Least

\* What a table is made of.
LEMMA TableShape ==
  ASSUME NEW t, IsTable(t)
  PROVE  /\ t.cap \in Caps /\ t.cap \in Nat \ {0}
         /\ t.count \in Nat /\ t.ndeleted \in Nat
         /\ t.slots \in [0 .. (t.cap - 1) -> Slots]
         /\ t \in [cap : Nat, count : Nat, ndeleted : Nat, slots : [0 .. (t.cap - 1) -> Slots]]
<1>1. PICK c \in Caps :
        t \in [cap : {c}, count : Nat, ndeleted : Nat, slots : [0 .. (c - 1) -> Slots]]
  BY DEF IsTable
<1>2. c \in Nat \ {0}
  BY DictAssumption DEF Caps
<1>3. t.cap = c
  BY <1>1
<1>4. QED
  BY <1>1, <1>2, <1>3

(* A record with a power-of-two capacity and a slot at every index is a       *)
(* table.                                                                     *)
LEMMA TableMade ==
  ASSUME NEW c \in Caps, NEW n \in Nat, NEW m \in Nat, NEW s \in [0 .. (c - 1) -> Slots],
         NEW t, t = [cap |-> c, count |-> n, ndeleted |-> m, slots |-> s]
  PROVE  IsTable(t)
BY DEF IsTable

\* A slot is empty, deleted or holds an entry, which its three fields show alike.
LEMMA SlotShape ==
  ASSUME NEW s \in Slots
  PROVE  /\ s.data \in Nat
         /\ s.data = EMPTY <=> s = EmptySlot
         /\ s.data = DELETED <=> s = DeletedSlot
         /\ EmptyOrDeleted(s) <=> s.data \in {EMPTY, DELETED}
         /\ EmptyOrDeleted(s) <=> s.key \notin Keys
         /\ ~ EmptyOrDeleted(s) => /\ s.key \in Keys /\ s.val \in Vals
                                  /\ s.data = Fp[s.key] /\ s = LiveSlot(s.key, s.val)
         /\ EMPTY # DELETED
<1>1. \A k \in Keys : Fp[k] \in 0 .. 127
  BY DictAssumption
<1>2. NoKey \notin Keys
  BY DictAssumption
<1>3. CASE s = EmptySlot
  BY <1>2, <1>3 DEF EmptySlot, DeletedSlot, EmptyOrDeleted, EMPTY, DELETED
<1>4. CASE s = DeletedSlot
  BY <1>2, <1>4 DEF EmptySlot, DeletedSlot, EmptyOrDeleted, EMPTY, DELETED
<1>5. CASE \E k \in Keys, v \in Vals : s = LiveSlot(k, v)
  <2>1. PICK k \in Keys, v \in Vals : s = LiveSlot(k, v)
    BY <1>5
  <2>2. s.data = Fp[k] /\ s.key = k /\ s.val = v /\ Fp[k] \in 0 .. 127
    BY <1>1, <2>1 DEF LiveSlot
  <2>3. QED
    BY <1>2, <2>1, <2>2 DEF EmptySlot, DeletedSlot, LiveSlot, EmptyOrDeleted, EMPTY, DELETED
<1>6. QED
  BY <1>3, <1>4, <1>5 DEF Slots

-----------------------------------------------------------------------------
\* A probe stays in the table and comes by every slot.
LEMMA VisitedIn ==
  ASSUME NEW t, IsTable(t), NEW k \in Keys, NEW d \in Nat
  PROVE  Visited(t, k, d) \in 0 .. (t.cap - 1)
<1> DEFINE c == t.cap
           h == Hash[k] + d
<1>1. c \in Nat \ {0} /\ h \in Int
  BY TableShape, DictAssumption
<1>2. Visited(t, k, d) = h % c
  BY DEF Visited
<1> HIDE DEF c, h
<1>3. h % c \in 0 .. (c - 1)
  BY <1>1, DivMod
<1>4. QED
  BY <1>2, <1>3 DEF c

(* A linear probe comes past every slot of the table.                         *)
LEMMA VisitedOnto ==
  ASSUME NEW t, IsTable(t), NEW k \in Keys, NEW i \in 0 .. (t.cap - 1)
  PROVE  \E d \in 0 .. (t.cap - 1) : Visited(t, k, d) = i
<1> DEFINE c == t.cap
           h == Hash[k]
           a == i - h
<1>1. c \in Nat \ {0} /\ h \in Nat
  BY TableShape, DictAssumption
<1>2. i \in 0 .. (c - 1)
  OBVIOUS
<1>3. \A d : Visited(t, k, d) = (h + d) % c
  BY DEF Visited
<1> HIDE DEF c, h
<1>4. a \in Int
  BY <1>1, <1>2
<1>5. a \div c \in Int /\ a % c \in 0 .. (c - 1) /\ a = c * (a \div c) + (a % c)
  <2> HIDE DEF a
  <2>1. QED
    BY <1>1, <1>4, DivMod
<1> DEFINE q == -(a \div c)
<1>6. q \in Int /\ h + (a % c) = c * q + i
  <2>1. c * q = -(c * (a \div c)) /\ c * (a \div c) \in Int
    BY <1>1, <1>5
  <2>2. QED
    BY <1>1, <1>2, <1>5, <2>1
<1> HIDE DEF q
<1>7. (c * q + i) % c = i
  BY <1>1, <1>2, <1>6, QuotientUnique
<1>8. QED
  BY <1>3, <1>5, <1>6, <1>7 DEF c

-----------------------------------------------------------------------------
Sound(t) == IsTable(t) /\ KeysUnique(t) /\ Reachable(t)

Stored(t, k) == \E i \in Live(t) : t.slots[i].key = k

\* A live slot is one that holds some key, and the probe recognises it.
LEMMA LiveIs ==
  ASSUME NEW t, IsTable(t), NEW i \in 0 .. (t.cap - 1)
  PROVE  /\ t.slots[i] \in Slots
         /\ i \in Live(t) <=> t.slots[i].key \in Keys
         /\ i \in Live(t) <=> t.slots[i] \notin {EmptySlot, DeletedSlot}
         /\ \A k \in Keys : Holds(t.slots[i], k) <=> i \in Live(t) /\ t.slots[i].key = k
<1>1. t.slots[i] \in Slots
  BY TableShape
<1>2. i \in Live(t) <=> ~ EmptyOrDeleted(t.slots[i])
  BY DEF Live
<1>3. \A k \in Keys : Holds(t.slots[i], k) <=> i \in Live(t) /\ t.slots[i].key = k
  BY <1>1, <1>2, SlotShape DEF Holds
<1>4. QED
  BY <1>1, <1>2, <1>3, SlotShape

\* probe_f gets to the slot of a key that is stored.
LEMMA ProbeFinds ==
  ASSUME NEW t, Sound(t), NEW i \in Live(t)
  PROVE  Probe(t, t.slots[i].key) = Result(TRUE, FALSE, i)
<1> DEFINE k == t.slots[i].key
           S == Stops(t, k)
           end == Least(S)
<1>1. IsTable(t) /\ t.cap # 0 /\ t.cap \in Nat /\ i \in 0 .. (t.cap - 1) /\ k \in Keys
  BY TableShape, LiveIs DEF Sound, Live
<1>2. PICK d \in 0 .. (t.cap - 1) :
        /\ Visited(t, k, d) = i
        /\ \A e \in 0 .. (d - 1) : t.slots[Visited(t, k, e)].data # EMPTY
  BY DEF Sound, Reachable
<1>3. d \in S
  BY <1>1, <1>2, LiveIs DEF Stops
<1>4. S \subseteq 0 .. (t.cap - 1) /\ S \subseteq Nat /\ S # {}
  <2>1. S \subseteq 0 .. (t.cap - 1)
    BY DEF Stops
  <2>2. 0 .. (t.cap - 1) \subseteq Nat
    BY <1>1
  <2> HIDE DEF S
  <2>3. QED
    BY <1>3, <2>1, <2>2
<1>5. end \in S /\ end <= d
  <2> HIDE DEF S
  <2>1. QED
    BY <1>3, <1>4, LeastIs
<1>6. Visited(t, k, end) = i
  <2>1. CASE end = d
    BY <1>2, <2>1
  <2>2. CASE end # d
    <3>1. end \in 0 .. (d - 1) /\ end \in Nat
      BY <1>4, <1>5, <2>2
    <3>2. Holds(t.slots[Visited(t, k, end)], k)
      BY <1>2, <1>5, <3>1 DEF Stops
    <3>3. Visited(t, k, end) \in 0 .. (t.cap - 1)
      BY <1>1, <3>1, VisitedIn
    <3>4. Visited(t, k, end) \in Live(t) /\ t.slots[Visited(t, k, end)].key = k
      BY <1>1, <3>2, <3>3, LiveIs
    <3>5. QED
      BY <3>4 DEF Sound, KeysUnique
  <2>3. QED
    BY <2>1, <2>2
<1>7. Holds(t.slots[i], k)
  BY <1>1, LiveIs
<1> HIDE DEF k
<1>8. Probe(t, k) = Result(TRUE, FALSE, i)
  BY <1>1, <1>6, <1>7 DEF Probe
<1>9. QED
  BY <1>8 DEF k

\* For a key that is not stored, an empty slot ends the loop of probe_f, and the
\* first slot on the way that can take an entry is the one for it.
LEMMA ProbeMisses ==
  ASSUME NEW t, IsTable(t), HasEmptySlot(t), NEW k \in Keys, ~ Stored(t, k)
  PROVE  /\ Probe(t, k).found = FALSE
         /\ Probe(t, k).idx \in 0 .. (t.cap - 1)
         /\ t.slots[Probe(t, k).idx] \in {EmptySlot, DeletedSlot}
         /\ Probe(t, k).tombstone = (t.slots[Probe(t, k).idx] = DeletedSlot)
         /\ \E d \in 0 .. (t.cap - 1) :
              /\ Visited(t, k, d) = Probe(t, k).idx
              /\ \A e \in 0 .. (d - 1) : t.slots[Visited(t, k, e)].data # EMPTY
<1> DEFINE S == Stops(t, k)
           end == Least(S)
           T == Tombstones(t, k, end)
<1>1. t.cap \in Nat \ {0} /\ t.slots \in [0 .. (t.cap - 1) -> Slots]
  BY TableShape
<1>2. \A i \in 0 .. (t.cap - 1) : ~ Holds(t.slots[i], k)
  BY LiveIs DEF Stored
<1>3. PICK i \in 0 .. (t.cap - 1) : t.slots[i].data = EMPTY
  BY <1>1 DEF HasEmptySlot
<1>4. PICK d \in 0 .. (t.cap - 1) : Visited(t, k, d) = i
  BY VisitedOnto
<1>5. d \in S /\ S \subseteq Nat /\ S \subseteq 0 .. (t.cap - 1)
  BY <1>1, <1>3, <1>4 DEF Stops
<1>6. end \in S /\ \A e \in S : end <= e
  <2> HIDE DEF S
  <2>1. QED
    BY <1>5, LeastIs
<1>7. end \in 0 .. (t.cap - 1) /\ end \in Nat
  BY <1>1, <1>5, <1>6
<1>8. \A e \in 0 .. (t.cap - 1) : Visited(t, k, e) \in 0 .. (t.cap - 1)
  BY <1>1, VisitedIn
<1>9. t.slots[Visited(t, k, end)] = EmptySlot
  <2>1. t.slots[Visited(t, k, end)].data = EMPTY
    BY <1>2, <1>6, <1>7, <1>8 DEF Stops
  <2>2. QED
    BY <1>1, <1>7, <1>8, <2>1, SlotShape
<1>10. ASSUME NEW e \in 0 .. (end - 1)
       PROVE  t.slots[Visited(t, k, e)].data # EMPTY
  <2>1. e \in 0 .. (t.cap - 1) /\ ~ (end <= e)
    BY <1>1, <1>7
  <2>2. e \notin S
    BY <1>6, <2>1
  <2>3. QED
    BY <2>1, <2>2 DEF Stops
<1>11. EmptySlot # DeletedSlot
  BY DEF EmptySlot, DeletedSlot, EMPTY, DELETED
<1>12. ~ Holds(t.slots[Visited(t, k, end)], k)
  BY <1>2, <1>7, <1>8
<1> HIDE DEF S, end
<1>13. CASE T = {}
  <2>1. Probe(t, k) = Result(FALSE, FALSE, Visited(t, k, end))
    BY <1>1, <1>12, <1>13 DEF Probe, end, S
  <2>2. /\ Probe(t, k).found = FALSE /\ Probe(t, k).tombstone = FALSE
        /\ Probe(t, k).idx = Visited(t, k, end)
    BY <2>1 DEF Result
  <2> HIDE DEF T
  <2>3. \E d1 \in 0 .. (t.cap - 1) :
          /\ Visited(t, k, d1) = Probe(t, k).idx
          /\ \A e \in 0 .. (d1 - 1) : t.slots[Visited(t, k, e)].data # EMPTY
    <3> USE <1>7
    <3> WITNESS end \in 0 .. (t.cap - 1)
    <3> QED
      BY <1>10, <2>2
  <2>4. Probe(t, k).tombstone = (t.slots[Probe(t, k).idx] = DeletedSlot)
    BY <1>9, <1>11, <2>2
  <2>5. QED
    BY <1>7, <1>8, <1>9, <2>2, <2>3, <2>4
<1>14. CASE T # {}
  <2> DEFINE e == Least(T)
  <2>1. T \subseteq Nat /\ T \subseteq 0 .. (end - 1)
    BY <1>7 DEF Tombstones
  <2>2. e \in T
    <3> HIDE DEF T
    <3>1. QED
      BY <1>14, <2>1, LeastIs
  <2>3. Probe(t, k) = Result(FALSE, TRUE, Visited(t, k, e))
    BY <1>1, <1>12, <1>14 DEF Probe, end, S
  <2>4. t.slots[Visited(t, k, e)].data = DELETED
    BY <2>2 DEF Tombstones
  <2>5. e \in 0 .. (end - 1) /\ e \in 0 .. (t.cap - 1)
    BY <1>1, <1>7, <2>1, <2>2
  <2> HIDE DEF e, T
  <2>6. t.slots[Visited(t, k, e)] = DeletedSlot
    BY <1>1, <1>8, <2>4, <2>5, SlotShape
  <2>7. \A x \in 0 .. (e - 1) : x \in 0 .. (end - 1)
    BY <1>7, <2>5
  <2>8. /\ Probe(t, k).found = FALSE /\ Probe(t, k).tombstone = TRUE
        /\ Probe(t, k).idx = Visited(t, k, e)
    BY <2>3 DEF Result
  <2>9. \E d1 \in 0 .. (t.cap - 1) :
          /\ Visited(t, k, d1) = Probe(t, k).idx
          /\ \A x \in 0 .. (d1 - 1) : t.slots[Visited(t, k, x)].data # EMPTY
    <3> USE <2>5
    <3> WITNESS e \in 0 .. (t.cap - 1)
    <3> QED
      BY <1>10, <2>7, <2>8
  <2>10. Probe(t, k).tombstone = (t.slots[Probe(t, k).idx] = DeletedSlot)
    BY <2>6, <2>8
  <2>11. QED
    BY <1>8, <2>5, <2>6, <2>8, <2>9, <2>10
<1>15. QED
  BY <1>13, <1>14

-----------------------------------------------------------------------------
\* The tombstones of a table.
Dead(t) == {i \in DOMAIN t.slots : t.slots[i].data = DELETED}

Counted(t) == t.count = Cardinality(Live(t)) /\ t.ndeleted = Cardinality(Dead(t))

\* What the insertions see to, so that an empty slot is left.
Within(t) == t.count + t.ndeleted <= LoadLimit(t.cap)

(* The tombstones are slots of the table, none of them live, and both sets    *)
(* are finite.                                                                *)
LEMMA DeadIs ==
  ASSUME NEW t, IsTable(t)
  PROVE  /\ Dead(t) = {i \in 0 .. (t.cap - 1) : t.slots[i] = DeletedSlot}
         /\ Live(t) \subseteq 0 .. (t.cap - 1) /\ Live(t) \cap Dead(t) = {}
         /\ IsFiniteSet(Live(t)) /\ Cardinality(Live(t)) \in Nat
         /\ IsFiniteSet(Dead(t)) /\ Cardinality(Dead(t)) \in Nat
<1>1. t.slots \in [0 .. (t.cap - 1) -> Slots] /\ t.cap \in Nat
  BY TableShape
<1>2. Dead(t) = {i \in 0 .. (t.cap - 1) : t.slots[i] = DeletedSlot}
  BY <1>1, SlotShape DEF Dead
<1>3. Live(t) \subseteq 0 .. (t.cap - 1) /\ Dead(t) \subseteq 0 .. (t.cap - 1)
  BY <1>2 DEF Live
<1>4. Live(t) \cap Dead(t) = {}
  BY <1>2, <1>3, LiveIs
<1>5. IsFiniteSet(0 .. (t.cap - 1))
  <2>1. 0 \in Int /\ t.cap - 1 \in Int
    BY <1>1
  <2>2. QED
    BY <2>1, FS_Interval
<1>6. QED
  BY <1>2, <1>3, <1>4, <1>5, FS_Subset, FS_CardinalityType

\* A table within its limit has an empty slot.
LEMMA RoomLeft ==
  ASSUME NEW t, IsTable(t),
         Cardinality(Live(t)) + Cardinality(Dead(t)) <= LoadLimit(t.cap)
  PROVE  HasEmptySlot(t)
<1>1. t.cap \in Nat \ {0} /\ t.slots \in [0 .. (t.cap - 1) -> Slots]
  BY TableShape
<1>2. SUFFICES ASSUME \A i \in 0 .. (t.cap - 1) : t.slots[i].data # EMPTY
               PROVE  FALSE
  BY <1>1 DEF HasEmptySlot
<1>3. Live(t) \cup Dead(t) = 0 .. (t.cap - 1)
  <2>1. ASSUME NEW i \in 0 .. (t.cap - 1)
        PROVE  i \in Live(t) \/ i \in Dead(t)
    <3>1. t.slots[i] # EmptySlot
      BY <1>2 DEF EmptySlot
    <3>2. QED
      BY <3>1, LiveIs, DeadIs
  <2>2. QED
    BY <2>1, DeadIs
<1>4. Cardinality(0 .. (t.cap - 1)) = t.cap
  BY <1>1, FS_Interval
<1>5. Cardinality(Live(t) \cup Dead(t)) = Cardinality(Live(t)) + Cardinality(Dead(t))
  <2> DEFINE L == Live(t)
             D == Dead(t)
  <2>1. IsFiniteSet(L) /\ IsFiniteSet(D) /\ L \cap D = {}
    BY DeadIs
  <2>2. L \cap D = {} /\ Cardinality(L) \in Nat /\ Cardinality(D) \in Nat
    BY <2>1, FS_CardinalityType
  <2> HIDE DEF L, D
  <2>3. Cardinality(L \cup D) = Cardinality(L) + Cardinality(D) - Cardinality({})
    BY <2>1, FS_Union
  <2>4. QED
    BY <2>2, <2>3, FS_EmptySet DEF L, D
<1>6. LoadLimit(t.cap) < t.cap /\ LoadLimit(t.cap) \in Nat
  BY <1>1, LoadLimitBelow, LoadLimitIs
<1>7. QED
  <2>1. t.cap <= LoadLimit(t.cap)
    BY <1>3, <1>4, <1>5
  <2>2. QED
    BY <1>1, <1>6, <2>1

\* No table yet behaves as a table with no slots.
LEMMA NoTableIs ==
  /\ Live(NoTable) = {} /\ Dead(NoTable) = {}
  /\ KeysUnique(NoTable) /\ Reachable(NoTable) /\ HasEmptySlot(NoTable)
  /\ Counted(NoTable) /\ Within(NoTable) /\ LoadLimit(0) = 0
  /\ NoTable.cap = 0 /\ NoTable.count = 0 /\ NoTable.ndeleted = 0
  /\ ~ IsTable(NoTable)
  /\ \A k : ~ Stored(NoTable, k)
<1>1. NoTable.cap = 0 /\ NoTable.slots = <<>> /\ NoTable.count = 0 /\ NoTable.ndeleted = 0
  BY DEF NoTable
<1>2. Live(NoTable) = {} /\ Dead(NoTable) = {}
  BY <1>1 DEF Live, Dead
<1>3. LoadLimit(0) = 0
  <2>1. LoadLimit(0) \in Nat /\ LoadDen * LoadLimit(0) <= LoadNum * 0
    BY LoadLimitIs
  <2>2. LoadDen \in Nat \ {0} /\ LoadNum * 0 = 0
    BY DictAssumption
  <2>3. ASSUME LoadLimit(0) >= 1
        PROVE  FALSE
    <3>1. LoadDen * LoadLimit(0) >= LoadDen * 1
      BY <2>1, <2>2, <2>3
    <3>2. QED
      BY <2>1, <2>2, <3>1
  <2>4. QED
    BY <2>1, <2>3
<1>4. Counted(NoTable) /\ Within(NoTable)
  BY <1>1, <1>2, <1>3, FS_EmptySet DEF Counted, Within
<1>5. ~ IsTable(NoTable)
  BY <1>1, TableShape
<1>6. QED
  BY <1>1, <1>2, <1>3, <1>4, <1>5 DEF KeysUnique, Reachable, HasEmptySlot, Stored

\* dict_init's table, and the one grow makes, have only empty slots.
FreshTable(c, n) == [EmptyTable(c) EXCEPT !.count = n]

(* A fresh table has no live slot and no tombstone.                           *)
LEMMA EmptyTableIs ==
  ASSUME NEW c \in Caps, NEW n \in Nat, NEW t, t = FreshTable(c, n)
  PROVE  /\ Sound(t) /\ t # NoTable
         /\ t.cap = c /\ t.count = n /\ t.ndeleted = 0
         /\ Live(t) = {} /\ Dead(t) = {}
         /\ \A k : ~ Stored(t, k)
<1>1. c \in Nat \ {0}
  BY DictAssumption DEF Caps
<1>2. /\ t.cap = c /\ t.count = n /\ t.ndeleted = 0
      /\ t.slots = [i \in 0 .. (c - 1) |-> EmptySlot]
      /\ t = [cap |-> c, count |-> n, ndeleted |-> 0,
              slots |-> [i \in 0 .. (c - 1) |-> EmptySlot]]
  BY DEF EmptyTable, FreshTable
<1>3. t.slots \in [0 .. (c - 1) -> Slots] /\ 0 \in Nat
  BY <1>2 DEF Slots
<1>4. IsTable(t)
  <2> DEFINE s == t.slots
  <2>1. t = [cap |-> c, count |-> n, ndeleted |-> 0, slots |-> s]
    BY <1>2
  <2> HIDE DEF s
  <2>2. s \in [0 .. (c - 1) -> Slots]
    BY <1>3 DEF s
  <2>3. QED
    BY <1>3, <2>1, <2>2, TableMade
<1>5. EmptySlot # DeletedSlot
  BY DEF EmptySlot, DeletedSlot, EMPTY, DELETED
<1>6. \A i \in 0 .. (t.cap - 1) : t.slots[i] = EmptySlot
  BY <1>2
<1>7. Dead(t) = {} /\ Live(t) = {}
  <2>1. IsTable(t)
    BY <1>4
  <2> HIDE <1>2
  <2>2. Dead(t) = {}
    BY <1>5, <1>6, <2>1, DeadIs
  <2>3. \A i \in 0 .. (t.cap - 1) : i \notin Live(t)
    BY <1>6, <2>1, LiveIs
  <2>4. QED
    BY <2>1, <2>2, <2>3, DeadIs
<1>8. t # NoTable
  BY <1>4, NoTableIs
<1>9. QED
  BY <1>2, <1>4, <1>6, <1>7, <1>8 DEF Sound, KeysUnique, Reachable, Stored

-----------------------------------------------------------------------------
\* The probe for k gets to slot i before any empty slot it does not stop at.
Leads(t, k, i) == \E d \in 0 .. (t.cap - 1) :
                    /\ Visited(t, k, d) = i
                    /\ \A e \in 0 .. (d - 1) : t.slots[Visited(t, k, e)].data # EMPTY

\* As long as no slot becomes empty, a probe gets where it got before.
LEMMA StillLeads ==
  ASSUME NEW t, NEW u, IsTable(t), IsTable(u), u.cap = t.cap,
         \A j \in 0 .. (t.cap - 1) : t.slots[j].data # EMPTY => u.slots[j].data # EMPTY,
         NEW k \in Keys, NEW i, Leads(t, k, i)
  PROVE  Leads(u, k, i)
<1>1. PICK d \in 0 .. (t.cap - 1) :
        /\ Visited(t, k, d) = i
        /\ \A e \in 0 .. (d - 1) : t.slots[Visited(t, k, e)].data # EMPTY
  BY DEF Leads
<1>2. \A e : Visited(u, k, e) = Visited(t, k, e)
  BY DEF Visited
<1>3. ASSUME NEW e \in 0 .. (d - 1)
      PROVE  u.slots[Visited(u, k, e)].data # EMPTY
  <2>1. Visited(t, k, e) \in 0 .. (t.cap - 1)
    BY VisitedIn
  <2>2. QED
    BY <1>1, <1>2, <2>1
<1>4. QED
  BY <1>1, <1>2, <1>3 DEF Leads

\* An entry for a new key, in a slot without one that its probe gets to, leaves
\* the table sound.
LEMMA PutSound ==
  ASSUME NEW t, Sound(t), NEW k \in Keys, NEW v \in Vals, ~ Stored(t, k),
         NEW i \in 0 .. (t.cap - 1), i \notin Live(t), Leads(t, k, i),
         NEW u, IsTable(u), u.cap = t.cap, u.slots[i] = LiveSlot(k, v),
         \A j \in 0 .. (t.cap - 1) : j # i => u.slots[j] = t.slots[j]
  PROVE  /\ Sound(u)
         /\ Live(u) = Live(t) \cup {i}
         /\ Dead(u) = Dead(t) \ {i}
         /\ \A j \in Live(t) : u.slots[j] = t.slots[j]
<1>1. IsTable(t) /\ t.slots \in [0 .. (t.cap - 1) -> Slots]
  BY TableShape DEF Sound
<1>2. /\ u.slots[i] = LiveSlot(k, v)
      /\ \A j \in 0 .. (t.cap - 1) : j # i => u.slots[j] = t.slots[j]
  OBVIOUS
<1>3. u.slots[i].key = k /\ u.slots[i].data # EMPTY /\ u.slots[i] # DeletedSlot
  <2>1. Fp[k] \in 0 .. 127
    BY DictAssumption
  <2>2. QED
    BY <1>2, <2>1 DEF LiveSlot, DeletedSlot, EMPTY, DELETED
<1>4. i \notin Live(t)
  OBVIOUS
<1>5. i \in Live(u)
  BY <1>3, LiveIs
<1>6. \A j \in 0 .. (t.cap - 1) : j # i => (j \in Live(u) <=> j \in Live(t))
  <2>1. ASSUME NEW j \in 0 .. (t.cap - 1), j # i
        PROVE  j \in Live(u) <=> j \in Live(t)
    <3>1. u.slots[j] = t.slots[j]
      BY <1>2, <2>1
    <3>2. j \in Live(u) <=> u.slots[j].key \in Keys
      BY LiveIs
    <3>3. j \in Live(t) <=> t.slots[j].key \in Keys
      BY <1>1, LiveIs
    <3>4. QED
      BY <3>1, <3>2, <3>3
  <2>2. QED
    BY <2>1
<1>7. Live(t) \subseteq 0 .. (t.cap - 1) /\ Live(u) \subseteq 0 .. (t.cap - 1)
  BY DEF Live
<1>8. Live(u) = Live(t) \cup {i}
  BY <1>4, <1>5, <1>6, <1>7
<1>9. Dead(u) = Dead(t) \ {i}
  <2>1. Dead(t) = {j \in 0 .. (t.cap - 1) : t.slots[j] = DeletedSlot}
    BY <1>1, DeadIs
  <2>2. Dead(u) = {j \in 0 .. (t.cap - 1) : u.slots[j] = DeletedSlot}
    BY DeadIs
  <2>3. QED
    BY <1>2, <1>3, <2>1, <2>2
<1>10. KeysUnique(u)
  <2>1. \A j \in Live(t) : t.slots[j].key # k /\ u.slots[j].key = t.slots[j].key
    BY <1>2, <1>4, <1>7 DEF Stored
  <2>2. KeysUnique(t)
    BY DEF Sound
  <2>3. QED
    BY <1>3, <1>8, <2>1, <2>2 DEF KeysUnique
<1>11. \A j \in 0 .. (t.cap - 1) : t.slots[j].data # EMPTY => u.slots[j].data # EMPTY
  BY <1>2, <1>3
<1>12. ASSUME NEW j \in Live(u)
       PROVE  Leads(u, u.slots[j].key, j)
  <2>1. CASE j = i
    BY <1>1, <1>3, <1>11, <2>1, StillLeads
  <2>2. CASE j # i
    <3>1. j \in Live(t) /\ u.slots[j] = t.slots[j]
      BY <1>2, <1>7, <1>8, <2>2
    <3>2. t.slots[j].key \in Keys /\ Leads(t, t.slots[j].key, j)
      BY <1>1, <1>7, <3>1, LiveIs DEF Sound, Reachable, Leads
    <3>3. QED
      BY <1>1, <1>11, <3>1, <3>2, StillLeads
  <2>3. QED
    BY <2>1, <2>2
<1>13. Reachable(u)
  BY <1>12 DEF Reachable, Leads
<1>14. QED
  BY <1>2, <1>4, <1>7, <1>8, <1>9, <1>10, <1>13 DEF Sound

\* A tombstone in the place of an entry is still on the way of every probe.
LEMMA EraseSound ==
  ASSUME NEW t, Sound(t), NEW I, I \subseteq Live(t),
         NEW u, IsTable(u), u.cap = t.cap,
         \A j \in 0 .. (t.cap - 1) : u.slots[j] = IF j \in I THEN DeletedSlot ELSE t.slots[j]
  PROVE  /\ Sound(u)
         /\ Live(u) = Live(t) \ I
         /\ Dead(u) = Dead(t) \cup I
         /\ \A j \in Live(u) : u.slots[j] = t.slots[j]
<1>1. IsTable(t) /\ t.slots \in [0 .. (t.cap - 1) -> Slots]
  BY TableShape DEF Sound
<1>2. /\ \A j \in I : u.slots[j] = DeletedSlot
      /\ \A j \in 0 .. (t.cap - 1) : j \notin I => u.slots[j] = t.slots[j]
      /\ Live(t) \subseteq 0 .. (t.cap - 1) /\ Live(u) \subseteq 0 .. (t.cap - 1)
  BY <1>1 DEF Live
<1>3. \A j \in 0 .. (t.cap - 1) : j \in Live(u) <=> j \in Live(t) /\ j \notin I
  <2>1. ASSUME NEW j \in 0 .. (t.cap - 1)
        PROVE  j \in Live(u) <=> j \in Live(t) /\ j \notin I
    <3>1. j \in Live(u) <=> u.slots[j] \notin {EmptySlot, DeletedSlot}
      BY LiveIs
    <3>2. j \in Live(t) <=> t.slots[j] \notin {EmptySlot, DeletedSlot}
      BY <1>1, LiveIs
    <3>3. QED
      BY <1>2, <3>1, <3>2
  <2>2. QED
    BY <2>1
<1>4. Live(u) = Live(t) \ I
  BY <1>2, <1>3
<1>5. Dead(u) = Dead(t) \cup I
  <2>1. Dead(t) = {j \in 0 .. (t.cap - 1) : t.slots[j] = DeletedSlot}
    BY <1>1, DeadIs
  <2>2. Dead(u) = {j \in 0 .. (t.cap - 1) : u.slots[j] = DeletedSlot}
    BY DeadIs
  <2>3. QED
    BY <1>2, <2>1, <2>2
<1>6. \A j \in Live(u) : u.slots[j] = t.slots[j]
  BY <1>2, <1>4
<1>7. KeysUnique(u)
  BY <1>4, <1>6 DEF Sound, KeysUnique
<1>8. \A j \in 0 .. (t.cap - 1) : t.slots[j].data # EMPTY => u.slots[j].data # EMPTY
  BY <1>2 DEF DeletedSlot, EMPTY, DELETED
<1>9. ASSUME NEW j \in Live(u)
      PROVE  Leads(u, u.slots[j].key, j)
  <2>1. j \in Live(t) /\ u.slots[j] = t.slots[j] /\ j \in 0 .. (t.cap - 1)
    BY <1>2, <1>4, <1>6
  <2>2. t.slots[j].key \in Keys /\ Leads(t, t.slots[j].key, j)
    BY <1>1, <2>1, LiveIs DEF Sound, Reachable, Leads
  <2>3. QED
    BY <1>1, <1>8, <2>1, <2>2, StillLeads
<1>10. QED
  BY <1>4, <1>5, <1>6, <1>7, <1>9 DEF Sound, Reachable, Leads

\* A new value for a stored key changes nothing else.
LEMMA StoreSound ==
  ASSUME NEW t, Sound(t), NEW i \in Live(t), NEW v \in Vals,
         NEW u, IsTable(u), u.cap = t.cap,
         u.slots[i] = LiveSlot(t.slots[i].key, v),
         \A j \in 0 .. (t.cap - 1) : j # i => u.slots[j] = t.slots[j]
  PROVE  /\ Sound(u) /\ Live(u) = Live(t) /\ Dead(u) = Dead(t)
<1>1. IsTable(t) /\ t.slots \in [0 .. (t.cap - 1) -> Slots] /\ i \in 0 .. (t.cap - 1)
  BY TableShape DEF Sound, Live
<1>2. t.slots[i] = LiveSlot(t.slots[i].key, t.slots[i].val) /\ t.slots[i].key \in Keys
  BY <1>1, SlotShape DEF Live
<1>3. u.slots[i] = LiveSlot(t.slots[i].key, v)
  OBVIOUS
<1>4. \A j \in 0 .. (t.cap - 1) : j # i => u.slots[j] = t.slots[j]
  OBVIOUS
<1>5. \A j \in 0 .. (t.cap - 1) : /\ u.slots[j].data = t.slots[j].data
                                  /\ u.slots[j].key = t.slots[j].key
  <2>1. u.slots[i].data = t.slots[i].data /\ u.slots[i].key = t.slots[i].key
    BY <1>2, <1>3 DEF LiveSlot
  <2>2. QED
    BY <1>4, <2>1
<1>6. Live(u) = Live(t)
  BY <1>5 DEF Live, EmptyOrDeleted
<1>7. Dead(u) = Dead(t)
  BY <1>1, <1>5, TableShape DEF Dead
<1>8. KeysUnique(u)
  BY <1>5, <1>6 DEF Sound, KeysUnique, Live
<1>9. ASSUME NEW j \in Live(u)
      PROVE  Leads(u, u.slots[j].key, j)
  <2>1. j \in Live(t) /\ u.slots[j].key = t.slots[j].key /\ j \in 0 .. (t.cap - 1)
    BY <1>5, <1>6 DEF Live
  <2>2. t.slots[j].key \in Keys /\ Leads(t, t.slots[j].key, j)
    BY <1>1, <2>1, LiveIs DEF Sound, Reachable, Leads
  <2>3. QED
    BY <1>1, <1>5, <2>1, <2>2, StillLeads
<1>10. QED
  BY <1>1, <1>3, <1>4, <1>6, <1>7, <1>8, <1>9 DEF Sound, Reachable, Leads, Live

-----------------------------------------------------------------------------
\* The table a client finds: no table yet, or one that probes can rely on.
Usable(t) == t = NoTable \/ (Sound(t) /\ Counted(t) /\ Within(t))

(* The parts of a usable table, named one by one.                             *)
LEMMA UsableHas ==
  ASSUME NEW t, Usable(t)
  PROVE  KeysUnique(t) /\ Reachable(t) /\ HasEmptySlot(t) /\ Counted(t) /\ Within(t)
<1>1. CASE t = NoTable
  BY <1>1, NoTableIs
<1>2. CASE t # NoTable
  <2>1. Sound(t) /\ Counted(t) /\ Within(t)
    BY <1>2 DEF Usable
  <2>2. Cardinality(Live(t)) + Cardinality(Dead(t)) <= LoadLimit(t.cap)
    BY <2>1 DEF Counted, Within
  <2>3. QED
    BY <2>1, <2>2, RoomLeft DEF Sound
<1>3. QED
  BY <1>1, <1>2

\* What a table holds.
Has(t, k, v) == \E i \in Live(t) : t.slots[i] = LiveSlot(k, v)

\* A stored key is found, where it is stored, with its value.
LEMMA FoundIs ==
  ASSUME NEW t, Usable(t), NEW i \in Live(t)
  PROVE  /\ t.slots[i].key \in Keys /\ t.slots[i].val \in Vals
         /\ t.slots[i] = LiveSlot(t.slots[i].key, t.slots[i].val)
         /\ Probe(t, t.slots[i].key).found = TRUE
         /\ Probe(t, t.slots[i].key).idx = i
         /\ Lookup(t, t.slots[i].key) = t.slots[i].val
<1>1. Sound(t) /\ IsTable(t)
  BY NoTableIs DEF Usable, Sound
<1>2. Probe(t, t.slots[i].key) = Result(TRUE, FALSE, i)
  BY <1>1, ProbeFinds
<1>3. t.slots[i] \in Slots /\ ~ EmptyOrDeleted(t.slots[i])
  BY <1>1, LiveIs DEF Live
<1>4. QED
  BY <1>2, <1>3, SlotShape DEF Lookup, Result

\* A key that is not stored is not found.
LEMMA NotFoundIs ==
  ASSUME NEW t, Usable(t), NEW k \in Keys, ~ Stored(t, k)
  PROVE  Probe(t, k).found = FALSE /\ Lookup(t, k) = Absent
<1>1. Probe(t, k).found = FALSE
  <2>1. CASE t = NoTable
    BY <2>1 DEF NoTable, Probe, Result
  <2>2. CASE t # NoTable
    <3>1. IsTable(t) /\ HasEmptySlot(t)
      BY <2>2, UsableHas DEF Usable, Sound
    <3>2. QED
      BY <3>1, ProbeMisses
  <2>3. QED
    BY <2>1, <2>2
<1>2. QED
  BY <1>1 DEF Lookup

(* A probe finds a key exactly when some slot stores it: the statement both   *)
(* for the zeroed table and for an allocated one.                             *)
LEMMA FoundStored ==
  ASSUME NEW t, Usable(t), NEW k \in Keys
  PROVE  Probe(t, k).found <=> Stored(t, k)
<1>1. CASE Stored(t, k)
  <2>1. PICK i \in Live(t) : t.slots[i].key = k
    BY <1>1 DEF Stored
  <2>2. QED
    BY <1>1, <2>1, FoundIs
<1>2. CASE ~ Stored(t, k)
  BY <1>2, NotFoundIs
<1>3. QED
  BY <1>1, <1>2

\* The lookups answer what the table holds.
LEMMA LookupHas ==
  ASSUME NEW t, Usable(t), NEW k \in Keys
  PROVE  /\ Lookup(t, k) \in Vals \cup {Absent}
         /\ \A v \in Vals : Has(t, k, v) <=> Lookup(t, k) = v
<1>1. Absent \notin Vals
  BY DictAssumption
<1>2. CASE Stored(t, k)
  <2>1. PICK i \in Live(t) : t.slots[i].key = k
    BY <1>2 DEF Stored
  <2>2. /\ Lookup(t, k) = t.slots[i].val /\ t.slots[i].val \in Vals
        /\ t.slots[i] = LiveSlot(k, Lookup(t, k))
    <3>1. /\ Lookup(t, t.slots[i].key) = t.slots[i].val /\ t.slots[i].val \in Vals
          /\ t.slots[i] = LiveSlot(t.slots[i].key, t.slots[i].val)
      BY FoundIs, ZenonT(30)
    <3>2. QED
      BY <2>1, <3>1
  <2>3. Has(t, k, Lookup(t, k))
    BY <2>2 DEF Has
  <2>4. ASSUME NEW v \in Vals, Has(t, k, v)
        PROVE  Lookup(t, k) = v
    <3>1. PICK j \in Live(t) : t.slots[j] = LiveSlot(k, v)
      BY <2>4 DEF Has
    <3>2. t.slots[j].key = k /\ t.slots[j].val = v
      BY <3>1 DEF LiveSlot
    <3>3. QED
      BY <3>1, <3>2, FoundIs
  <2>5. QED
    BY <2>2, <2>3, <2>4
<1>3. CASE ~ Stored(t, k)
  <2>1. Lookup(t, k) = Absent
    BY <1>3, NotFoundIs
  <2>2. \A v : ~ Has(t, k, v)
    BY <1>3 DEF Stored, Has, LiveSlot
  <2>3. QED
    BY <1>1, <2>1, <2>2
<1>4. QED
  BY <1>2, <1>3

(* A key is found exactly when it has a value, and calls answer so.           *)
LEMMA FoundAnswers ==
  ASSUME NEW t, Usable(t), NEW k \in Keys
  PROVE  /\ Probe(t, k).found = (Lookup(t, k) # Absent)
         /\ (~ Probe(t, k).found) = (Lookup(t, k) = Absent)
<1>1. CASE Stored(t, k)
  <2>1. PICK i \in Live(t) : t.slots[i].key = k
    BY <1>1 DEF Stored
  <2>2. /\ Probe(t, t.slots[i].key).found = TRUE
        /\ Lookup(t, t.slots[i].key) = t.slots[i].val
        /\ t.slots[i].val \in Vals
    BY FoundIs
  <2>3. Probe(t, k).found = TRUE /\ Lookup(t, k) # Absent
    BY <2>1, <2>2, DictAssumption
  <2>4. QED
    BY <2>3, Zenon
<1>2. CASE ~ Stored(t, k)
  <2>1. Probe(t, k).found = FALSE /\ Lookup(t, k) = Absent
    BY <1>2, NotFoundIs
  <2>2. QED
    BY <2>1, Zenon
<1>3. QED
  BY <1>1, <1>2

-----------------------------------------------------------------------------
\* insert_f adds one entry, and keeps count of the tombstone it may reuse.
LEMMA InsertedIs ==
  ASSUME NEW t, Sound(t), Counted(t), t.count + t.ndeleted < LoadLimit(t.cap),
         NEW k \in Keys, NEW v \in Vals, ~ Stored(t, k),
         NEW u, u = Inserted(t, k, v)
  PROVE  /\ Usable(u) /\ IsTable(u) /\ u.cap = t.cap
         /\ u.count = t.count + 1 /\ u.ndeleted <= t.ndeleted
         /\ \E i : /\ i \notin Live(t) /\ Live(u) = Live(t) \cup {i}
                   /\ u.slots[i] = LiveSlot(k, v)
                   /\ \A j \in Live(t) : u.slots[j] = t.slots[j]
<1> DEFINE r == Probe(t, k)
           i == r.idx
<1>1. /\ IsTable(t) /\ t.slots \in [0 .. (t.cap - 1) -> Slots]
      /\ t.cap \in Caps /\ t.cap \in Nat \ {0} /\ t.count \in Nat /\ t.ndeleted \in Nat
      /\ t \in [cap : Nat, count : Nat, ndeleted : Nat, slots : [0 .. (t.cap - 1) -> Slots]]
  BY TableShape DEF Sound
<1>2. LoadLimit(t.cap) \in Nat
  BY <1>1, LoadLimitIs
<1>3. HasEmptySlot(t)
  <2>1. Cardinality(Live(t)) + Cardinality(Dead(t)) <= LoadLimit(t.cap)
    BY <1>1, <1>2 DEF Counted
  <2>2. QED
    BY <1>1, <2>1, RoomLeft
<1>4. /\ i \in 0 .. (t.cap - 1) /\ t.slots[i] \in {EmptySlot, DeletedSlot}
      /\ r.tombstone = (t.slots[i] = DeletedSlot) /\ Leads(t, k, i)
  <2>1. IsTable(t)
    BY <1>1
  <2>2. /\ Probe(t, k).idx \in 0 .. (t.cap - 1)
        /\ t.slots[Probe(t, k).idx] \in {EmptySlot, DeletedSlot}
        /\ Probe(t, k).tombstone = (t.slots[Probe(t, k).idx] = DeletedSlot)
    BY <1>3, <2>1, ProbeMisses
  <2>3. \E d \in 0 .. (t.cap - 1) :
          /\ Visited(t, k, d) = Probe(t, k).idx
          /\ \A e \in 0 .. (d - 1) : t.slots[Visited(t, k, e)].data # EMPTY
    BY <1>3, <2>1, ProbeMisses
  <2>4. Leads(t, k, Probe(t, k).idx)
    BY <2>3 DEF Leads
  <2>5. QED
    BY <2>2, <2>4
<1> HIDE DEF r
<1>5. /\ u.cap = t.cap /\ u.count = t.count + 1
      /\ u.ndeleted = IF r.tombstone THEN t.ndeleted - 1 ELSE t.ndeleted
      /\ u.slots = [t.slots EXCEPT ![i] = LiveSlot(k, v)]
      /\ u = [cap |-> u.cap, count |-> u.count, ndeleted |-> u.ndeleted, slots |-> u.slots]
  <2>1. t = [cap |-> t.cap, count |-> t.count, ndeleted |-> t.ndeleted, slots |-> t.slots]
    BY <1>1
  <2>2. u = [t EXCEPT !.count = t.count + 1,
                      !.ndeleted = IF r.tombstone THEN t.ndeleted - 1 ELSE t.ndeleted,
                      !.slots = [t.slots EXCEPT ![i] = LiveSlot(k, v)]]
    BY DEF Inserted, InsertAt, r
  <2>3. u = [cap |-> t.cap, count |-> t.count + 1,
             ndeleted |-> IF r.tombstone THEN t.ndeleted - 1 ELSE t.ndeleted,
             slots |-> [t.slots EXCEPT ![i] = LiveSlot(k, v)]]
    BY <2>1, <2>2
  <2>4. QED
    BY <2>3
<1>6. r.tombstone <=> i \in Dead(t)
  BY <1>1, <1>4, DeadIs
<1>7. t.ndeleted = Cardinality(Dead(t)) /\ t.count = Cardinality(Live(t))
  BY DEF Counted
<1>8. u.ndeleted \in Nat
  <2>1. CASE r.tombstone
    <3>1. Cardinality(Dead(t)) # 0
      BY <1>1, <1>6, <2>1, DeadIs, FS_EmptySet
    <3>2. QED
      BY <1>1, <1>5, <1>7, <2>1, <3>1
  <2>2. CASE ~ r.tombstone
    BY <1>1, <1>5, <2>2
  <2>3. QED
    BY <2>1, <2>2
<1>9. u.slots \in [0 .. (t.cap - 1) -> Slots]
  <2>1. LiveSlot(k, v) \in Slots
    BY DEF Slots
  <2>2. QED
    BY <1>1, <1>5, <2>1
<1>10. IsTable(u)
  <2> DEFINE s == u.slots
             n == u.count
             m == u.ndeleted
             c == t.cap
  <2>1. u = [cap |-> c, count |-> n, ndeleted |-> m, slots |-> s] /\ n \in Nat
    BY <1>1, <1>5
  <2>2. s \in [0 .. (c - 1) -> Slots] /\ m \in Nat /\ c \in Caps
    BY <1>1, <1>8, <1>9
  <2> HIDE DEF s, n, m, c
  <2>3. QED
    BY <2>1, <2>2, TableMade
<1> HIDE DEF i
<1>11. /\ Sound(u) /\ Live(u) = Live(t) \cup {i} /\ i \notin Live(t)
       /\ Dead(u) = Dead(t) \ {i} /\ u.slots[i] = LiveSlot(k, v)
       /\ \A j \in Live(t) : u.slots[j] = t.slots[j]
  <2>1. /\ IsTable(u) /\ u.cap = t.cap /\ u.slots[i] = LiveSlot(k, v)
        /\ \A j \in 0 .. (t.cap - 1) : j # i => u.slots[j] = t.slots[j]
    BY <1>1, <1>4, <1>5, <1>10 DEF i
  <2>2. i \in 0 .. (t.cap - 1) /\ i \notin Live(t) /\ Leads(t, k, i)
    BY <1>1, <1>4, LiveIs
  <2>3. QED
    BY <2>1, <2>2, PutSound
<1>12. IsFiniteSet(Live(t)) /\ IsFiniteSet(Dead(t))
  BY <1>1, DeadIs
<1>13. u.count = Cardinality(Live(u))
  <2>1. Cardinality(Live(t) \cup {i}) = Cardinality(Live(t)) + 1
    BY <1>11, <1>12, FS_AddElement
  <2>2. QED
    BY <1>5, <1>7, <1>11, <2>1
<1>14. u.ndeleted = Cardinality(Dead(u))
  <2>1. Cardinality(Dead(t) \ {i}) =
          IF i \in Dead(t) THEN Cardinality(Dead(t)) - 1 ELSE Cardinality(Dead(t))
    BY <1>12, FS_RemoveElement
  <2>2. QED
    BY <1>5, <1>6, <1>7, <1>11, <2>1
<1>15. u.count + u.ndeleted <= LoadLimit(u.cap) /\ u.ndeleted <= t.ndeleted
  BY <1>1, <1>2, <1>5
<1>16. Usable(u)
  BY <1>11, <1>13, <1>14, <1>15 DEF Usable, Counted, Within
<1>17. QED
  BY <1>5, <1>10, <1>11, <1>15, <1>16

\* The removals turn entries into tombstones, and keep count of both.
LEMMA ErasedIs ==
  ASSUME NEW t, Usable(t), NEW I, I \subseteq Live(t),
         NEW u, u = Erased(t, I), t # NoTable
  PROVE  /\ Usable(u) /\ IsTable(u) /\ u.cap = t.cap
         /\ Live(u) = Live(t) \ I
         /\ \A j \in Live(u) : u.slots[j] = t.slots[j]
<1>1. Sound(t) /\ Counted(t) /\ Within(t)
  BY DEF Usable
<1>2. /\ IsTable(t) /\ t.slots \in [0 .. (t.cap - 1) -> Slots]
      /\ t.cap \in Caps /\ t.cap \in Nat \ {0} /\ t.count \in Nat /\ t.ndeleted \in Nat
      /\ t \in [cap : Nat, count : Nat, ndeleted : Nat, slots : [0 .. (t.cap - 1) -> Slots]]
  BY <1>1, TableShape DEF Sound
<1>3. IsFiniteSet(I) /\ Cardinality(I) \in Nat /\ Cardinality(I) <= t.count
  <2>1. IsFiniteSet(Live(t)) /\ Cardinality(Live(t)) = t.count
    BY <1>1, <1>2, DeadIs DEF Counted
  <2>2. QED
    BY <2>1, FS_Subset, FS_CardinalityType
<1>4. /\ u.cap = t.cap /\ u.count = t.count - Cardinality(I)
      /\ u.ndeleted = t.ndeleted + Cardinality(I)
      /\ u.slots = [j \in DOMAIN t.slots |-> IF j \in I THEN DeletedSlot ELSE t.slots[j]]
      /\ u = [cap |-> u.cap, count |-> u.count, ndeleted |-> u.ndeleted, slots |-> u.slots]
  BY <1>2 DEF Erased
<1>5. u.slots \in [0 .. (t.cap - 1) -> Slots]
  BY <1>2, <1>4 DEF Slots
<1>6. IsTable(u)
  <2> DEFINE s == u.slots
             n == u.count
             m == u.ndeleted
             c == t.cap
  <2>1. u = [cap |-> c, count |-> n, ndeleted |-> m, slots |-> s] /\ n \in Nat
    BY <1>2, <1>3, <1>4
  <2>2. s \in [0 .. (c - 1) -> Slots] /\ m \in Nat /\ c \in Caps
    BY <1>2, <1>3, <1>4, <1>5
  <2> HIDE DEF s, n, m, c
  <2>3. QED
    BY <2>1, <2>2, TableMade
<1>7. /\ Sound(u) /\ Live(u) = Live(t) \ I /\ Dead(u) = Dead(t) \cup I
      /\ \A j \in Live(u) : u.slots[j] = t.slots[j]
  <2>1. /\ IsTable(u) /\ u.cap = t.cap
        /\ \A j \in 0 .. (t.cap - 1) : u.slots[j] = IF j \in I THEN DeletedSlot ELSE t.slots[j]
    BY <1>2, <1>4, <1>6
  <2>2. QED
    BY <1>1, <2>1, EraseSound
<1>8. /\ IsFiniteSet(Live(t)) /\ IsFiniteSet(Dead(t)) /\ Dead(t) \cap I = {}
      /\ Live(t) \cap I = I
  BY <1>2, DeadIs
<1>9. u.count = Cardinality(Live(u))
  <2>1. Cardinality(Live(t) \ I) = Cardinality(Live(t)) - Cardinality(Live(t) \cap I)
    BY <1>8, FS_Difference
  <2>2. QED
    BY <1>1, <1>4, <1>7, <1>8, <2>1 DEF Counted
<1>10. u.ndeleted = Cardinality(Dead(u))
  <2>1. Cardinality(Dead(t) \cup I)
          = Cardinality(Dead(t)) + Cardinality(I) - Cardinality(Dead(t) \cap I)
    BY <1>3, <1>8, FS_Union
  <2>2. QED
    <3>1. Cardinality(Dead(t)) = t.ndeleted /\ Cardinality(Dead(t) \cap I) = 0
      BY <1>1, <1>8, FS_EmptySet DEF Counted
    <3>2. Cardinality(Dead(u)) = t.ndeleted + Cardinality(I) - 0
      BY <1>7, <2>1, <3>1
    <3>3. QED
      BY <1>2, <1>3, <1>4, <3>2
<1>11. Within(u)
  <2>1. LoadLimit(t.cap) \in Nat
    BY <1>2, LoadLimitIs
  <2>2. QED
    BY <1>1, <1>2, <1>3, <1>4, <2>1 DEF Within
<1>12. QED
  BY <1>4, <1>6, <1>7, <1>9, <1>10, <1>11 DEF Usable, Counted

\* dict_set of a stored key replaces its value.
StoreAt(t, i, v) == [t EXCEPT !.slots[i].val = v]

(* Overwriting the value of a live slot moves no key and counts nothing.      *)
LEMMA StoredIs ==
  ASSUME NEW t, Usable(t), NEW i \in Live(t), NEW v \in Vals,
         NEW u, u = StoreAt(t, i, v)
  PROVE  /\ Usable(u) /\ IsTable(u) /\ u.cap = t.cap
         /\ u.count = t.count /\ u.ndeleted = t.ndeleted
         /\ Live(u) = Live(t)
         /\ u.slots[i] = LiveSlot(t.slots[i].key, v)
         /\ \A j \in Live(t) : j # i => u.slots[j] = t.slots[j]
<1>1. Sound(t) /\ Counted(t) /\ Within(t)
  BY NoTableIs DEF Usable
<1>2. /\ IsTable(t) /\ t.slots \in [0 .. (t.cap - 1) -> Slots]
      /\ t.cap \in Caps /\ t.cap \in Nat \ {0} /\ t.count \in Nat /\ t.ndeleted \in Nat
      /\ t \in [cap : Nat, count : Nat, ndeleted : Nat, slots : [0 .. (t.cap - 1) -> Slots]]
      /\ i \in 0 .. (t.cap - 1)
  BY <1>1, TableShape DEF Sound, Live
<1>3. /\ u.cap = t.cap /\ u.count = t.count /\ u.ndeleted = t.ndeleted
      /\ u.slots = [t.slots EXCEPT ![i].val = v]
      /\ u = [cap |-> u.cap, count |-> u.count, ndeleted |-> u.ndeleted, slots |-> u.slots]
  BY <1>2 DEF StoreAt
<1>4. /\ u.slots \in [0 .. (t.cap - 1) -> Slots]
      /\ u.slots[i] = LiveSlot(t.slots[i].key, v)
      /\ \A j \in 0 .. (t.cap - 1) : j # i => u.slots[j] = t.slots[j]
  <2> DEFINE s == t.slots[i]
             w == [s EXCEPT !.val = v]
  <2>1. s = LiveSlot(s.key, s.val) /\ s.key \in Keys
    BY FoundIs
  <2>2. u.slots = [t.slots EXCEPT ![i] = w]
    BY <1>2, <1>3
  <2> HIDE DEF s
  <2>3. w = LiveSlot(s.key, v)
    BY <2>1 DEF LiveSlot
  <2>4. w \in Slots
    BY <2>1, <2>3 DEF Slots
  <2> HIDE DEF w
  <2>5. u.slots[i] = w /\ \A j \in 0 .. (t.cap - 1) : j # i => u.slots[j] = t.slots[j]
    BY <1>2, <2>2
  <2>6. QED
    BY <1>2, <2>2, <2>3, <2>4, <2>5 DEF s
<1>5. IsTable(u)
  <2> DEFINE s == u.slots
             n == u.count
             m == u.ndeleted
             c == t.cap
  <2>1. u = [cap |-> c, count |-> n, ndeleted |-> m, slots |-> s] /\ n \in Nat
    BY <1>2, <1>3
  <2>2. s \in [0 .. (c - 1) -> Slots] /\ m \in Nat /\ c \in Caps
    BY <1>2, <1>3, <1>4
  <2> HIDE DEF s, n, m, c
  <2>3. QED
    BY <2>1, <2>2, TableMade
<1>6. Sound(u) /\ Live(u) = Live(t) /\ Dead(u) = Dead(t)
  <2>1. IsTable(u) /\ u.cap = t.cap
    BY <1>3, <1>5
  <2>2. QED
    BY <1>1, <1>4, <2>1, StoreSound
<1>7. Usable(u)
  BY <1>1, <1>3, <1>6 DEF Usable, Counted, Within
<1>8. QED
  BY <1>2, <1>3, <1>4, <1>5, <1>6, <1>7 DEF Live

\* The loop of grow moves an entry to a table without tombstones.
LEMMA RehashedIs ==
  ASSUME NEW t, Sound(t), Dead(t) = {}, Cardinality(Live(t)) <= LoadLimit(t.cap),
         NEW k \in Keys, NEW v \in Vals, ~ Stored(t, k),
         NEW u, u = Rehashed(t, LiveSlot(k, v))
  PROVE  /\ Sound(u) /\ Dead(u) = {}
         /\ u.cap = t.cap /\ u.count = t.count /\ u.ndeleted = t.ndeleted
         /\ \E i : /\ i \notin Live(t) /\ Live(u) = Live(t) \cup {i}
                   /\ u.slots[i] = LiveSlot(k, v)
                   /\ \A j \in Live(t) : u.slots[j] = t.slots[j]
<1> DEFINE E == {d \in 0 .. (t.cap - 1) : t.slots[Visited(t, k, d)].data = EMPTY}
           d == Least(E)
           i == Visited(t, k, d)
<1>1. /\ IsTable(t) /\ t.slots \in [0 .. (t.cap - 1) -> Slots]
      /\ t.cap \in Caps /\ t.cap \in Nat \ {0} /\ t.count \in Nat /\ t.ndeleted \in Nat
      /\ t \in [cap : Nat, count : Nat, ndeleted : Nat, slots : [0 .. (t.cap - 1) -> Slots]]
  BY TableShape DEF Sound
<1>2. HasEmptySlot(t)
  <2>1. Cardinality(Live(t)) + Cardinality(Dead(t)) <= LoadLimit(t.cap)
    BY <1>1, DeadIs, FS_EmptySet
  <2>2. QED
    BY <1>1, <2>1, RoomLeft
<1>3. E # {} /\ E \subseteq Nat
  <2>1. PICK j \in 0 .. (t.cap - 1) : t.slots[j].data = EMPTY
    BY <1>1, <1>2 DEF HasEmptySlot
  <2>2. PICK e \in 0 .. (t.cap - 1) : Visited(t, k, e) = j
    BY <1>1, VisitedOnto
  <2>3. QED
    BY <1>1, <2>1, <2>2
<1>4. d \in E /\ \A e \in E : d <= e
  <2> HIDE DEF E
  <2>1. QED
    BY <1>3, LeastIs
<1>5. d \in 0 .. (t.cap - 1) /\ d \in Nat /\ t.slots[i].data = EMPTY
  BY <1>1, <1>4
<1>6. i \in 0 .. (t.cap - 1)
  BY <1>1, <1>5, VisitedIn
<1>7. i \notin Live(t) /\ i \notin Dead(t)
  BY <1>1, <1>5, <1>6 DEF Live, EmptyOrDeleted, EMPTY
<1>8. Leads(t, k, i)
  <2>1. ASSUME NEW e \in 0 .. (d - 1)
        PROVE  t.slots[Visited(t, k, e)].data # EMPTY
    <3>1. e \in 0 .. (t.cap - 1) /\ ~ (d <= e)
      BY <1>1, <1>5
    <3>2. QED
      BY <1>4, <3>1
  <2> HIDE DEF d
  <2>2. QED
    BY <1>5, <2>1 DEF Leads
<1>9. /\ u.cap = t.cap /\ u.count = t.count /\ u.ndeleted = t.ndeleted
      /\ u.slots = [t.slots EXCEPT ![i] = LiveSlot(k, v)]
      /\ u = [cap |-> u.cap, count |-> u.count, ndeleted |-> u.ndeleted, slots |-> u.slots]
  <2>1. LiveSlot(k, v).key = k /\ LiveSlot(k, v).val = v
    BY DEF LiveSlot
  <2>2. u = [t EXCEPT !.slots[i] = LiveSlot(k, v)]
    BY <2>1 DEF Rehashed
  <2> HIDE DEF i
  <2>3. QED
    BY <1>1, <2>2
<1> HIDE DEF i, d, E
<1>10. u.slots \in [0 .. (t.cap - 1) -> Slots]
  <2>1. LiveSlot(k, v) \in Slots
    BY DEF Slots
  <2>2. QED
    BY <1>1, <1>9, <2>1
<1>11. IsTable(u)
  <2> DEFINE s == u.slots
             n == u.count
             m == u.ndeleted
             c == t.cap
  <2>1. u = [cap |-> c, count |-> n, ndeleted |-> m, slots |-> s] /\ n \in Nat
    BY <1>1, <1>9
  <2>2. s \in [0 .. (c - 1) -> Slots] /\ m \in Nat /\ c \in Caps
    BY <1>1, <1>9, <1>10
  <2> HIDE DEF s, n, m, c
  <2>3. QED
    BY <2>1, <2>2, TableMade
<1>12. /\ u.slots[i] = LiveSlot(k, v)
       /\ \A j \in 0 .. (t.cap - 1) : j # i => u.slots[j] = t.slots[j]
  BY <1>1, <1>6, <1>9
<1>13. /\ Sound(u) /\ Live(u) = Live(t) \cup {i} /\ Dead(u) = Dead(t) \ {i}
       /\ \A j \in Live(t) : u.slots[j] = t.slots[j]
  <2>1. u.cap = t.cap
    BY <1>9
  <2>2. QED
    BY <1>6, <1>7, <1>8, <1>11, <1>12, <2>1, PutSound
<1>14. QED
  BY <1>7, <1>9, <1>12, <1>13

-----------------------------------------------------------------------------
\* The capacity for n entries is the least that has room for them.
LEMMA CapForCountIs ==
  ASSUME NEW n \in Nat, CapsForCount(n) # {}
  PROVE  /\ CapForCount(n) \in Caps /\ CapForCount(n) \in Nat \ {0}
         /\ n <= LoadLimit(CapForCount(n))
         /\ \A c \in Caps : n <= LoadLimit(c) => CapForCount(n) <= c
<1> DEFINE S == CapsForCount(n)
<1>1. S \subseteq Nat /\ S # {} /\ Caps \subseteq Nat \ {0}
  BY DictAssumption DEF CapsForCount, Caps
<1>2. Least(S) \in S /\ \A e \in S : Least(S) <= e
  <2> HIDE DEF S
  <2>1. QED
    BY <1>1, LeastIs
<1>3. QED
  BY <1>1, <1>2 DEF CapsForCount, CapForCount

\* The capacity a full table grows to has room for one more entry, and is larger
\* only when the live entries fill the present one.
LEMMA GrowthTargetIs ==
  ASSUME NEW t, IsTable(t), CapsForCount(t.count + 1) # {}
  PROVE  /\ GrowthTarget(t) \in Caps
         /\ t.count + 1 <= LoadLimit(GrowthTarget(t))
         /\ GrowthTarget(t) > t.cap => LoadLimit(t.cap) <= t.count
<1> DEFINE c == CapForCount(t.count + 1)
<1>1. t.cap \in Caps /\ t.cap \in Nat \ {0} /\ t.count \in Nat
  BY TableShape
<1>2. t.count + 1 \in Nat
  BY <1>1
<1>3. /\ c \in Caps /\ c \in Nat \ {0} /\ t.count + 1 <= LoadLimit(c)
      /\ \A b \in Caps : t.count + 1 <= LoadLimit(b) => c <= b
  BY <1>2, CapForCountIs
<1> HIDE DEF c
<1>4. GrowthTarget(t) = IF c > t.cap THEN c ELSE t.cap
  BY DEF GrowthTarget, Larger, c
<1>5. LoadLimit(c) \in Nat /\ LoadLimit(t.cap) \in Nat
  BY <1>1, <1>3, LoadLimitIs
<1>6. CASE c > t.cap
  BY <1>1, <1>3, <1>4, <1>5, <1>6
<1>7. CASE ~ (c > t.cap)
  <2>1. LoadLimit(c) <= LoadLimit(t.cap)
    BY <1>1, <1>3, <1>7, LoadLimitGrows
  <2>2. QED
    BY <1>1, <1>2, <1>3, <1>4, <1>5, <1>7, <2>1
<1>8. QED
  BY <1>6, <1>7

-----------------------------------------------------------------------------
\* What the client sees of a table.
MapOf(t) == [k \in Keys |-> Lookup(t, k)]

\* Tables that hold the same look the same.
LEMMA SameMaps ==
  ASSUME NEW t, NEW u, Usable(t), Usable(u),
         \A k \in Keys, v \in Vals : Has(u, k, v) <=> Has(t, k, v)
  PROVE  MapOf(u) = MapOf(t)
<1>1. ASSUME NEW k \in Keys
      PROVE  Lookup(u, k) = Lookup(t, k)
  <2>1. /\ Lookup(t, k) \in Vals \cup {Absent}
        /\ \A v \in Vals : Has(t, k, v) <=> Lookup(t, k) = v
    BY LookupHas
  <2>2. /\ Lookup(u, k) \in Vals \cup {Absent}
        /\ \A v \in Vals : Has(u, k, v) <=> Lookup(u, k) = v
    BY LookupHas
  <2>3. QED
    BY <2>1, <2>2
<1>2. QED
  BY <1>1 DEF MapOf

\* One entry more, or one value replaced, is a Put of the map.
WithValue(t, k, v) == [MapOf(t) EXCEPT ![k] = v]

(* A table that has what another has, but for one key, holds the map with     *)
(* that key replaced.                                                         *)
LEMMA PutMaps ==
  ASSUME NEW t, NEW u, Usable(t), Usable(u), NEW k \in Keys, NEW v \in Vals,
         \A x \in Keys, w \in Vals : Has(u, x, w) <=> IF x = k THEN w = v ELSE Has(t, x, w)
  PROVE  MapOf(u) = WithValue(t, k, v)
<1>1. ASSUME NEW x \in Keys
      PROVE  Lookup(u, x) = IF x = k THEN v ELSE Lookup(t, x)
  <2>1. /\ Lookup(t, x) \in Vals \cup {Absent}
        /\ \A w \in Vals : Has(t, x, w) <=> Lookup(t, x) = w
    BY LookupHas
  <2>2. /\ Lookup(u, x) \in Vals \cup {Absent}
        /\ \A w \in Vals : Has(u, x, w) <=> Lookup(u, x) = w
    BY LookupHas
  <2>3. QED
    BY <2>1, <2>2
<1>2. QED
  BY <1>1 DEF MapOf, WithValue

\* The map without the keys of a set.
Without(t, K) == [k \in Keys |-> IF k \in K THEN Absent ELSE Lookup(t, k)]

(* A table that has what another has, but for the keys of a set, holds the    *)
(* map without these keys.                                                    *)
LEMMA EraseMaps ==
  ASSUME NEW t, NEW u, Usable(t), Usable(u), NEW K,
         \A k \in Keys, v \in Vals : Has(u, k, v) <=> k \notin K /\ Has(t, k, v)
  PROVE  MapOf(u) = Without(t, K)
<1>1. ASSUME NEW k \in Keys
      PROVE  Lookup(u, k) = IF k \in K THEN Absent ELSE Lookup(t, k)
  <2>1. /\ Lookup(t, k) \in Vals \cup {Absent}
        /\ \A v \in Vals : Has(t, k, v) <=> Lookup(t, k) = v
    BY LookupHas
  <2>2. /\ Lookup(u, k) \in Vals \cup {Absent}
        /\ \A v \in Vals : Has(u, k, v) <=> Lookup(u, k) = v
    BY LookupHas
  <2>3. CASE k \in K
    BY <2>2, <2>3
  <2>4. CASE k \notin K
    BY <2>1, <2>2, <2>4
  <2>5. QED
    BY <2>3, <2>4
<1>2. QED
  BY <1>1 DEF MapOf, Without

-----------------------------------------------------------------------------
\* The map m, after the pairs of s were stored one after the other.
Final(m, s) ==
  [k \in Keys |->
     LET I == {i \in DOMAIN s : s[i][1] = k}
     IN  IF I = {} THEN m[k] ELSE s[CHOOSE i \in I : \A j \in I : j <= i][2]]

(* The last pair with a key decides; without one the map does.                *)
LEMMA FinalAt ==
  ASSUME NEW m, NEW s, DOMAIN s \subseteq Nat, NEW k \in Keys
  PROVE  /\ (\A i \in DOMAIN s : s[i][1] # k) => Final(m, s)[k] = m[k]
         /\ \A g \in DOMAIN s :
              s[g][1] = k /\ (\A j \in DOMAIN s : s[j][1] = k => j <= g)
                => Final(m, s)[k] = s[g][2]
<1> DEFINE I == {i \in DOMAIN s : s[i][1] = k}
           h == CHOOSE i \in I : \A j \in I : j <= i
<1>1. Final(m, s)[k] = IF I = {} THEN m[k] ELSE s[h][2]
  BY DEF Final
<1>2. ASSUME \A i \in DOMAIN s : s[i][1] # k
      PROVE  Final(m, s)[k] = m[k]
  <2>1. I = {}
    BY <1>2
  <2> HIDE DEF I, h
  <2>2. QED
    BY <1>1, <2>1
<1>3. ASSUME NEW g \in DOMAIN s, s[g][1] = k, \A j \in DOMAIN s : s[j][1] = k => j <= g
      PROVE  Final(m, s)[k] = s[g][2]
  <2>1. g \in I /\ \A j \in I : j <= g
    BY <1>3
  <2>2. I \subseteq Nat
    OBVIOUS
  <2> HIDE DEF I
  <2>3. h \in I /\ \A j \in I : j <= h
    BY <2>1
  <2>4. h = g
    <3>1. h <= g /\ g <= h /\ h \in Nat /\ g \in Nat
      BY <2>1, <2>2, <2>3
    <3> HIDE DEF h
    <3>2. QED
      BY <3>1
  <2>5. QED
    BY <1>1, <2>1, <2>4
<1>4. QED
  BY <1>2, <1>3

(* The same, where a place is known to be the last with its key.              *)
LEMMA FinalLast ==
  ASSUME NEW m, NEW s, DOMAIN s \subseteq Nat, NEW k \in Keys,
         NEW g \in DOMAIN s, s[g][1] = k, \A j \in DOMAIN s : s[j][1] = k => j <= g
  PROVE  Final(m, s)[k] = s[g][2]
<1> DEFINE Last(f) == f[k]
<1>1. \A h \in DOMAIN s :
        s[h][1] = k /\ (\A j \in DOMAIN s : s[j][1] = k => j <= h)
          => Last(Final(m, s)) = s[h][2]
  BY FinalAt
<1> HIDE DEF Last
<1>2. Last(Final(m, s)) = s[g][2]
  BY <1>1
<1>3. QED
  BY <1>2 DEF Last

(* Nothing to store leaves the map.                                           *)
LEMMA FinalNone ==
  ASSUME NEW t
  PROVE  Final(MapOf(t), <<>>) = MapOf(t)
<1>1. \A k \in Keys : Final(MapOf(t), <<>>)[k] = MapOf(t)[k]
  BY FinalAt
<1>2. QED
  BY <1>1 DEF Final, MapOf

\* Storing the first pair at once, and the others then, gives the same map.
LEMMA FinalHead ==
  ASSUME NEW t, NEW u, NEW s \in Seq(Keys \X Vals), s # <<>>,
         MapOf(u) = WithValue(t, Head(s)[1], Head(s)[2])
  PROVE  Final(MapOf(u), Tail(s)) = Final(MapOf(t), s)
<1> DEFINE r == Tail(s)
           n == Len(s)
<1>1. /\ n \in Nat \ {0} /\ DOMAIN s = 1 .. n /\ Head(s) = s[1]
      /\ DOMAIN r = 1 .. (n - 1) /\ \A i \in 1 .. (n - 1) : r[i] = s[i + 1]
  OBVIOUS
<1>2. ASSUME NEW k \in Keys
      PROVE  Final(MapOf(u), r)[k] = Final(MapOf(t), s)[k]
  <2> HIDE DEF r, n
  <2>1. DOMAIN s \subseteq Nat /\ DOMAIN r \subseteq Nat
    BY <1>1
  <2>2. CASE \E i \in DOMAIN r : r[i][1] = k
    <3> DEFINE J == {i \in DOMAIN r : r[i][1] = k}
    <3>1. J # {} /\ J \subseteq Nat /\ \A j \in J : j <= n
      BY <1>1, <2>2
    <3>2. PICK g \in J : \A j \in J : j <= g
      <4> HIDE DEF J
      <4>1. n \in Nat
        BY <1>1
      <4>2. QED
        BY <3>1, <4>1, GreatestExists
    <3>3. g \in 1 .. (n - 1) /\ r[g][1] = k /\ \A j \in DOMAIN r : r[j][1] = k => j <= g
      BY <1>1, <3>2
    <3>4. Final(MapOf(u), r)[k] = r[g][2]
      <4>1. g \in DOMAIN r
        BY <1>1, <3>3
      <4>2. QED
        BY <2>1, <3>3, <4>1, FinalLast
    <3>5. g + 1 \in 1 .. n /\ s[g + 1] = r[g]
      BY <1>1, <3>3
    <3>6. ASSUME NEW j \in 1 .. n, s[j][1] = k
          PROVE  j <= g + 1
      <4>1. CASE j = 1
        BY <3>3, <4>1
      <4>2. CASE j # 1
        <5>1. j - 1 \in 1 .. (n - 1) /\ r[j - 1] = s[j]
          BY <1>1, <4>2
        <5>2. j - 1 <= g
          BY <1>1, <3>3, <3>6, <5>1
        <5>3. QED
          BY <1>1, <3>3, <5>2
      <4>3. QED
        BY <4>1, <4>2
    <3>7. Final(MapOf(t), s)[k] = s[g + 1][2]
      <4>1. g + 1 \in DOMAIN s /\ s[g + 1][1] = k /\ \A j \in DOMAIN s : s[j][1] = k => j <= g + 1
        BY <1>1, <3>3, <3>5, <3>6
      <4>2. QED
        BY <2>1, <4>1, FinalLast
    <3>8. QED
      BY <3>4, <3>5, <3>7
  <2>3. CASE \A i \in DOMAIN r : r[i][1] # k
    <3>1. Final(MapOf(u), r)[k] = MapOf(u)[k]
      BY <2>1, <2>3, FinalAt
    <3>2. \A j \in 1 .. n : s[j][1] = k => j = 1
      <4>1. ASSUME NEW j \in 1 .. n, s[j][1] = k, j # 1
            PROVE  FALSE
        <5>1. j - 1 \in 1 .. (n - 1) /\ r[j - 1] = s[j]
          BY <1>1, <4>1
        <5>2. QED
          BY <1>1, <2>3, <4>1, <5>1
      <4>2. QED
        BY <4>1
    <3>3. CASE s[1][1] = k
      <4>1. 1 \in DOMAIN s /\ \A j \in DOMAIN s : s[j][1] = k => j <= 1
        BY <1>1, <3>2
      <4>2. Final(MapOf(t), s)[k] = s[1][2]
        BY <2>1, <3>3, <4>1, FinalAt
      <4>3. MapOf(u)[k] = s[1][2]
        BY <1>1, <3>3 DEF WithValue, MapOf
      <4>4. QED
        BY <3>1, <4>2, <4>3
    <3>4. CASE s[1][1] # k
      <4>1. \A j \in DOMAIN s : s[j][1] # k
        BY <1>1, <3>2, <3>4
      <4>2. Final(MapOf(t), s)[k] = MapOf(t)[k]
        BY <2>1, <4>1, FinalAt
      <4>3. MapOf(u)[k] = MapOf(t)[k]
        BY <1>1, <3>4 DEF WithValue, MapOf
      <4>4. QED
        BY <3>1, <4>2, <4>3
    <3>5. QED
      BY <3>3, <3>4
  <2>4. QED
    BY <2>2, <2>3
<1>3. QED
  BY <1>2 DEF Final

(* What the client sees is the table, with what is still to be stored.        *)
LEMMA SeenIs ==
  /\ Seen = Final(MapOf(table), Puts)
  /\ Seen' = Final(MapOf(table'), Puts')
BY DEF Seen, Final, MapOf

(* After a call that is done there is nothing left to store.                  *)
LEMMA SeenDone ==
  /\ pending = <<>> /\ todo = <<>> => Seen = MapOf(table)
  /\ pending' = <<>> /\ todo' = <<>> => Seen' = MapOf(table')
<1>1. pending = <<>> /\ todo = <<>> => Puts = <<>>
  BY DEF Puts
<1>2. pending' = <<>> /\ todo' = <<>> => Puts' = <<>>
  BY DEF Puts
<1>3. Final(MapOf(table), <<>>) = MapOf(table) /\ Final(MapOf(table'), <<>>) = MapOf(table')
  BY FinalNone
<1>4. QED
  BY <1>1, <1>2, <1>3, SeenIs

(* A live slot determines its key and its value.                              *)
LEMMA LiveSlotInjective ==
  ASSUME NEW k, NEW v, NEW x, NEW w, LiveSlot(k, v) = LiveSlot(x, w)
  PROVE  k = x /\ v = w
BY DEF LiveSlot

\* What an insertion of a new key does, in terms of what the table holds.
LEMMA AddedHas ==
  ASSUME NEW t, NEW u, NEW k, NEW v, ~ Stored(t, k),
         \E i : /\ i \notin Live(t) /\ Live(u) = Live(t) \cup {i}
                /\ u.slots[i] = LiveSlot(k, v)
                /\ \A j \in Live(t) : u.slots[j] = t.slots[j],
         NEW x, NEW w
  PROVE  Has(u, x, w) <=> IF x = k THEN w = v ELSE Has(t, x, w)
<1>1. PICK i : /\ i \notin Live(t) /\ Live(u) = Live(t) \cup {i}
               /\ u.slots[i] = LiveSlot(k, v)
               /\ \A j \in Live(t) : u.slots[j] = t.slots[j]
  OBVIOUS
<1>2. Has(u, x, w) <=> (LiveSlot(k, v) = LiveSlot(x, w) \/ Has(t, x, w))
  BY <1>1 DEF Has
<1>3. LiveSlot(k, v) = LiveSlot(x, w) <=> k = x /\ v = w
  BY LiveSlotInjective
<1>4. x = k => ~ Has(t, x, w)
  BY DEF Has, Stored, LiveSlot
<1>5. QED
  BY <1>2, <1>3, <1>4

-----------------------------------------------------------------------------
\* The live slots the loop of grow has moved.
Moved == {i \in Live(table) : i < idx}

\* new_self holds just what the loop has moved to it.
Copied ==
  /\ \A i \in Moved : \E j \in Live(fresh) : fresh.slots[j] = table.slots[i]
  /\ \A j \in Live(fresh) : \E i \in Moved : fresh.slots[j] = table.slots[i]
  /\ Cardinality(Live(fresh)) = Cardinality(Moved)

\* new_self has no tombstones, and has room for what is still to come.
FreshOK ==
  /\ table # NoTable
  /\ Sound(fresh) /\ Dead(fresh) = {}
  /\ fresh.count = table.count /\ fresh.ndeleted = 0
  /\ table.count <= LoadLimit(fresh.cap)
  /\ Copied

\* The insertion that waits for grow is of a new key, has its room, and has
\* called for it.
PendingOK ==
  pending # <<>> => /\ ~ Stored(table, pending[1])
                    /\ table.count + 1 <= LoadLimit(fresh.cap)
                    /\ fresh.cap > table.cap => LoadLimit(table.cap) <= table.count
                    /\ room <= table.count

\* What dict_reserve promised is still there.
RoomOK ==
  room > table.count => IF Growing THEN room <= LoadLimit(fresh.cap)
                        ELSE room + table.ndeleted <= LoadLimit(table.cap)

IInv ==
  /\ TypeOK
  /\ Usable(table)
  /\ IF Growing THEN FreshOK /\ PendingOK ELSE idx = 0 /\ pending = <<>>
  /\ RoomOK

(* The types of the fields of a usable table.                                 *)
LEMMA UsableShape ==
  ASSUME NEW t, Usable(t)
  PROVE  /\ t = NoTable \/ IsTable(t)
         /\ t.cap \in Nat /\ t.count \in Nat /\ t.ndeleted \in Nat
         /\ t # NoTable <=> t.cap # 0
         /\ LoadLimit(t.cap) \in Nat
<1>1. CASE t = NoTable
  BY <1>1, NoTableIs
<1>2. CASE t # NoTable
  BY <1>2, TableShape, LoadLimitIs DEF Usable, Sound
<1>3. QED
  BY <1>1, <1>2

\* A step that starts no rehash, and leaves a table that can be relied on.
LEMMA QuietStep ==
  ASSUME IInv, ~ Growing, NotGrowing, Usable(table'),
         todo' \in Seq(Keys \X Vals), room' \in Nat,
         room' > table'.count => room' + table'.ndeleted <= LoadLimit(table'.cap)
  PROVE  IInv'
<1>1. fresh = NoTable /\ idx = 0 /\ pending = <<>>
  BY DEF IInv, Growing
<1>2. fresh' = NoTable /\ idx' = 0 /\ pending' = <<>> /\ ~ Growing'
  BY <1>1 DEF NotGrowing, Growing
<1>3. TypeOK'
  <2>1. (table' = NoTable \/ IsTable(table')) /\ table'.cap \in Nat
    BY UsableShape
  <2>2. QED
    BY <1>2, <2>1 DEF TypeOK
<1>4. QED
  BY <1>2, <1>3 DEF IInv, RoomOK

\* A step that starts a rehash, of a table with room for what it holds and for
\* the insertion that waits.
LEMMA StartGrowStep ==
  ASSUME IInv, ~ Growing, table # NoTable,
         NEW c \in Caps, table.count <= LoadLimit(c),
         NEW p, StartGrow(c, p),
         p = <<>> \/ (/\ p \in Keys \X Vals /\ ~ Stored(table, p[1])
                      /\ table.count + 1 <= LoadLimit(c)
                      /\ c > table.cap => LoadLimit(table.cap) <= table.count
                      /\ room' <= table.count),
         todo' \in Seq(Keys \X Vals), room' \in Nat,
         room' > table.count => room' <= LoadLimit(c)
  PROVE  IInv'
<1>1. Usable(table) /\ IsTable(table) /\ table.cap \in Nat /\ table.count \in Nat
  BY UsableShape DEF IInv
<1>2. /\ table' = table /\ idx' = 0 /\ pending' = p
      /\ fresh' = [EmptyTable(c) EXCEPT !.count = table.count]
  BY DEF StartGrow
<1>3. /\ Sound(fresh') /\ fresh' # NoTable
      /\ fresh'.cap = c /\ fresh'.count = table.count /\ fresh'.ndeleted = 0
      /\ Live(fresh') = {} /\ Dead(fresh') = {}
  <2> DEFINE f == fresh'
             n == table.count
  <2>1. n \in Nat /\ f = FreshTable(c, n)
    BY <1>1, <1>2 DEF FreshTable
  <2> HIDE DEF f, n
  <2>2. /\ Sound(f) /\ f # NoTable /\ f.cap = c /\ f.count = n /\ f.ndeleted = 0
        /\ Live(f) = {} /\ Dead(f) = {}
    BY <2>1, EmptyTableIs
  <2>3. QED
    BY <2>2 DEF f, n
<1>4. Growing'
  BY <1>3 DEF Growing
<1>5. Moved' = {}
  BY <1>1, <1>2 DEF Moved, Live
<1>6. TypeOK'
  BY <1>1, <1>2, <1>3 DEF TypeOK, Sound
<1>7. FreshOK'
  BY <1>2, <1>3, <1>5 DEF FreshOK, Copied
<1>8. PendingOK'
  BY <1>2, <1>3 DEF PendingOK
<1>9. RoomOK'
  BY <1>2, <1>3, <1>4 DEF RoomOK
<1>10. QED
  BY <1>1, <1>2, <1>4, <1>6, <1>7, <1>8, <1>9 DEF IInv

\* One iteration of the loop of grow: the entry of this slot is not yet in new_self,
\* which has room for it.
LEMMA GrowStepKeeps ==
  ASSUME IInv, GrowStep
  PROVE  IInv'
<1>1. /\ Growing /\ idx \in Nat /\ idx < table.cap /\ idx' = idx + 1
      /\ table' = table /\ pending' = pending /\ todo' = todo /\ room' = room
      /\ fresh' = IF idx \in Live(table) THEN Rehashed(fresh, table.slots[idx]) ELSE fresh
  BY DEF GrowStep, IInv, TypeOK
<1>2. /\ TypeOK /\ Usable(table) /\ FreshOK /\ PendingOK /\ RoomOK
  BY <1>1 DEF IInv
<1>3. /\ table # NoTable /\ Sound(fresh) /\ Dead(fresh) = {}
      /\ fresh.count = table.count /\ fresh.ndeleted = 0
      /\ table.count <= LoadLimit(fresh.cap) /\ Copied
  BY <1>2 DEF FreshOK
<1>4. /\ IsTable(table) /\ table.cap \in Nat \ {0} /\ table.count \in Nat
      /\ IsTable(fresh) /\ KeysUnique(table)
  BY <1>2, <1>3, UsableShape, UsableHas DEF Sound
<1>5. Live(table) \subseteq 0 .. (table.cap - 1)
  BY DEF Live
<1>6. CASE idx \notin Live(table)
  <2>1. fresh' = fresh
    BY <1>1, <1>6
  <2>2. Moved' = Moved
    BY <1>1, <1>5, <1>6 DEF Moved
  <2>3. TypeOK'
    BY <1>1, <1>2, <1>4, <2>1 DEF TypeOK
  <2>4. FreshOK'
    BY <1>1, <1>2, <2>1, <2>2 DEF FreshOK, Copied
  <2>5. QED
    BY <1>1, <1>2, <2>1, <2>3, <2>4 DEF IInv, PendingOK, RoomOK, Growing
<1>7. CASE idx \in Live(table)
  <2> DEFINE k == table.slots[idx].key
             v == table.slots[idx].val
  <2>1. k \in Keys /\ v \in Vals /\ table.slots[idx] = LiveSlot(k, v)
    BY <1>2, <1>7, FoundIs
  <2>2. Moved' = Moved \cup {idx} /\ idx \notin Moved /\ Moved \subseteq Live(table)
    BY <1>1, <1>5, <1>7 DEF Moved
  <2>3. IsFiniteSet(Live(table)) /\ IsFiniteSet(Moved) /\ IsFiniteSet(Live(fresh))
    BY <1>4, <2>2, DeadIs, FS_Subset
  <2>4. Cardinality(Live(fresh)) <= LoadLimit(fresh.cap)
    <3>1. Cardinality(Moved) <= Cardinality(Live(table)) /\ Cardinality(Moved) \in Nat
      BY <2>2, <2>3, FS_Subset, FS_CardinalityType
    <3>2. Cardinality(Live(table)) = table.count /\ Cardinality(Live(fresh)) = Cardinality(Moved)
      BY <1>2, <1>3, UsableHas DEF Counted, Copied
    <3>3. LoadLimit(fresh.cap) \in Nat
      BY <1>4, TableShape, LoadLimitIs
    <3>4. QED
      BY <1>3, <1>4, <3>1, <3>2, <3>3
  <2>5. ~ Stored(fresh, k)
    <3>1. SUFFICES ASSUME NEW j \in Live(fresh), fresh.slots[j].key = k
                   PROVE  FALSE
      BY DEF Stored
    <3>2. PICK i \in Moved : fresh.slots[j] = table.slots[i]
      BY <1>3 DEF Copied
    <3>3. i = idx
      BY <1>4, <1>7, <2>2, <3>1, <3>2 DEF KeysUnique
    <3>4. QED
      BY <2>2, <3>2, <3>3
  <2>6. fresh' = Rehashed(fresh, LiveSlot(k, v))
    BY <1>1, <1>7, <2>1
  <2> HIDE DEF k, v
  <2>7. /\ Sound(fresh') /\ Dead(fresh') = {} /\ fresh'.cap = fresh.cap
        /\ fresh'.count = fresh.count /\ fresh'.ndeleted = fresh.ndeleted
        /\ \E i : /\ i \notin Live(fresh) /\ Live(fresh') = Live(fresh) \cup {i}
                  /\ fresh'.slots[i] = LiveSlot(k, v)
                  /\ \A j \in Live(fresh) : fresh'.slots[j] = fresh.slots[j]
    BY <1>3, <2>1, <2>4, <2>5, <2>6, RehashedIs
  <2>8. PICK n : /\ n \notin Live(fresh) /\ Live(fresh') = Live(fresh) \cup {n}
                 /\ fresh'.slots[n] = LiveSlot(k, v)
                 /\ \A j \in Live(fresh) : fresh'.slots[j] = fresh.slots[j]
    BY <2>7
  <2>9. Copied'
    <3>1. \A i \in Moved' : \E j \in Live(fresh') : fresh'.slots[j] = table'.slots[i]
      BY <1>1, <1>3, <2>1, <2>2, <2>8 DEF Copied
    <3>2. \A j \in Live(fresh') : \E i \in Moved' : fresh'.slots[j] = table'.slots[i]
      BY <1>1, <1>3, <2>1, <2>2, <2>8 DEF Copied
    <3>3. Cardinality(Live(fresh')) = Cardinality(Live(fresh)) + 1
      BY <2>3, <2>8, FS_AddElement
    <3>4. Cardinality(Moved') = Cardinality(Moved) + 1
      BY <2>2, <2>3, FS_AddElement
    <3>5. Cardinality(Live(fresh)) = Cardinality(Moved)
      BY <1>3 DEF Copied
    <3>6. QED
      BY <3>1, <3>2, <3>3, <3>4, <3>5 DEF Copied
  <2>10. fresh' # NoTable
    BY <2>7, NoTableIs DEF Sound
  <2>11. TypeOK'
    BY <1>1, <1>2, <1>4, <2>7 DEF TypeOK, Sound
  <2>12. FreshOK'
    BY <1>1, <1>3, <2>7, <2>9 DEF FreshOK
  <2>13. QED
    BY <1>1, <1>2, <2>7, <2>10, <2>11, <2>12 DEF IInv, PendingOK, RoomOK, Growing
<1>8. QED
  BY <1>6, <1>7

-----------------------------------------------------------------------------
(* A table just allocated is usable and stores nothing.                       *)
LEMMA EmptyTableUsable ==
  ASSUME NEW c \in Caps, NEW t, t = EmptyTable(c)
  PROVE  /\ Usable(t) /\ Sound(t) /\ Counted(t) /\ t # NoTable
         /\ t.cap = c /\ t.count = 0 /\ t.ndeleted = 0 /\ Live(t) = {}
         /\ \A k : ~ Stored(t, k)
         /\ \A k, v : ~ Has(t, k, v)
<1>1. t = FreshTable(c, 0)
  <2> DEFINE s == [i \in 0 .. (c - 1) |-> EmptySlot]
  <2>1. EmptyTable(c) = [cap |-> c, count |-> 0, ndeleted |-> 0, slots |-> s]
    BY DEF EmptyTable
  <2> HIDE DEF s
  <2>2. QED
    BY <2>1 DEF FreshTable
<1>2. /\ Sound(t) /\ t # NoTable /\ t.cap = c /\ t.count = 0 /\ t.ndeleted = 0
      /\ Live(t) = {} /\ Dead(t) = {} /\ \A k : ~ Stored(t, k)
  BY <1>1, EmptyTableIs
<1>3. c \in Nat /\ LoadLimit(c) \in Nat
  BY DictAssumption, LoadLimitIs DEF Caps
<1>4. Counted(t) /\ Within(t)
  BY <1>2, <1>3, FS_EmptySet DEF Counted, Within
<1>5. QED
  BY <1>2, <1>4 DEF Usable, Has

\* The pair is stored, or the rehash that it waits for has started.
Stores(k, v) ==
  \/ MapOf(table') = WithValue(table, k, v) /\ pending' = <<>>
  \/ table' = table /\ pending' = <<k, v>>

\* An entry that stays stored stays in its slot.
StaysPut(t, u) ==
  \A i \in Live(t), j \in Live(u) : t.slots[i].key = u.slots[j].key => i = j

(* Leaving the table alone moves no slot.                                     *)
LEMMA SameTable ==
  ASSUME NEW t, Usable(t)
  PROVE  StaysPut(t, t)
BY UsableHas DEF StaysPut, KeysUnique

\* A table without entries is the map without values.
LEMMA NoneLeft ==
  ASSUME NEW t, NEW u, Usable(u), Live(u) = {}
  PROVE  MapOf(u) = Abstract!Nowhere /\ StaysPut(t, u)
<1>1. ASSUME NEW k \in Keys
      PROVE  Lookup(u, k) = Absent
  <2>1. ~ Stored(u, k)
    BY DEF Stored
  <2>2. QED
    BY <2>1, NotFoundIs
<1>2. QED
  BY <1>1 DEF MapOf, Abstract!Nowhere, StaysPut

\* insert_f adds its key to the map and moves no entry.
LEMMA InsertedMaps ==
  ASSUME NEW t, Sound(t), Counted(t), Usable(t), t.count + t.ndeleted < LoadLimit(t.cap),
         NEW k \in Keys, NEW v \in Vals, ~ Stored(t, k),
         NEW u, u = Inserted(t, k, v)
  PROVE  /\ Usable(u) /\ u.cap = t.cap /\ u.count = t.count + 1
         /\ u.ndeleted <= t.ndeleted
         /\ MapOf(u) = WithValue(t, k, v)
         /\ StaysPut(t, u)
<1>1. /\ Usable(u) /\ IsTable(u) /\ u.cap = t.cap
      /\ u.count = t.count + 1 /\ u.ndeleted <= t.ndeleted
      /\ \E i : /\ i \notin Live(t) /\ Live(u) = Live(t) \cup {i}
                /\ u.slots[i] = LiveSlot(k, v)
                /\ \A j \in Live(t) : u.slots[j] = t.slots[j]
  BY InsertedIs
<1>2. \A x, w : Has(u, x, w) <=> IF x = k THEN w = v ELSE Has(t, x, w)
  BY <1>1, AddedHas
<1>3. MapOf(u) = WithValue(t, k, v)
  BY <1>1, <1>2, PutMaps
<1>4. StaysPut(t, u)
  <2>1. PICK n : /\ n \notin Live(t) /\ Live(u) = Live(t) \cup {n}
                 /\ u.slots[n] = LiveSlot(k, v)
                 /\ \A j \in Live(t) : u.slots[j] = t.slots[j]
    BY <1>1
  <2>2. SUFFICES ASSUME NEW i \in Live(t), NEW j \in Live(u),
                        t.slots[i].key = u.slots[j].key
                 PROVE  i = j
    BY DEF StaysPut
  <2>3. CASE j = n
    BY <2>1, <2>2, <2>3 DEF Stored, LiveSlot
  <2>4. CASE j # n
    BY <2>1, <2>2, <2>4 DEF Sound, KeysUnique
  <2>5. QED
    BY <2>3, <2>4
<1>5. QED
  BY <1>1, <1>3, <1>4

\* dict_set, dict_add and an iteration of dict_assign, for a key not stored.
LEMMA InsertKeeps ==
  ASSUME IInv, ~ Growing, NEW k \in Keys, NEW v \in Vals, ~ Stored(table, k),
         Insert(k, v), todo' \in Seq(Keys \X Vals), room' = room
  PROVE  /\ IInv' /\ Stores(k, v) /\ StaysPut(table, table')
         /\ Growing' /\ pending' # <<>> => table.count >= room
<1>1. /\ Usable(table) /\ room \in Nat
      /\ room > table.count => room + table.ndeleted <= LoadLimit(table.cap)
  BY DEF IInv, RoomOK, TypeOK
<1>2. /\ table = NoTable \/ IsTable(table)
      /\ table.cap \in Nat /\ table.count \in Nat /\ table.ndeleted \in Nat
      /\ table # NoTable <=> table.cap # 0
      /\ LoadLimit(table.cap) \in Nat
  BY <1>1, UsableShape
<1>3. ~ Growing /\ NotGrowing => ~ Growing'
  BY DEF Growing, NotGrowing
<1>4. CASE /\ table.cap = 0 /\ CapsForCount(1) # {}
           /\ table' = Inserted(EmptyTable(CapForCount(1)), k, v) /\ NotGrowing
  <2> DEFINE c == CapForCount(1)
             t == EmptyTable(c)
             u == table'
  <2>1. table = NoTable /\ room = 0
    BY <1>1, <1>2, <1>4, NoTableIs
  <2>2. c \in Caps /\ 1 <= LoadLimit(c) /\ c \in Nat
    BY <1>4, CapForCountIs
  <2> HIDE DEF c
  <2>3. LoadLimit(c) \in Nat
    BY <2>2, LoadLimitIs
  <2>4. /\ Usable(t) /\ Sound(t) /\ Counted(t)
        /\ t.cap = c /\ t.count = 0 /\ t.ndeleted = 0 /\ Live(t) = {}
        /\ ~ Stored(t, k) /\ \A x, w : ~ Has(t, x, w)
    BY <2>2, EmptyTableUsable
  <2>5. t.count + t.ndeleted < LoadLimit(t.cap) /\ u = Inserted(t, k, v)
    BY <1>4, <2>2, <2>3, <2>4 DEF c
  <2> HIDE DEF t, u
  <2>6. /\ Usable(u) /\ u.cap = t.cap /\ u.count = t.count + 1
        /\ MapOf(u) = WithValue(t, k, v)
    BY <2>4, <2>5, InsertedMaps
  <2>7. MapOf(t) = MapOf(table)
    <3>1. \A x, w : ~ Has(table, x, w)
      BY <2>1, NoTableIs DEF Has
    <3>2. QED
      BY <1>1, <2>4, <3>1, SameMaps
  <2>8. Stores(k, v)
    <3>1. pending' = <<>>
      BY <1>4 DEF IInv, NotGrowing
    <3>2. QED
      BY <2>6, <2>7, <3>1 DEF Stores, WithValue, u
  <2>9. StaysPut(table, u)
    BY <2>1, NoTableIs DEF StaysPut
  <2>10. IInv'
    BY <1>1, <1>4, <2>1, <2>4, <2>6, QuietStep DEF u
  <2>11. QED
    BY <1>3, <1>4, <2>8, <2>9, <2>10 DEF u
<1>5. CASE /\ table.cap # 0 /\ ~ NeedsRehash(table)
           /\ table' = Inserted(table, k, v) /\ NotGrowing
  <2>1. table.count + table.ndeleted < LoadLimit(table.cap)
    BY <1>2, <1>5 DEF NeedsRehash
  <2>2. Sound(table) /\ Counted(table)
    BY <1>1, <1>2, <1>5 DEF Usable
  <2>3. /\ Usable(table') /\ table'.cap = table.cap /\ table'.count = table.count + 1
        /\ table'.ndeleted <= table.ndeleted
        /\ MapOf(table') = WithValue(table, k, v) /\ StaysPut(table, table')
    BY <1>1, <1>5, <2>1, <2>2, InsertedMaps
  <2>4. table'.ndeleted \in Nat
    BY <2>3, UsableShape
  <2>5. room' > table'.count => room' + table'.ndeleted <= LoadLimit(table'.cap)
    BY <1>1, <1>2, <2>3, <2>4
  <2>6. IInv'
    BY <1>1, <1>5, <2>3, <2>5, QuietStep
  <2>7. pending' = <<>>
    BY <1>5 DEF IInv, NotGrowing
  <2>8. QED
    BY <1>3, <1>5, <2>3, <2>6, <2>7 DEF Stores
<1>6. CASE /\ table.cap # 0 /\ NeedsRehash(table) /\ CapsForCount(table.count + 1) # {}
           /\ StartGrow(GrowthTarget(table), <<k, v>>)
  <2> DEFINE c == GrowthTarget(table)
             p == <<k, v>>
  <2>1. IsTable(table) /\ table # NoTable
    BY <1>2, <1>6
  <2>2. /\ c \in Caps /\ table.count + 1 <= LoadLimit(c)
        /\ c > table.cap => LoadLimit(table.cap) <= table.count
    BY <1>6, <2>1, GrowthTargetIs
  <2>3. LoadLimit(c) \in Nat
    <3>1. c \in Nat
      BY <2>2, DictAssumption DEF Caps
    <3> HIDE DEF c
    <3>2. QED
      BY <3>1, LoadLimitIs
  <2>4. room <= table.count
    BY <1>1, <1>2, <1>6 DEF NeedsRehash
  <2>5. p \in Keys \X Vals /\ p[1] = k
    OBVIOUS
  <2>6. table' = table
    BY <1>6 DEF StartGrow
  <2>7. /\ StartGrow(c, p) /\ ~ Stored(table, p[1]) /\ table.count <= LoadLimit(c)
        /\ room' \in Nat /\ room' <= table.count
    BY <1>1, <1>2, <1>6, <2>2, <2>3, <2>4, <2>5
  <2> HIDE DEF c, p
  <2>8. IInv'
    <3>1. /\ p \in Keys \X Vals /\ ~ Stored(table, p[1])
          /\ table.count + 1 <= LoadLimit(c)
          /\ c > table.cap => LoadLimit(table.cap) <= table.count
          /\ room' <= table.count
      BY <2>2, <2>5, <2>7
    <3>2. c \in Caps /\ room' > table.count => room' <= LoadLimit(c)
      BY <1>2, <2>7
    <3>3. QED
      BY <2>1, <2>2, <2>7, <3>1, <3>2, StartGrowStep
  <2>9. pending' = <<k, v>>
    BY <1>6 DEF StartGrow
  <2>10. QED
    BY <1>1, <1>2, <2>4, <2>6, <2>8, <2>9, SameTable DEF Stores
<1>7. QED
  BY <1>4, <1>5, <1>6 DEF Insert

\* The same for any key: a stored key gets its value.
LEMMA StoreKeeps ==
  ASSUME IInv, ~ Growing, NEW k \in Keys, NEW v \in Vals,
         Store(k, v), todo' \in Seq(Keys \X Vals), room' = room
  PROVE  /\ IInv' /\ Stores(k, v) /\ StaysPut(table, table')
         /\ Growing' /\ pending' # <<>> => table.count >= room
<1>1. /\ Usable(table) /\ room \in Nat
      /\ room > table.count => room + table.ndeleted <= LoadLimit(table.cap)
  BY DEF IInv, RoomOK, TypeOK
<1>2. Probe(table, k).found <=> Stored(table, k)
  BY <1>1, FoundStored
<1>3. CASE ~ Stored(table, k)
  <2>1. Insert(k, v)
    BY <1>2, <1>3 DEF Store
  <2>2. QED
    BY <1>3, <2>1, InsertKeeps
<1>4. CASE Stored(table, k)
  <2>1. PICK i \in Live(table) : table.slots[i].key = k
    BY <1>4 DEF Stored
  <2>2. Probe(table, k).idx = i
    BY <1>1, <2>1, FoundIs
  <2>3. table' = StoreAt(table, i, v) /\ NotGrowing
    BY <1>2, <1>4, <2>2 DEF Store, StoreAt
  <2>4. /\ Usable(table') /\ table'.cap = table.cap
        /\ table'.count = table.count /\ table'.ndeleted = table.ndeleted
        /\ Live(table') = Live(table)
        /\ table'.slots[i] = LiveSlot(table.slots[i].key, v)
        /\ \A j \in Live(table) : j # i => table'.slots[j] = table.slots[j]
    BY <1>1, <2>1, <2>3, StoredIs
  <2>5. IInv'
    BY <1>1, <2>3, <2>4, QuietStep
  <2>6. /\ KeysUnique(table)
        /\ \A j \in Live(table) : table'.slots[j].key = table.slots[j].key
    BY <1>1, <2>1, <2>4, UsableHas DEF LiveSlot
  <2>7. StaysPut(table, table')
    BY <2>4, <2>6 DEF StaysPut, KeysUnique
  <2>8. ASSUME NEW x \in Keys, NEW w \in Vals
        PROVE  Has(table', x, w) <=> IF x = k THEN w = v ELSE Has(table, x, w)
    <3>1. CASE x = k
      <4>1. Has(table', k, v)
        BY <2>1, <2>4 DEF Has
      <4>2. ASSUME Has(table', k, w)
            PROVE  w = v
        <5>1. PICK j \in Live(table') : table'.slots[j] = LiveSlot(k, w)
          BY <4>2 DEF Has
        <5>2. table'.slots[j].key = k
          BY <5>1 DEF LiveSlot
        <5>3. j = i
          BY <2>1, <2>4, <2>6, <5>1, <5>2 DEF KeysUnique
        <5>4. QED
          BY <2>1, <2>4, <5>1, <5>3, LiveSlotInjective
      <4>3. QED
        BY <3>1, <4>1, <4>2
    <3>2. CASE x # k
      <4>1. \A y : LiveSlot(x, w) # LiveSlot(k, y)
        BY <3>2, LiveSlotInjective
      <4>2. table.slots[i] = LiveSlot(k, table.slots[i].val)
        BY <1>1, <2>1, FoundIs
      <4>3. QED
        BY <2>1, <2>4, <3>2, <4>1, <4>2 DEF Has
    <3>3. QED
      BY <3>1, <3>2
  <2>9. Stores(k, v)
    <3>1. pending' = <<>>
      BY <2>3 DEF IInv, NotGrowing
    <3>2. QED
      BY <1>1, <2>4, <2>8, <3>1, PutMaps DEF Stores
  <2>10. ~ Growing'
    BY <2>3 DEF Growing, NotGrowing
  <2>11. QED
    BY <2>5, <2>7, <2>9, <2>10
<1>5. QED
  BY <1>3, <1>4

-----------------------------------------------------------------------------
\* What a step keeps: the invariant, and what the action properties say.
StepKept ==
  /\ IInv'
  /\ ~ Growing => StaysPut(table, table')
  /\ ~ Growing /\ Growing' /\ pending' # <<>> => table.count >= room
  /\ Growing /\ pending # <<>> /\ table'.cap > table.cap => LoadLimit(table.cap) <= table.count

(* A sequence is its head and its tail.                                       *)
LEMMA HeadTail ==
  ASSUME NEW s \in Seq(Keys \X Vals), s # <<>>
  PROVE  <<Head(s)>> \o Tail(s) = s
<1> DEFINE q == <<Head(s)>> \o Tail(s)
<1>1. /\ Len(s) \in Nat \ {0} /\ Head(s) = s[1] /\ Len(Tail(s)) = Len(s) - 1
      /\ Tail(s) \in Seq(Keys \X Vals) /\ Head(s) \in Keys \X Vals
      /\ \A i \in 1 .. (Len(s) - 1) : Tail(s)[i] = s[i + 1]
  OBVIOUS
<1>2. q \in Seq(Keys \X Vals) /\ Len(q) = Len(s) /\ q[1] = Head(s)
  BY <1>1
<1>3. \A i \in 1 .. (Len(s) - 1) : q[i + 1] = Tail(s)[i]
  BY <1>1
<1> HIDE DEF q
<1>4. ASSUME NEW i \in 1 .. Len(s)
      PROVE  q[i] = s[i]
  <2>1. CASE i = 1
    BY <1>1, <1>2, <2>1
  <2>2. CASE i # 1
    <3>1. i - 1 \in 1 .. (Len(s) - 1) /\ (i - 1) + 1 = i
      BY <1>1, <2>2
    <3>2. QED
      BY <1>1, <1>3, <3>1
  <2>3. QED
    BY <2>1, <2>2
<1>5. q = s
  BY <1>2, <1>4
<1>6. QED
  BY <1>5 DEF q

(* The pair that waits for a rehash is the first one to be stored.            *)
LEMMA FirstPut ==
  ASSUME NEW p \in Keys \X Vals, NEW s \in Seq(Keys \X Vals)
  PROVE  /\ <<p>> \o s \in Seq(Keys \X Vals) /\ <<p>> \o s # <<>>
         /\ Head(<<p>> \o s) = p /\ Tail(<<p>> \o s) = s
<1> DEFINE q == <<p>> \o s
<1>1. q \in Seq(Keys \X Vals) /\ Len(q) = Len(s) + 1 /\ Len(s) \in Nat
  OBVIOUS
<1>2. q[1] = p /\ \A i \in 1 .. Len(s) : q[i + 1] = s[i]
  OBVIOUS
<1>3. q # <<>> /\ Head(q) = p
  BY <1>1, <1>2
<1>4. Tail(q) = s
  <2>1. Tail(q) \in Seq(Keys \X Vals) /\ Len(Tail(q)) = Len(s)
    BY <1>1, <1>3
  <2>2. \A i \in 1 .. Len(s) : Tail(q)[i] = q[i + 1]
    BY <1>1
  <2> HIDE DEF q
  <2>3. \A i \in 1 .. Len(s) : Tail(q)[i] = s[i]
    BY <1>2, <2>2
  <2>4. QED
    BY <2>1, <2>3
<1>5. QED
  BY <1>1, <1>3, <1>4

\* The end of grow: new_self holds what the table held, and takes the insertion
\* that waited.
LEMMA GrowEndKeeps ==
  ASSUME IInv, GrowEnd
  PROVE  StepKept /\ Seen' = Seen
<1>1. /\ Growing /\ idx = table.cap
      /\ table' = IF pending = <<>> THEN fresh ELSE Inserted(fresh, pending[1], pending[2])
      /\ fresh' = NoTable /\ idx' = 0 /\ pending' = <<>> /\ todo' = todo /\ room' = room
  BY DEF GrowEnd
<1>2. TypeOK /\ Usable(table) /\ FreshOK /\ PendingOK /\ RoomOK
  BY <1>1 DEF IInv
<1>3. /\ Sound(fresh) /\ Dead(fresh) = {} /\ IsTable(fresh)
      /\ fresh.count = table.count /\ fresh.ndeleted = 0
      /\ table.count <= LoadLimit(fresh.cap) /\ Copied
  BY <1>2 DEF FreshOK, Sound
<1>4. table.cap \in Nat /\ table.count \in Nat /\ LoadLimit(fresh.cap) \in Nat /\ fresh.cap \in Nat
  BY <1>2, <1>3, UsableShape, TableShape, LoadLimitIs
<1>5. Moved = Live(table)
  BY <1>1, <1>4 DEF Moved, Live
<1>6. Counted(fresh)
  <2>1. Cardinality(Live(fresh)) = Cardinality(Live(table)) /\ Cardinality(Dead(fresh)) = 0
    BY <1>3, <1>5, FS_EmptySet DEF Copied
  <2>2. table.count = Cardinality(Live(table))
    BY <1>2, UsableHas DEF Counted
  <2>3. QED
    BY <1>3, <2>1, <2>2 DEF Counted
<1>7. Usable(fresh)
  BY <1>3, <1>4, <1>6 DEF Usable, Within
<1>8. \A x, w : Has(fresh, x, w) <=> Has(table, x, w)
  BY <1>3, <1>5 DEF Has, Copied
<1>9. MapOf(fresh) = MapOf(table)
  BY <1>2, <1>7, <1>8, SameMaps
<1>10. ~ Growing' /\ room \in Nat /\ todo \in Seq(Keys \X Vals)
  BY <1>1, <1>2 DEF Growing, TypeOK
<1>11. ASSUME Usable(table'), room > table'.count => room + table'.ndeleted <= LoadLimit(table'.cap)
       PROVE  IInv'
  <2>1. (table' = NoTable \/ IsTable(table')) /\ table'.cap \in Nat
    BY <1>11, UsableShape
  <2>2. TypeOK'
    BY <1>1, <1>10, <2>1 DEF TypeOK
  <2>3. QED
    BY <1>1, <1>10, <1>11, <2>2 DEF IInv, RoomOK
<1>12. CASE pending = <<>>
  <2>1. table' = fresh
    BY <1>1, <1>12
  <2>2. room > table'.count => room + table'.ndeleted <= LoadLimit(table'.cap)
    BY <1>1, <1>2, <1>3, <1>4, <1>10, <2>1 DEF RoomOK
  <2>3. Seen' = Seen
    <3>1. Puts' = Puts
      BY <1>1, <1>12 DEF Puts
    <3>2. QED
      BY <1>9, <2>1, <3>1, SeenIs
  <2>4. QED
    BY <1>1, <1>7, <1>10, <1>11, <1>12, <2>1, <2>2, <2>3 DEF StepKept
<1>13. CASE pending # <<>>
  <2> DEFINE k == pending[1]
             v == pending[2]
  <2>1. k \in Keys /\ v \in Vals
    BY <1>2, <1>13 DEF TypeOK
  <2>2. /\ ~ Stored(table, k) /\ table.count + 1 <= LoadLimit(fresh.cap)
        /\ fresh.cap > table.cap => LoadLimit(table.cap) <= table.count
        /\ room <= table.count
    BY <1>2, <1>13 DEF PendingOK
  <2>3. table' = Inserted(fresh, k, v)
    BY <1>1, <1>13
  <2> HIDE DEF k, v
  <2>4. ~ Stored(fresh, k)
    BY <1>3, <1>5, <2>2 DEF Stored, Copied
  <2>5. fresh.count + fresh.ndeleted < LoadLimit(fresh.cap)
    BY <1>3, <1>4, <2>2
  <2>6. /\ Usable(table') /\ table'.cap = fresh.cap /\ table'.count = fresh.count + 1
        /\ MapOf(table') = WithValue(fresh, k, v)
    BY <1>3, <1>6, <1>7, <2>1, <2>3, <2>4, <2>5, InsertedMaps
  <2>7. Seen' = Seen
    <3>1. pending \in Keys \X Vals /\ todo \in Seq(Keys \X Vals)
      BY <1>2, <1>13 DEF TypeOK
    <3>2. /\ Puts \in Seq(Keys \X Vals) /\ Puts # <<>>
          /\ Head(Puts) = pending /\ Tail(Puts) = todo
      BY <1>13, <3>1, FirstPut DEF Puts
    <3>3. Puts' = todo
      <4>1. pending' = <<>> /\ todo' = todo
        BY <1>1
      <4>2. <<>> \o todo = todo
        BY <3>1
      <4>3. QED
        BY <4>1, <4>2 DEF Puts
    <3>4. MapOf(table') = WithValue(table, Head(Puts)[1], Head(Puts)[2])
      BY <1>9, <2>6, <3>2 DEF WithValue, k, v
    <3>5. Final(MapOf(table'), Tail(Puts)) = Final(MapOf(table), Puts)
      BY <3>2, <3>4, FinalHead
    <3>6. QED
      BY <3>2, <3>3, <3>5, SeenIs
  <2>8. ~ (room > table'.count)
    BY <1>3, <1>4, <1>10, <2>2, <2>6
  <2>9. IInv'
    BY <1>11, <2>6, <2>8
  <2>10. QED
    BY <1>1, <1>10, <2>2, <2>6, <2>7, <2>9 DEF StepKept
<1>14. QED
  BY <1>12, <1>13

\* A step of the client that starts no rehash and changes no entry but by
\* removing it keeps everything, if it keeps the promise of room.
LEMMA QuietKeeps ==
  ASSUME IInv, ~ Growing, NotGrowing, Usable(table'), StaysPut(table, table'),
         todo' \in Seq(Keys \X Vals), room' \in Nat,
         room' > table'.count => room' + table'.ndeleted <= LoadLimit(table'.cap)
  PROVE  /\ StepKept
         /\ todo' = <<>> => Seen' = MapOf(table')
<1>1. IInv'
  BY QuietStep
<1>2. ~ Growing'
  BY DEF Growing, NotGrowing
<1>3. pending' = <<>>
  BY DEF IInv, NotGrowing
<1>4. QED
  BY <1>1, <1>2, <1>3, SeenDone DEF StepKept

\* dict_remove, dict_extract and dict_erase_if.
LEMMA ErasedKeeps ==
  ASSUME IInv, Done, NEW I, NEW K, I = {i \in Live(table) : table.slots[i].key \in K},
         table' = Erased(table, I), room' = 0, NotGrowing, todo' = todo, table # NoTable
  PROVE  StepKept /\ Seen' = Without(table, K)
<1>1. Usable(table) /\ ~ Growing /\ todo \in Seq(Keys \X Vals) /\ todo' = <<>>
  BY DEF IInv, Done, TypeOK
<1>2. /\ Usable(table') /\ Live(table') = Live(table) \ I
      /\ \A j \in Live(table') : table'.slots[j] = table.slots[j]
  BY <1>1, ErasedIs
<1>3. \A x, w : Has(table', x, w) <=> x \notin K /\ Has(table, x, w)
  <2>1. \A x, w : LiveSlot(x, w).key = x
    BY DEF LiveSlot
  <2>2. QED
    BY <1>2, <2>1 DEF Has
<1>4. MapOf(table') = Without(table, K)
  BY <1>1, <1>2, <1>3, EraseMaps
<1>5. StaysPut(table, table')
  BY <1>1, <1>2, UsableHas DEF StaysPut, KeysUnique
<1>6. ~ (room' > table'.count) /\ room' \in Nat
  BY <1>2, UsableShape
<1>7. QED
  BY <1>1, <1>2, <1>4, <1>5, <1>6, QuietKeeps

(* Removing a key, present or not.                                            *)
LEMMA RemoveKeeps ==
  ASSUME IInv, NEW k \in Keys, Remove(k)
  PROVE  StepKept /\ Seen' = Without(table, {k})
<1>1. /\ Usable(table) /\ ~ Growing /\ Done /\ todo' = todo /\ todo = <<>>
      /\ NotGrowing /\ pending = <<>> /\ RoomOK /\ room \in Nat
      /\ IF Probe(table, k).found
         THEN table' = Erased(table, {Probe(table, k).idx}) /\ room' = 0
         ELSE table' = table /\ room' = room
  BY DEF IInv, TypeOK, Remove, Starts, Done
<1>2. CASE Probe(table, k).found
  <2>1. PICK i \in Live(table) : table.slots[i].key = k
    BY <1>1, <1>2, FoundStored DEF Stored
  <2>2. Probe(table, k).idx = i
    BY <1>1, <2>1, FoundIs
  <2>3. table # NoTable
    BY <2>1, NoTableIs
  <2>4. KeysUnique(table)
    BY <1>1, UsableHas
  <2>5. {i} = {j \in Live(table) : table.slots[j].key \in {k}}
    BY <2>1, <2>4 DEF KeysUnique
  <2>6. table' = Erased(table, {i}) /\ room' = 0
    BY <1>1, <1>2, <2>2
  <2>7. QED
    BY <1>1, <2>3, <2>5, <2>6, ErasedKeeps
<1>3. CASE ~ Probe(table, k).found
  <2>1. table' = table /\ room' = room
    BY <1>1, <1>3
  <2>2. room' > table'.count => room' + table'.ndeleted <= LoadLimit(table'.cap)
    BY <1>1, <2>1 DEF RoomOK
  <2>3. StepKept /\ Seen' = MapOf(table')
    BY <1>1, <2>1, <2>2, SameTable, QuietKeeps
  <2>4. ~ Stored(table, k)
    BY <1>1, <1>3, FoundStored
  <2>5. Lookup(table, k) = Absent
    BY <1>1, <2>4, NotFoundIs
  <2>6. MapOf(table) = Without(table, {k})
    BY <2>5 DEF MapOf, Without
  <2>7. QED
    BY <2>1, <2>3, <2>6
<1>4. QED
  BY <1>2, <1>3

\* When nothing is erased the table, if there is none yet too, stays as it is.
LEMMA EraseIfKeeps ==
  ASSUME IInv, NEW K \in SUBSET Keys, EraseIf(K)
  PROVE  StepKept /\ Seen' = Without(table, K)
<1> DEFINE I == {i \in Live(table) : table.slots[i].key \in K}
<1>1. /\ Usable(table) /\ ~ Growing /\ todo \in Seq(Keys \X Vals) /\ Done
      /\ table' = Erased(table, I) /\ room' = 0 /\ NotGrowing /\ todo' = todo
      /\ todo' = <<>>
  BY DEF IInv, Starts, Done, TypeOK, EraseIf
<1>2. I = {i \in Live(table) : table.slots[i].key \in K}
  OBVIOUS
<1>3. CASE table # NoTable
  <2> HIDE DEF I
  <2>1. QED
    BY <1>1, <1>2, <1>3, ErasedKeeps
<1>4. CASE table = NoTable
  <2>1. I = {} /\ Cardinality(I) = 0
    <3>1. Live(table) = {}
      BY <1>4, NoTableIs
    <3>2. I = {}
      BY <3>1
    <3>3. QED
      BY <3>2, FS_EmptySet
  <2> HIDE DEF I
  <2> DEFINE s == [j \in DOMAIN table.slots |-> IF j \in I THEN DeletedSlot ELSE table.slots[j]]
  <2>2. table' = [cap |-> 0, count |-> 0, ndeleted |-> 0, slots |-> s]
    <3>1. table' = [table EXCEPT !.count = table.count - Cardinality(I),
                                 !.ndeleted = table.ndeleted + Cardinality(I), !.slots = s]
      BY <1>1 DEF Erased
    <3> HIDE DEF s
    <3>2. table.count - Cardinality(I) = 0 /\ table.ndeleted + Cardinality(I) = 0
      BY <1>4, <2>1, NoTableIs
    <3>3. table' = [table EXCEPT !.count = 0, !.ndeleted = 0, !.slots = s]
      BY <3>1, <3>2
    <3>4. DOMAIN table = {"cap", "count", "ndeleted", "slots"} /\ table.cap = 0
      BY <1>4 DEF NoTable
    <3>5. QED
      BY <1>4, <3>3 DEF NoTable
  <2>3. s = <<>>
    <3>1. table.slots = <<>>
      BY <1>4 DEF NoTable
    <3>2. QED
      BY <3>1
  <2>4. table' = NoTable
    BY <2>2, <2>3 DEF NoTable
  <2>5. ~ (room' > table'.count) /\ room' \in Nat
    BY <1>1, <2>4 DEF NoTable
  <2>6. StepKept /\ Seen' = MapOf(table')
    BY <1>1, <1>4, <2>4, <2>5, SameTable, QuietKeeps
  <2>7. MapOf(table) = Without(table, K)
    <3>1. Usable(table) /\ Live(table) = {}
      BY <1>1, <1>4, NoTableIs
    <3>2. MapOf(table) = Abstract!Nowhere
      BY <3>1, NoneLeft
    <3>3. \A k \in Keys : Lookup(table, k) = Absent
      BY <3>2 DEF MapOf, Abstract!Nowhere
    <3>4. QED
      BY <3>3 DEF MapOf, Without
  <2>8. QED
    BY <1>4, <2>4, <2>6, <2>7
<1>5. QED
  BY <1>3, <1>4

\* The table dict_clear leaves.
LEMMA ClearedIs ==
  ASSUME NEW t, Usable(t), NEW u, u = ClearedTable(t)
  PROVE  /\ Usable(u) /\ Live(u) = {}
         /\ u.cap = t.cap /\ u.count = 0 /\ u.ndeleted = 0
<1>1. CASE t = NoTable
  BY <1>1, NoTableIs DEF ClearedTable
<1>2. CASE t # NoTable
  <2>1. t.cap \in Caps /\ t.cap # 0
    BY <1>2, UsableShape, TableShape
  <2>2. u = EmptyTable(t.cap)
    BY <2>1 DEF ClearedTable
  <2>3. QED
    BY <2>1, <2>2, EmptyTableUsable
<1>3. QED
  BY <1>1, <1>2

(* Clearing the table keeps its capacity.                                     *)
LEMMA ClearKeeps ==
  ASSUME IInv, Clear
  PROVE  StepKept /\ Seen' = Abstract!Nowhere
<1>1. /\ Usable(table) /\ ~ Growing /\ todo' \in Seq(Keys \X Vals) /\ todo' = <<>>
      /\ table' = ClearedTable(table) /\ room' = 0 /\ NotGrowing
  BY DEF IInv, Starts, Done, TypeOK, Clear
<1>2. Usable(table') /\ Live(table') = {} /\ table'.count = 0
  BY <1>1, ClearedIs
<1>3. room' \in Nat /\ ~ (room' > table'.count)
  BY <1>1, <1>2
<1>4. QED
  BY <1>1, <1>2, <1>3, NoneLeft, QuietKeeps

(* Releasing the table leaves the zeroed one.                                 *)
LEMMA ReleaseKeeps ==
  ASSUME IInv, Release
  PROVE  StepKept /\ Seen' = Abstract!Nowhere
<1>1. /\ Usable(table) /\ ~ Growing /\ todo' \in Seq(Keys \X Vals) /\ todo' = <<>>
      /\ table' = NoTable /\ room' = 0 /\ NotGrowing
  BY DEF IInv, Starts, Done, TypeOK, Release
<1>2. Usable(table') /\ Live(table') = {} /\ table'.count = 0
  BY <1>1, NoTableIs DEF Usable
<1>3. room' \in Nat /\ ~ (room' > table'.count)
  BY <1>1, <1>2
<1>4. QED
  BY <1>1, <1>2, <1>3, NoneLeft, QuietKeeps

(* Initialising with a capacity to reserve.                                   *)
LEMMA InitTableKeeps ==
  ASSUME IInv, NEW n \in Reserves, InitTable(n)
  PROVE  StepKept /\ Seen' = Seen
<1> DEFINE R == RoundCaps(n)
           c == Least(R)
<1>1. /\ Usable(table) /\ ~ Growing /\ todo' \in Seq(Keys \X Vals)
      /\ todo = <<>> /\ todo' = <<>> /\ pending = <<>>
      /\ table = NoTable /\ table' = EmptyTable(c) /\ room' = room /\ NotGrowing
      /\ R # {} /\ RoomOK /\ room \in Nat
  BY DEF IInv, Starts, Done, TypeOK, InitTable
<1>2. R \subseteq Caps /\ R \subseteq Nat
  BY DictAssumption DEF RoundCaps, Caps
<1>3. c \in R
  <2> HIDE DEF R
  <2>1. QED
    BY <1>1, <1>2, LeastIs
<1> HIDE DEF R, c
<1>4. Usable(table') /\ Live(table') = {} /\ table'.count = 0
  BY <1>1, <1>2, <1>3, EmptyTableUsable
<1>5. room' = 0
  BY <1>1, NoTableIs DEF RoomOK
<1>6. room' \in Nat /\ ~ (room' > table'.count)
  BY <1>4, <1>5
<1>7. StepKept /\ Seen' = Abstract!Nowhere
  BY <1>1, <1>4, <1>6, NoneLeft, QuietKeeps
<1>8. Seen = Abstract!Nowhere
  <2>1. Seen = MapOf(table) /\ Live(table) = {}
    BY <1>1, SeenDone, NoTableIs
  <2>2. QED
    BY <1>1, <2>1, NoneLeft
<1>9. QED
  BY <1>7, <1>8

\* dict_reserve: what it promises fits the table, or the new_self it starts.
LEMMA ReserveKeeps ==
  ASSUME IInv, NEW n \in Reserves, Reserve(n)
  PROVE  StepKept /\ Seen' = Seen
<1> DEFINE q == Larger(n, table.count)
           c == CapForCount(q)
<1>1. /\ Usable(table) /\ ~ Growing /\ todo' \in Seq(Keys \X Vals) /\ room' = n
      /\ n \in Nat /\ CapsForCount(q) # {}
      /\ todo = <<>> /\ todo' = <<>> /\ pending = <<>>
  BY DictAssumption DEF IInv, Starts, Done, TypeOK, Reserve
<1>2. /\ table = NoTable \/ IsTable(table)
      /\ table.cap \in Nat /\ table.count \in Nat /\ table.ndeleted \in Nat
      /\ table # NoTable <=> table.cap # 0
      /\ LoadLimit(table.cap) \in Nat
  BY <1>1, UsableShape
<1>3. q \in Nat /\ q >= n /\ q >= table.count
  BY <1>1, <1>2 DEF Larger
<1>4. c \in Caps /\ c \in Nat \ {0} /\ q <= LoadLimit(c)
  <2> HIDE DEF q
  <2>1. QED
    BY <1>1, <1>3, CapForCountIs
<1>5. LoadLimit(c) \in Nat
  <2> HIDE DEF c
  <2>1. QED
    BY <1>4, LoadLimitIs
<1>6. \/ table.cap = 0 /\ table' = EmptyTable(c) /\ NotGrowing
      \/ table.cap # 0 /\ c > table.cap /\ StartGrow(c, <<>>)
      \/ table.cap # 0 /\ c <= table.cap /\ TooFewFree(table, q) /\ StartGrow(table.cap, <<>>)
      \/ /\ table.cap # 0 /\ c <= table.cap /\ ~ TooFewFree(table, q)
         /\ UNCHANGED table /\ NotGrowing
  BY DEF Reserve
<1> HIDE DEF q, c
<1>7. CASE table.cap = 0 /\ table' = EmptyTable(c) /\ NotGrowing
  <2>1. /\ Usable(table') /\ Live(table') = {}
        /\ table'.cap = c /\ table'.count = 0 /\ table'.ndeleted = 0
    BY <1>4, <1>7, EmptyTableUsable
  <2>2. room' + table'.ndeleted <= LoadLimit(table'.cap) /\ room' \in Nat
    BY <1>1, <1>3, <1>4, <1>5, <2>1
  <2>3. StepKept /\ Seen' = Abstract!Nowhere
    BY <1>1, <1>7, <2>1, <2>2, NoneLeft, QuietKeeps
  <2>4. Live(table) = {}
    BY <1>2, <1>7, NoTableIs
  <2>5. Seen = Abstract!Nowhere
    BY <1>1, <2>4, SeenDone, NoneLeft
  <2>6. QED
    BY <2>3, <2>5
<1>8. ASSUME NEW b \in Caps, LoadLimit(b) \in Nat, q <= LoadLimit(b), table # NoTable,
             StartGrow(b, <<>>)
      PROVE  StepKept /\ Seen' = Seen
  <2> DEFINE p == <<>>
  <2>1. p = <<>> /\ room' \in Nat /\ room' <= LoadLimit(b) /\ table.count <= LoadLimit(b)
    BY <1>1, <1>2, <1>3, <1>8
  <2>2. StartGrow(b, p) /\ table' = table /\ pending' = <<>>
    BY <1>8 DEF StartGrow
  <2> HIDE DEF p
  <2>3. IInv'
    BY <1>1, <1>8, <2>1, <2>2, StartGrowStep
  <2>4. Seen' = Seen
    BY <1>1, <2>2, SeenDone
  <2>5. QED
    BY <1>1, <2>2, <2>3, <2>4, SameTable DEF StepKept
<1>9. CASE table.cap # 0 /\ c > table.cap /\ StartGrow(c, <<>>)
  BY <1>2, <1>4, <1>5, <1>8, <1>9
<1>10. table.cap # 0 /\ c <= table.cap => q <= LoadLimit(table.cap) /\ table.cap \in Caps
  BY <1>2, <1>3, <1>4, <1>5, LoadLimitGrows, TableShape
<1>11. CASE /\ table.cap # 0 /\ c <= table.cap /\ TooFewFree(table, q)
            /\ StartGrow(table.cap, <<>>)
  BY <1>2, <1>8, <1>10, <1>11
<1>12. CASE /\ table.cap # 0 /\ c <= table.cap /\ ~ TooFewFree(table, q)
            /\ UNCHANGED table /\ NotGrowing
  <2>1. table.ndeleted <= LoadLimit(table.cap) - q
    BY <1>2, <1>3, <1>12 DEF TooFewFree
  <2>2. room' + table'.ndeleted <= LoadLimit(table'.cap) /\ room' \in Nat /\ table' = table
    BY <1>1, <1>2, <1>3, <1>12, <2>1
  <2>3. StepKept /\ Seen' = MapOf(table')
    BY <1>1, <1>12, <2>2, SameTable, QuietKeeps
  <2>4. QED
    BY <1>1, <2>2, <2>3, SeenDone
<1>13. QED
  BY <1>6, <1>7, <1>9, <1>11, <1>12

\* dict_shrink_to_fit drops the tombstones, and the capacity they and removed
\* entries no longer need.
LEMMA ShrinkToFitKeeps ==
  ASSUME IInv, ShrinkToFit
  PROVE  StepKept /\ Seen' = Seen
<1> DEFINE c == CapForCount(table.count)
<1>1. /\ Usable(table) /\ ~ Growing /\ todo' \in Seq(Keys \X Vals) /\ room' = 0
      /\ room' \in Nat /\ todo = <<>> /\ todo' = <<>> /\ pending = <<>>
  BY DEF IInv, Starts, Done, TypeOK, ShrinkToFit
<1>2. /\ table = NoTable \/ IsTable(table)
      /\ table.cap \in Nat /\ table.count \in Nat /\ table.ndeleted \in Nat
      /\ table # NoTable <=> table.cap # 0
      /\ LoadLimit(table.cap) \in Nat
  BY <1>1, UsableShape
<1>3. CASE table.count = 0 /\ table' = NoTable /\ NotGrowing
  <2>1. Usable(table') /\ Live(table') = {} /\ table'.count = 0
    BY <1>3, NoTableIs DEF Usable
  <2>2. ~ (room' > table'.count)
    BY <1>1, <2>1
  <2>3. StepKept /\ Seen' = Abstract!Nowhere
    BY <1>1, <1>3, <2>1, <2>2, NoneLeft, QuietKeeps
  <2>4. Live(table) = {}
    <3>1. Cardinality(Live(table)) = 0 /\ IsFiniteSet(Live(table))
      <4>1. CASE table = NoTable
        BY <4>1, NoTableIs, FS_EmptySet
      <4>2. CASE table # NoTable
        BY <1>1, <1>2, <1>3, <4>2, UsableHas, DeadIs DEF Counted
      <4>3. QED
        BY <4>1, <4>2
    <3>2. QED
      BY <3>1, FS_EmptySet
  <2>5. Seen = Abstract!Nowhere
    BY <1>1, <2>4, SeenDone, NoneLeft
  <2>6. QED
    BY <2>3, <2>5
<1>4. CASE table.count # 0 /\ UNCHANGED table /\ NotGrowing
  <2>1. ~ (room' > table'.count) /\ table' = table
    BY <1>1, <1>2, <1>4
  <2>2. StepKept /\ Seen' = MapOf(table')
    BY <1>1, <1>4, <2>1, SameTable, QuietKeeps
  <2>3. QED
    BY <1>1, <2>1, <2>2, SeenDone
<1>5. CASE table.count # 0 /\ StartGrow(c, <<>>)
  <2>1. table # NoTable /\ Within(table)
    BY <1>1, <1>5, NoTableIs, UsableHas
  <2>2. table.cap \in Caps /\ table.count <= LoadLimit(table.cap)
    BY <1>2, <2>1, TableShape DEF Within
  <2>3. CapsForCount(table.count) # {}
    BY <2>2 DEF CapsForCount
  <2> DEFINE p == <<>>
             m == table.count
  <2>4. m \in Nat /\ CapsForCount(m) # {} /\ c = CapForCount(m)
    BY <1>2, <2>3
  <2> HIDE DEF c, m
  <2>5. c \in Caps /\ m <= LoadLimit(c)
    BY <2>4, CapForCountIs
  <2>6. table.count <= LoadLimit(c) /\ ~ (room' > table.count)
    BY <1>1, <1>2, <2>5 DEF m
  <2>7. StartGrow(c, p) /\ p = <<>> /\ table' = table /\ pending' = <<>>
    BY <1>5 DEF StartGrow
  <2> HIDE DEF p
  <2>8. IInv'
    BY <1>1, <2>1, <2>5, <2>6, <2>7, StartGrowStep
  <2>9. Seen' = Seen
    BY <1>1, <2>7, SeenDone
  <2>10. QED
    BY <1>1, <2>7, <2>8, <2>9, SameTable DEF StepKept
<1>6. QED
  BY <1>3, <1>4, <1>5 DEF ShrinkToFit

\* dict_assign up to its loop.
LEMMA AssignKeeps ==
  ASSUME IInv, NEW pairs \in Assigns, Assign(pairs)
  PROVE  StepKept /\ Seen' = Abstract!Stored(Abstract!Nowhere, pairs)
<1> DEFINE n == Len(pairs)
           c == CapForCount(n)
<1>1. /\ Usable(table) /\ ~ Growing /\ todo' = pairs /\ room' = n /\ NotGrowing
      /\ CapsForCount(n) # {}
      /\ table' = IF n > 0 /\ c > table.cap THEN EmptyTable(c) ELSE ClearedTable(table)
  BY DEF IInv, Starts, Done, TypeOK, Assign
<1>2. pairs \in Seq(Keys \X Vals) /\ n \in Nat
  BY DictAssumption
<1> HIDE DEF n
<1>3. c \in Caps /\ c \in Nat \ {0} /\ n <= LoadLimit(c)
  BY <1>1, <1>2, CapForCountIs
<1> HIDE DEF c
<1>4. LoadLimit(c) \in Nat
  BY <1>3, LoadLimitIs
<1>5. /\ Usable(table') /\ Live(table') = {} /\ table'.count = 0 /\ table'.ndeleted = 0
      /\ room' > 0 => room' <= LoadLimit(table'.cap)
  <2>1. CASE n > 0 /\ c > table.cap
    <3>1. table' = EmptyTable(c)
      BY <1>1, <2>1
    <3>2. QED
      BY <1>1, <1>3, <3>1, EmptyTableUsable
  <2>2. CASE ~ (n > 0 /\ c > table.cap)
    <3>1. table' = ClearedTable(table)
      BY <1>1, <2>2
    <3>2. /\ Usable(table') /\ Live(table') = {}
          /\ table'.cap = table.cap /\ table'.count = 0 /\ table'.ndeleted = 0
      BY <1>1, <3>1, ClearedIs
    <3>3. table.cap \in Nat /\ LoadLimit(table.cap) \in Nat
      BY <1>1, UsableShape
    <3>4. ASSUME n > 0
          PROVE  n <= LoadLimit(table.cap)
      <4>1. LoadLimit(c) <= LoadLimit(table.cap)
        BY <1>3, <2>2, <3>3, <3>4, LoadLimitGrows
      <4>2. QED
        BY <1>2, <1>3, <1>4, <3>3, <4>1
    <3>5. QED
      BY <1>1, <3>2, <3>4
  <2>3. QED
    BY <2>1, <2>2
<1>6. LoadLimit(table'.cap) \in Nat
  BY <1>5, UsableShape
<1>7. room' \in Nat /\ (room' > table'.count => room' + table'.ndeleted <= LoadLimit(table'.cap))
  BY <1>1, <1>2, <1>5, <1>6
<1>8. todo' \in Seq(Keys \X Vals)
  BY <1>1, <1>2
<1>9. StepKept /\ MapOf(table') = Abstract!Nowhere
  BY <1>1, <1>5, <1>7, <1>8, NoneLeft, QuietKeeps
<1>10. Puts' = pairs
  <2>1. pending' = <<>> /\ <<>> \o pairs = pairs
    BY <1>1, <1>2 DEF IInv, NotGrowing
  <2>2. QED
    BY <1>1, <2>1 DEF Puts
<1>11. Seen' = Final(Abstract!Nowhere, pairs)
  BY <1>9, <1>10, SeenIs
<1>12. QED
  BY <1>9, <1>11 DEF Final, Abstract!Stored

\* What is stored, at once or after the rehash that it waits for, is a first pair
\* of what was to be stored.
LEMMA StoresSeen ==
  ASSUME NEW p \in Keys \X Vals, NEW s \in Seq(Keys \X Vals),
         Stores(p[1], p[2]), todo' = s
  PROVE  Seen' = Final(MapOf(table), <<p>> \o s)
<1> DEFINE q == <<p>> \o s
<1>1. /\ q \in Seq(Keys \X Vals) /\ q # <<>> /\ Head(q) = p /\ Tail(q) = s
      /\ <<>> \o s = s /\ p = <<p[1], p[2]>>
  BY FirstPut
<1>2. CASE MapOf(table') = WithValue(table, p[1], p[2]) /\ pending' = <<>>
  <2>1. Puts' = s
    BY <1>1, <1>2 DEF Puts
  <2> HIDE DEF q
  <2>2. Final(MapOf(table'), s) = Final(MapOf(table), q)
    BY <1>1, <1>2, FinalHead
  <2>3. QED
    BY <2>1, <2>2, SeenIs DEF q
<1>3. CASE table' = table /\ pending' = <<p[1], p[2]>>
  <2>1. pending' = p /\ pending' # <<>>
    BY <1>1, <1>3
  <2>2. Puts' = q
    BY <2>1 DEF Puts
  <2>3. QED
    BY <1>3, <2>2, SeenIs
<1>4. QED
  BY <1>2, <1>3 DEF Stores

(* Storing one pair gives its key the value, and no other key.                *)
LEMMA FinalOne ==
  ASSUME NEW t, NEW p \in Keys \X Vals
  PROVE  Final(MapOf(t), <<p>> \o <<>>) = WithValue(t, p[1], p[2])
<1> DEFINE s == <<p>>
           f == Final(MapOf(t), s)
<1>1. <<p>> \o <<>> = s /\ DOMAIN s = {1} /\ s[1] = p
  OBVIOUS
<1>2. ASSUME NEW k \in Keys
      PROVE  f[k] = IF k = p[1] THEN p[2] ELSE MapOf(t)[k]
  <2> HIDE DEF s
  <2>1. CASE k = p[1]
    BY <1>1, <2>1, FinalAt
  <2>2. CASE k # p[1]
    BY <1>1, <2>2, FinalAt
  <2>3. QED
    BY <2>1, <2>2
<1>3. f = [k \in Keys |-> f[k]]
  BY DEF Final
<1> HIDE DEF f
<1>4. QED
  BY <1>1, <1>2, <1>3 DEF WithValue, MapOf, f

\* dict_set.
LEMMA SetKeeps ==
  ASSUME IInv, NEW k \in Keys, NEW v \in Vals, Set(k, v)
  PROVE  StepKept /\ Seen' = WithValue(table, k, v)
<1> DEFINE p == <<k, v>>
           s == <<>>
<1>1. /\ ~ Growing /\ Store(k, v) /\ room' = room /\ todo' = s
      /\ todo' \in Seq(Keys \X Vals)
  BY DEF Set, Starts, Done
<1>2. StepKept /\ Stores(k, v)
  BY <1>1, StoreKeeps DEF StepKept
<1>3. p \in Keys \X Vals /\ p[1] = k /\ p[2] = v /\ s \in Seq(Keys \X Vals)
  OBVIOUS
<1>4. Seen' = Final(MapOf(table), <<p>> \o <<>>)
  <2> HIDE DEF p
  <2>1. QED
    BY <1>1, <1>2, <1>3, StoresSeen
<1> HIDE DEF p
<1>5. QED
  BY <1>2, <1>3, <1>4, FinalOne

\* dict_add, dict_get_or_add: a key that is stored keeps its value.
LEMMA AddKeeps ==
  ASSUME IInv, NEW k \in Keys, NEW v \in Vals, Add(k, v)
  PROVE  StepKept /\ Seen' = IF Probe(table, k).found THEN MapOf(table)
                             ELSE WithValue(table, k, v)
<1> DEFINE p == <<k, v>>
           s == <<>>
<1>1. /\ Usable(table) /\ ~ Growing /\ room' = room /\ todo' = s /\ room \in Nat
      /\ todo' \in Seq(Keys \X Vals) /\ RoomOK
      /\ IF Probe(table, k).found THEN table' = table /\ NotGrowing ELSE Insert(k, v)
  BY DEF IInv, TypeOK, Add, Starts, Done
<1>2. CASE Probe(table, k).found
  <2>1. table' = table /\ NotGrowing
    BY <1>1, <1>2
  <2>2. room' > table'.count => room' + table'.ndeleted <= LoadLimit(table'.cap)
    BY <1>1, <2>1 DEF RoomOK
  <2>3. StepKept /\ Seen' = MapOf(table')
    BY <1>1, <2>1, <2>2, SameTable, QuietKeeps
  <2>4. QED
    BY <1>2, <2>1, <2>3
<1>3. CASE ~ Probe(table, k).found
  <2>1. ~ Stored(table, k) /\ Insert(k, v)
    BY <1>1, <1>3, FoundStored
  <2>2. StepKept /\ Stores(k, v)
    BY <1>1, <2>1, InsertKeeps DEF StepKept
  <2>3. p \in Keys \X Vals /\ p[1] = k /\ p[2] = v /\ s \in Seq(Keys \X Vals)
    OBVIOUS
  <2>4. Seen' = Final(MapOf(table), <<p>> \o <<>>)
    <3> HIDE DEF p
    <3>1. QED
      BY <1>1, <2>2, <2>3, StoresSeen
  <2> HIDE DEF p
  <2>5. QED
    BY <1>3, <2>2, <2>3, <2>4, FinalOne
<1>4. QED
  BY <1>2, <1>3

(* An iteration of dict_assign stores the next pair of what was to be stored. *)
LEMMA AssignStepKeeps ==
  ASSUME IInv, AssignStep
  PROVE  StepKept /\ Seen' = Seen
<1> DEFINE p == Head(todo)
           s == Tail(todo)
<1>1. /\ todo \in Seq(Keys \X Vals) /\ todo # <<>> /\ ~ Growing /\ room' = room
      /\ todo' = s /\ Store(p[1], p[2]) /\ pending = <<>>
  BY DEF IInv, TypeOK, AssignStep
<1>2. /\ p \in Keys \X Vals /\ s \in Seq(Keys \X Vals)
      /\ p[1] \in Keys /\ p[2] \in Vals /\ <<p>> \o s = todo
  <2>1. p \in Keys \X Vals /\ s \in Seq(Keys \X Vals)
    BY <1>1
  <2>2. <<p>> \o s = todo
    BY <1>1, HeadTail
  <2>3. QED
    BY <2>1, <2>2
<1> HIDE DEF p, s
<1>3. StepKept /\ Stores(p[1], p[2])
  BY <1>1, <1>2, StoreKeeps DEF StepKept
<1>4. Seen' = Final(MapOf(table), todo)
  BY <1>1, <1>2, <1>3, StoresSeen
<1>5. Puts = todo
  <2>1. <<>> \o todo = todo
    BY <1>1
  <2>2. QED
    BY <1>1, <2>1 DEF Puts
<1>6. QED
  BY <1>3, <1>4, <1>5, SeenIs

-----------------------------------------------------------------------------
\* A process starts with no table.
LEMMA DictInit == Init => IInv
<1>1. SUFFICES ASSUME Init
               PROVE  IInv
  OBVIOUS
<1>2. /\ table = NoTable /\ fresh = NoTable /\ idx = 0
      /\ pending = <<>> /\ todo = <<>> /\ room = 0
  BY <1>1 DEF Init
<1>3. TypeOK
  BY <1>2, NoTableIs DEF TypeOK
<1>4. QED
  BY <1>2, <1>3, NoTableIs DEF IInv, Usable, RoomOK, Growing

\* A call does to the map what its name and arguments say, and the steps of its
\* loops do nothing.
MapStep == Abstract!Next \/ (Seen' = Seen /\ call' = call)

(* A call that starts finds the map that the table holds.                     *)
LEMMA StartsIs ==
  ASSUME IInv, NEW c, Starts(c)
  PROVE  call = Nothing /\ call' = c /\ Usable(table) /\ Seen = MapOf(table)
BY SeenDone DEF IInv, Starts, Done

\* dict_set, dict_add and dict_get_or_add, with their answers.
LEMMA PutsMap ==
  ASSUME IInv, NEW k \in Keys, NEW v \in Vals, Set(k, v) \/ Add(k, v)
  PROVE  StepKept /\ MapStep
<1>1. CASE Set(k, v)
  <2> DEFINE c == [op |-> "set", key |-> k, val |-> v, inserted |-> ~ Probe(table, k).found]
  <2>1. Starts(c)
    BY <1>1 DEF Set
  <2>2. call = Nothing /\ call' = c /\ Usable(table) /\ Seen = MapOf(table)
    <3> HIDE DEF c
    <3>1. QED
      BY <2>1, StartsIs
  <2>3. StepKept /\ Seen' = WithValue(table, k, v)
    BY <1>1, SetKeeps
  <2>4. Seen' = [Seen EXCEPT ![k] = v]
    BY <2>2, <2>3 DEF WithValue
  <2>5. (~ Probe(table, k).found) = (Seen[k] = Absent)
    <3>1. (~ Probe(table, k).found) = (Lookup(table, k) = Absent)
      BY <2>2, FoundAnswers
    <3>2. Seen[k] = Lookup(table, k)
      BY <2>2 DEF MapOf
    <3>3. QED
      BY <3>1, <3>2, Zenon
  <2>6. call' = [op |-> "set", key |-> k, val |-> v, inserted |-> Seen[k] = Absent]
    BY <2>2, <2>5, Zenon
  <2>7. Abstract!Set(k, v)
    BY <2>2, <2>4, <2>6 DEF Abstract!Set, Abstract!Call
  <2>8. QED
    BY <2>3, <2>7 DEF MapStep, Abstract!Next
<1>2. CASE Add(k, v)
  <2> DEFINE kept == IF Seen[k] = Absent THEN v ELSE Seen[k]
             c == [op |-> "add", key |-> k, val |-> v,
                   inserted |-> ~ Probe(table, k).found,
                   value |-> IF Probe(table, k).found THEN Lookup(table, k) ELSE v]
  <2>1. Starts(c)
    BY <1>2 DEF Add
  <2>2. call = Nothing /\ call' = c /\ Usable(table) /\ Seen = MapOf(table)
    <3> HIDE DEF c
    <3>1. QED
      BY <2>1, StartsIs
  <2>3. /\ (~ Probe(table, k).found) = (Lookup(table, k) = Absent)
        /\ Seen[k] = Lookup(table, k)
    BY <2>2, FoundAnswers DEF MapOf
  <2>4. (~ Probe(table, k).found) = (Seen[k] = Absent)
    BY <2>3, Zenon
  <2>5. Probe(table, k).found <=> Seen[k] # Absent
    BY <2>2, <2>3, FoundAnswers
  <2>6. kept = IF Probe(table, k).found THEN Lookup(table, k) ELSE v
    BY <2>3, <2>5
  <2>7. StepKept /\ Seen' = IF Probe(table, k).found THEN MapOf(table)
                             ELSE WithValue(table, k, v)
    BY <1>2, AddKeeps
  <2>8. Seen' = [Seen EXCEPT ![k] = kept]
    <3>1. CASE Probe(table, k).found
      <4>1. kept = Seen[k] /\ Seen' = MapOf(table)
        BY <2>5, <2>7, <3>1
      <4> HIDE DEF kept
      <4>2. [MapOf(table) EXCEPT ![k] = MapOf(table)[k]] = MapOf(table)
        BY DEF MapOf
      <4>3. QED
        BY <2>2, <4>1, <4>2
    <3>2. CASE ~ Probe(table, k).found
      BY <2>2, <2>5, <2>7, <3>2 DEF WithValue
    <3>3. QED
      BY <3>1, <3>2
  <2> HIDE DEF kept
  <2>9. call' = [op |-> "add", key |-> k, val |-> v, inserted |-> Seen[k] = Absent,
                 value |-> kept]
    BY <2>2, <2>4, <2>6, Zenon
  <2>10. Abstract!Add(k, v)
    BY <2>2, <2>8, <2>9 DEF Abstract!Add, Abstract!Call, kept
  <2>11. QED
    BY <2>7, <2>10 DEF MapStep, Abstract!Next
<1>3. QED
  BY <1>1, <1>2

\* dict_remove, dict_extract and dict_erase_if, with their answers.
LEMMA ErasesMap ==
  ASSUME IInv, (\E k \in Keys : Remove(k)) \/ \E K \in SUBSET Keys : EraseIf(K)
  PROVE  StepKept /\ MapStep
<1>1. ASSUME NEW k \in Keys, Remove(k)
      PROVE  StepKept /\ MapStep
  <2> DEFINE c == [op |-> "remove", key |-> k, removed |-> Probe(table, k).found,
                   value |-> Lookup(table, k)]
  <2>1. Starts(c)
    BY <1>1 DEF Remove
  <2>2. call = Nothing /\ call' = c /\ Usable(table) /\ Seen = MapOf(table)
    <3> HIDE DEF c
    <3>1. QED
      BY <2>1, StartsIs
  <2>3. /\ Probe(table, k).found = (Lookup(table, k) # Absent)
        /\ Seen[k] = Lookup(table, k)
    BY <2>2, FoundAnswers DEF MapOf
  <2>4. call' = [op |-> "remove", key |-> k, removed |-> Seen[k] # Absent, value |-> Seen[k]]
    BY <2>2, <2>3, Zenon
  <2>5. StepKept /\ Seen' = Without(table, {k})
    BY <1>1, RemoveKeeps
  <2>6. Seen' = [Seen EXCEPT ![k] = Absent]
    BY <2>2, <2>5 DEF Without, MapOf
  <2>7. Abstract!Remove(k)
    BY <2>2, <2>4, <2>6 DEF Abstract!Remove, Abstract!Call
  <2>8. QED
    BY <2>5, <2>7 DEF MapStep, Abstract!Next
<1>2. ASSUME NEW K \in SUBSET Keys, EraseIf(K)
      PROVE  StepKept /\ MapStep
  <2> DEFINE c == [op |-> "erase_if", keys |-> K]
  <2>1. Starts(c)
    BY <1>2 DEF EraseIf
  <2>2. call = Nothing /\ call' = c /\ Seen = MapOf(table)
    <3> HIDE DEF c
    <3>1. QED
      BY <2>1, StartsIs
  <2>3. StepKept /\ Seen' = Without(table, K)
    BY <1>2, EraseIfKeeps
  <2>4. Seen' = [k \in Keys |-> IF k \in K THEN Absent ELSE Seen[k]]
    BY <2>2, <2>3 DEF Without, MapOf
  <2>5. Abstract!EraseIf(K)
    BY <2>2, <2>4 DEF Abstract!EraseIf, Abstract!Call
  <2>6. QED
    BY <2>3, <2>5 DEF MapStep, Abstract!Next
<1>3. QED
  BY <1>1, <1>2

\* The calls that only see to the room, and those that leave nothing.
LEMMA ResizesMap ==
  ASSUME IInv, \/ Clear \/ Release \/ ShrinkToFit
               \/ \E n \in Reserves : InitTable(n) \/ Reserve(n)
  PROVE  StepKept /\ MapStep
<1>1. ASSUME NEW c, Starts(c)
      PROVE  call = Nothing /\ call' = c
  BY <1>1 DEF Starts
<1>2. CASE Clear
  <2>1. Abstract!Call([op |-> "clear"], Abstract!Nowhere) /\ StepKept
    BY <1>1, <1>2, ClearKeeps DEF Clear, Abstract!Call
  <2>2. QED
    BY <2>1 DEF MapStep, Abstract!Next, Abstract!Clear
<1>3. CASE Release
  <2>1. Abstract!Call([op |-> "release"], Abstract!Nowhere) /\ StepKept
    BY <1>1, <1>3, ReleaseKeeps DEF Release, Abstract!Call
  <2>2. QED
    BY <2>1 DEF MapStep, Abstract!Next, Abstract!Clear
<1>4. CASE ShrinkToFit
  <2>1. Abstract!Call([op |-> "shrink"], Seen) /\ StepKept
    BY <1>1, <1>4, ShrinkToFitKeeps DEF ShrinkToFit, Abstract!Call
  <2>2. QED
    BY <2>1 DEF MapStep, Abstract!Next, Abstract!Resize
<1>5. ASSUME NEW n \in Reserves, InitTable(n)
      PROVE  StepKept /\ MapStep
  <2>1. Abstract!Call([op |-> "init", n |-> n], Seen) /\ StepKept
    BY <1>1, <1>5, InitTableKeeps DEF InitTable, Abstract!Call
  <2>2. QED
    BY <2>1 DEF MapStep, Abstract!Next, Abstract!Resize
<1>6. ASSUME NEW n \in Reserves, Reserve(n)
      PROVE  StepKept /\ MapStep
  <2>1. Starts([op |-> "reserve", n |-> n])
    BY <1>6 DEF Reserve
  <2>2. Abstract!Call([op |-> "reserve", n |-> n], Seen) /\ StepKept
    BY <1>1, <1>6, <2>1, ReserveKeeps DEF Abstract!Call
  <2>3. QED
    BY <2>2 DEF MapStep, Abstract!Next, Abstract!Resize
<1>7. QED
  BY <1>2, <1>3, <1>4, <1>5, <1>6

\* Every step keeps the invariant, and does what the action properties say.
LEMMA DictStep == IInv /\ [Next]_vars => StepKept /\ MapStep
<1>1. SUFFICES ASSUME IInv, [Next]_vars
               PROVE  StepKept /\ MapStep
  OBVIOUS
<1>2. ASSUME UNCHANGED <<table, fresh, idx, pending, todo, room>>
      PROVE  StepKept /\ Seen' = Seen
  <2>1. /\ table' = table /\ fresh' = fresh /\ idx' = idx
        /\ pending' = pending /\ todo' = todo /\ room' = room
    BY <1>2
  <2>2. IInv'
    BY <1>1, <2>1 DEF IInv, TypeOK, FreshOK, PendingOK, RoomOK, Copied, Moved, Growing
  <2>3. Usable(table)
    BY <1>1 DEF IInv
  <2>4. StaysPut(table, table')
    BY <2>1, <2>3, SameTable
  <2>5. ~ (~ Growing /\ Growing') /\ ~ (table'.cap > table.cap)
    <3>1. table.cap \in Nat
      BY <2>3, UsableShape
    <3>2. QED
      BY <2>1, <3>1 DEF Growing
  <2>6. Seen' = Seen
    BY <2>1 DEF Seen, Puts
  <2>7. QED
    BY <2>2, <2>4, <2>5, <2>6 DEF StepKept
<1>3. CASE UNCHANGED vars
  <2>1. UNCHANGED <<table, fresh, idx, pending, todo, room>> /\ call' = call
    BY <1>3 DEF vars
  <2>2. QED
    BY <1>2, <2>1 DEF MapStep
<1>4. CASE Return
  <2>1. /\ UNCHANGED <<table, fresh, idx, pending, todo, room>>
        /\ call # Nothing /\ call' = Nothing
    BY <1>4 DEF Return
  <2>2. StepKept /\ Seen' = Seen
    BY <1>2, <2>1
  <2>3. Abstract!Return
    BY <2>1, <2>2 DEF Abstract!Return
  <2>4. QED
    BY <2>2, <2>3 DEF MapStep, Abstract!Next
<1>5. CASE \E k \in Keys, v \in Vals : Set(k, v) \/ Add(k, v)
  BY <1>1, <1>5, PutsMap
<1>6. CASE GrowStep
  <2>1. table' = table /\ Growing /\ pending' = pending /\ todo' = todo /\ call' = call
    BY <1>6 DEF GrowStep
  <2>2. Usable(table) /\ table.cap \in Nat
    BY <1>1, UsableShape DEF IInv
  <2>3. ~ (table'.cap > table.cap)
    BY <2>1, <2>2
  <2>4. StepKept
    BY <1>1, <1>6, <2>1, <2>3, GrowStepKeeps DEF StepKept
  <2>5. Seen' = Seen
    BY <2>1 DEF Seen, Puts
  <2>6. QED
    BY <2>1, <2>4, <2>5 DEF MapStep
<1>7. CASE GrowEnd
  <2>1. call' = call
    BY <1>7 DEF GrowEnd
  <2>2. QED
    BY <1>1, <1>7, <2>1, GrowEndKeeps DEF MapStep
<1>8. CASE (\E k \in Keys : Remove(k)) \/ \E K \in SUBSET Keys : EraseIf(K)
  BY <1>1, <1>8, ErasesMap
<1>9. CASE \/ Clear \/ Release \/ ShrinkToFit
           \/ \E n \in Reserves : InitTable(n) \/ Reserve(n)
  BY <1>1, <1>9, ResizesMap
<1>10. CASE \E pairs \in Assigns : Assign(pairs)
  <2>1. PICK pairs \in Assigns : Assign(pairs)
    BY <1>10
  <2>2. call = Nothing /\ call' = [op |-> "assign", pairs |-> pairs]
    BY <2>1 DEF Assign, Starts
  <2>3. StepKept /\ Seen' = Abstract!Stored(Abstract!Nowhere, pairs)
    BY <1>1, <2>1, AssignKeeps
  <2>4. Abstract!Assign(pairs)
    BY <2>2, <2>3 DEF Abstract!Assign, Abstract!Call
  <2>5. QED
    BY <2>3, <2>4 DEF MapStep, Abstract!Next
<1>11. CASE AssignStep
  <2>1. call' = call
    BY <1>11 DEF AssignStep
  <2>2. QED
    BY <1>1, <1>11, <2>1, AssignStepKeeps DEF MapStep
<1>12. QED
  BY <1>1, <1>3, <1>4, <1>5, <1>6, <1>7, <1>8, <1>9, <1>10, <1>11 DEF Next

\* The invariant holds of every reachable state.
THEOREM DictInvariant == Spec => []IInv
<1>1. IInv /\ [Next]_vars => IInv'
  BY DictStep DEF StepKept
<1>2. QED
  BY <1>1, DictInit, PTL DEF Spec

\* Every probe ends, and where it should: for any hash and any history of
\* removals, reused tombstones and rehashes.
THEOREM DictProbesEnd == Spec => []ProbesEnd
<1>1. IInv => ProbesEnd
  <2>1. SUFFICES ASSUME IInv
                 PROVE  ProbesEnd
    OBVIOUS
  <2>2. KeysUnique(table) /\ Reachable(table) /\ HasEmptySlot(table)
    BY <2>1, UsableHas DEF IInv
  <2>3. KeysUnique(fresh) /\ Reachable(fresh)
    BY <2>1, NoTableIs DEF IInv, FreshOK, Sound, Growing
  <2>4. QED
    BY <2>2, <2>3 DEF ProbesEnd
<1>2. QED
  BY <1>1, DictInvariant, PTL

\* count and ndeleted are exact, and the table keeps its shape.
THEOREM DictCountersExact == Spec => []CountersExact
<1>1. IInv => CountersExact
  <2>1. SUFFICES ASSUME IInv
                 PROVE  CountersExact
    OBVIOUS
  <2>2. Counted(table) /\ TypeOK
    BY <2>1, UsableHas DEF IInv
  <2>3. QED
    BY <2>2 DEF CountersExact, Counted, Dead
<1>2. QED
  BY <1>1, DictInvariant, PTL

\* dict_reserve keeps its promise.
THEOREM DictReserveKept == Spec => ReserveKept
<1>1. IInv /\ [Next]_vars =>
        [~ Growing /\ Growing' /\ pending' # <<>> => table.count >= room]_vars
  BY DictStep DEF StepKept
<1>2. QED
  BY <1>1, DictInvariant, PTL DEF Spec, ReserveKept

\* Tombstones never enlarge the table.
THEOREM DictChurnKeepsCapacity == Spec => ChurnKeepsCapacity
<1>1. IInv /\ [Next]_vars =>
        [Growing /\ pending # <<>> /\ table'.cap > table.cap
           => LoadLimit(table.cap) <= table.count]_vars
  BY DictStep DEF StepKept
<1>2. QED
  BY <1>1, DictInvariant, PTL DEF Spec, ChurnKeepsCapacity

\* No entry moves except in a rehash.
THEOREM DictAddressesKept == Spec => AddressesKept
<1>1. IInv /\ [Next]_vars =>
        [~ Growing => \A i \in Live(table), j \in Live(table') :
           table.slots[i].key = table'.slots[j].key => i = j]_vars
  BY DictStep DEF StepKept, StaysPut
<1>2. QED
  BY <1>1, DictInvariant, PTL DEF Spec, AddressesKept

-----------------------------------------------------------------------------
\* To the client the table is a map on which each call does what its name and
\* arguments say, and which it answers for; the steps of a rehash, tombstones
\* and the order of the entries do not show.
THEOREM DictImplementsMap == Spec => ImplementsMap
<1>1. Init => Abstract!Init
  <2>1. SUFFICES ASSUME Init
                 PROVE  Abstract!Init
    OBVIOUS
  <2>2. table = NoTable /\ pending = <<>> /\ todo = <<>> /\ call = Nothing
    BY <2>1 DEF Init
  <2>3. Seen = MapOf(table)
    BY <2>2, SeenDone
  <2>4. \A k \in Keys : Lookup(table, k) = Absent
    BY <2>2 DEF Lookup, Probe, Result, NoTable
  <2>5. QED
    BY <2>2, <2>3, <2>4 DEF Abstract!Init, Abstract!Nowhere, MapOf
<1>2. IInv /\ [Next]_vars => [Abstract!Next]_<<Seen, call>>
  BY DictStep DEF MapStep
<1>3. QED
  BY <1>1, <1>2, DictInvariant, PTL DEF Spec, ImplementsMap, Abstract!Spec
=============================================================================
