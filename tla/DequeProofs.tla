---------------------------- MODULE DequeProofs ----------------------------
(***************************************************************************)
(* For every element type, least and largest capacity, array and request:  *)
(* the ring of Deque is the sequence its client sees.                      *)
(***************************************************************************)
EXTENDS Deque, NatFacts, SequenceTheorems

-----------------------------------------------------------------------------
\* A buffer with its elements.
Ring(d) ==
  /\ d = [data |-> d.data, head |-> d.head, count |-> d.count, cap |-> d.cap]
  /\ d.cap \in Powers /\ MinCap <= d.cap
  /\ d.data \in [0 .. (d.cap - 1) -> Vals \cup {Junk}]
  /\ d.head \in 0 .. (d.cap - 1)
  /\ d.count \in 0 .. d.cap
  /\ \A i \in 0 .. (d.count - 1) : At(d, i) \in Vals

RingOrZero(d) == d = ZeroDeque \/ Ring(d)

\* The same elements in the same order.
SameItems(d, u) == u.count = d.count /\ \A i \in 0 .. (d.count - 1) : At(u, i) = At(d, i)

(* The capacities are positive powers of two within the bound.                *)
LEMMA PowersAre == Powers \subseteq Nat \ {0} /\ \A p \in Powers : IsPowerOfTwo(p) /\ p <= MaxCap
BY DequeAssumption DEF Powers, PowersUpTo

(* The types of the fields of a ring, and what the zeroed one looks like.     *)
LEMMA RingShape ==
  ASSUME NEW d, RingOrZero(d)
  PROVE  /\ d.cap \in Nat /\ d.head \in Nat /\ d.count \in Nat /\ d.count <= d.cap
         /\ d = [data |-> d.data, head |-> d.head, count |-> d.count, cap |-> d.cap]
         /\ Ring(d) => d.cap > 0
         /\ d.cap = 0 => d = ZeroDeque
         /\ d = ZeroDeque => d.cap = 0 /\ d.count = 0
         /\ d.cap # 0 => Ring(d)
         /\ \A i \in 0 .. (d.count - 1) : At(d, i) \in Vals
<1>1. CASE d = ZeroDeque
  <2>1. d = [data |-> <<>>, head |-> 0, count |-> 0, cap |-> 0]
    BY <1>1 DEF ZeroDeque
  <2>2. d.data = <<>> /\ d.head = 0 /\ d.count = 0 /\ d.cap = 0
    BY <2>1
  <2>3. ~ Ring(d)
    BY <2>2, PowersAre DEF Ring
  <2>4. d = [data |-> d.data, head |-> d.head, count |-> d.count, cap |-> d.cap]
    BY <2>1
  <2>5. QED
    BY <1>1, <2>2, <2>3, <2>4
<1>2. CASE Ring(d)
  <2>1. d.cap \in Nat \ {0}
    BY <1>2, PowersAre DEF Ring
  <2>2. d # ZeroDeque
    BY <2>1 DEF ZeroDeque
  <2>3. QED
    BY <1>2, <2>1, <2>2 DEF Ring
<1>3. QED
  BY <1>1, <1>2 DEF RingOrZero

\* rki_deque_slot_index is one step around the ring at most.
LEMMA SlotIs ==
  ASSUME NEW c \in Nat \ {0}, NEW h \in 0 .. (c - 1), NEW i \in 0 .. c
  PROVE  (h + i) % c = IF h + i < c THEN h + i ELSE h + i - c
<1> DEFINE a == h + i
<1>1. a \in 0 .. (2 * c - 1)
  OBVIOUS
<1> HIDE DEF a
<1>2. a % c = IF a < c THEN a ELSE a - c
  BY <1>1, ModOnce
<1>3. QED
  BY <1>2 DEF a

\* stdc_bit_ceil finds the least capacity, where there is one.
LEMMA RoundCapIs ==
  ASSUME NEW n \in Nat, Possible(n)
  PROVE  /\ RoundCap(n) \in Powers /\ MinCap <= RoundCap(n) /\ n <= RoundCap(n)
         /\ \A p \in Powers : MinCap <= p /\ n <= p => RoundCap(n) <= p
<1> DEFINE S == {p \in Powers : MinCap <= p /\ n <= p}
<1>1. S # {} /\ S \subseteq Nat
  BY PowersAre DEF Possible
<1>2. PICK c \in S : \A p \in S : c <= p
  <2> HIDE DEF S
  <2>1. QED
    BY <1>1, LeastExists
<1>3. \E x \in Powers : /\ MinCap <= x /\ n <= x
                        /\ \A p \in Powers : MinCap <= p /\ n <= p => x <= p
  BY <1>2
<1>4. QED
  BY <1>3 DEF RoundCap

\* rki_deque_realloc_to unrolls the ring.
LEMMA ReallocIs ==
  ASSUME NEW d, RingOrZero(d), NEW c \in Powers, MinCap <= c, d.count <= c,
         NEW u, u = ReallocTo(d, c)
  PROVE  Ring(u) /\ u.cap = c /\ u.head = 0 /\ SameItems(d, u)
<1>1. /\ d.cap \in Nat /\ d.head \in Nat /\ d.count \in Nat /\ d.count <= d.cap
      /\ d = [data |-> d.data, head |-> d.head, count |-> d.count, cap |-> d.cap]
      /\ \A i \in 0 .. (d.count - 1) : At(d, i) \in Vals
      /\ c \in Nat \ {0}
  BY RingShape, PowersAre
<1> DEFINE f == FirstSegment(d)
           g == [j \in 0 .. (c - 1) |-> IF j < f THEN d.data[d.head + j]
                                        ELSE IF j < d.count THEN d.data[j - f]
                                        ELSE Junk]
<1>2. u = [data |-> g, head |-> 0, count |-> d.count, cap |-> c]
  <2>1. u = [d EXCEPT !.data = g, !.head = 0, !.cap = c]
    BY DEF ReallocTo
  <2> HIDE DEF g
  <2>2. QED
    BY <1>1, <2>1
<1>3. f \in Int /\ f <= d.count
  BY <1>1 DEF FirstSegment
<1>4. ASSUME NEW i \in 0 .. (d.count - 1)
      PROVE  At(d, i) = g[i] /\ At(u, i) = g[i]
  <2>1. d.cap \in Nat \ {0} /\ d.head \in 0 .. (d.cap - 1)
    BY <1>1, RingShape DEF Ring
  <2>2. (d.head + i) % d.cap = IF d.head + i < d.cap THEN d.head + i ELSE d.head + i - d.cap
    <3> DEFINE h == d.head
               b == d.cap
    <3>1. b \in Nat \ {0} /\ h \in 0 .. (b - 1) /\ i \in 0 .. b
      BY <1>1, <2>1
    <3> HIDE DEF h, b
    <3>2. (h + i) % b = IF h + i < b THEN h + i ELSE h + i - b
      BY <3>1, SlotIs
    <3>3. QED
      BY <3>2 DEF h, b
  <2>3. f = IF d.count < d.cap - d.head THEN d.count ELSE d.cap - d.head
    BY DEF FirstSegment
  <2>4. At(d, i) = IF i < f THEN d.data[d.head + i] ELSE d.data[i - f]
    <3>1. CASE i < f
      <4>1. d.head + i < d.cap
        BY <1>1, <2>1, <2>3, <3>1
      <4>2. QED
        BY <2>2, <3>1, <4>1 DEF At, SlotIndex
    <3>2. CASE ~ (i < f)
      <4>1. ~ (d.head + i < d.cap) /\ d.head + i - d.cap = i - f
        BY <1>1, <2>1, <2>3, <3>2
      <4>2. QED
        BY <2>2, <3>2, <4>1 DEF At, SlotIndex
    <3>3. QED
      BY <3>1, <3>2
  <2>5. i \in 0 .. (c - 1)
    BY <1>1
  <2>6. (0 + i) % c = i
    <3>1. i \in 0 .. (2 * c - 1) /\ i < c /\ 0 + i = i
      BY <1>1, <2>5
    <3>2. QED
      BY <1>1, <3>1, ModOnce
  <2>7. SlotIndex(u, i) = i
    <3> HIDE DEF g
    <3>1. QED
      BY <1>2, <2>6 DEF SlotIndex
  <2>8. At(u, i) = g[i]
    <3> HIDE DEF g
    <3>1. u.data = g
      BY <1>2
    <3>2. QED
      BY <2>7, <3>1 DEF At
  <2>9. g[i] = IF i < f THEN d.data[d.head + i]
               ELSE IF i < d.count THEN d.data[i - f] ELSE Junk
    <3> HIDE DEF f
    <3>1. QED
      BY <2>5
  <2>10. i < d.count
    BY <1>1
  <2>11. QED
    <3> HIDE DEF f, g
    <3>1. QED
      BY <2>4, <2>8, <2>9, <2>10
<1>5. SameItems(d, u)
  <2> HIDE DEF g
  <2>1. u.count = d.count
    BY <1>2
  <2>2. ASSUME NEW i \in 0 .. (d.count - 1)
        PROVE  At(u, i) = At(d, i)
    BY <1>4
  <2>3. QED
    BY <2>1, <2>2 DEF SameItems
<1>6. g \in [0 .. (c - 1) -> Vals \cup {Junk}]
  <2>1. ASSUME NEW j \in 0 .. (c - 1)
        PROVE  g[j] \in Vals \cup {Junk}
    <3>1. CASE j < d.count
      <4>1. j \in 0 .. (d.count - 1)
        BY <1>1, <3>1
      <4>2. At(d, j) = g[j]
        <5> HIDE DEF g
        <5>1. QED
          BY <1>4, <4>1
      <4>3. QED
        <5> HIDE DEF g
        <5>1. QED
          BY <1>1, <4>1, <4>2
    <3>2. CASE ~ (j < d.count)
      <4>1. ~ (j < f)
        BY <1>3, <1>1, <3>2
      <4>2. g[j] = Junk
        <5> HIDE DEF f
        <5>1. QED
          BY <3>2, <4>1
      <4>3. QED
        BY <4>2
    <3>3. QED
      BY <3>1, <3>2
  <2>2. QED
    BY <2>1
<1> HIDE DEF f, g
<1>7. /\ u = [data |-> u.data, head |-> u.head, count |-> u.count, cap |-> u.cap]
      /\ u.cap = c /\ u.head = 0 /\ u.count = d.count /\ u.data = g
  BY <1>2
<1>8. Ring(u)
  <2>1. \A i \in 0 .. (u.count - 1) : At(u, i) \in Vals
    BY <1>1, <1>5, <1>7 DEF SameItems
  <2>2. u.head \in 0 .. (u.cap - 1) /\ u.count \in 0 .. u.cap
    BY <1>1, <1>7
  <2>3. QED
    BY <1>6, <1>7, <2>1, <2>2 DEF Ring
<1>9. QED
  BY <1>5, <1>7, <1>8

\* rki_deque_reserve makes room and keeps the elements.
LEMMA ReservedIs ==
  ASSUME NEW d, RingOrZero(d), NEW n \in Nat, n <= d.cap \/ Possible(n),
         NEW u, u = Reserved(d, n)
  PROVE  /\ RingOrZero(u) /\ SameItems(d, u)
         /\ n <= u.cap
         /\ u.cap > d.cap => n > d.cap
         /\ n >= 1 => Ring(u)
<1>1. d.cap \in Nat /\ d.count \in Nat /\ d.count <= d.cap /\ (d.cap # 0 => Ring(d))
  BY RingShape
<1>2. CASE n <= d.cap
  <2>1. u = d
    BY <1>2 DEF Reserved
  <2>2. QED
    BY <1>1, <1>2, <2>1 DEF SameItems
<1>3. CASE ~ (n <= d.cap)
  <2>1. u = ReallocTo(d, RoundCap(n))
    BY <1>3 DEF Reserved
  <2>2. RoundCap(n) \in Powers /\ MinCap <= RoundCap(n) /\ n <= RoundCap(n)
    BY <1>3, RoundCapIs
  <2>3. RoundCap(n) \in Nat /\ d.count <= RoundCap(n)
    <3>1. RoundCap(n) \in Nat
      BY <2>2, PowersAre
    <3>2. QED
      BY <1>1, <1>3, <2>2, <3>1
  <2>4. Ring(u) /\ u.cap = RoundCap(n) /\ SameItems(d, u)
    BY <2>1, <2>2, <2>3, ReallocIs
  <2>5. QED
    BY <1>1, <1>3, <2>2, <2>4 DEF RingOrZero
<1>4. QED
  BY <1>2, <1>3

\* rki_deque_grow_one leaves a free slot.
LEMMA GrownIs ==
  ASSUME NEW d, RingOrZero(d), Possible(d.count + 1), NEW u, u = Grown(d)
  PROVE  /\ Ring(u) /\ SameItems(d, u)
         /\ d.count < u.cap
         /\ u.cap > d.cap => d.count = d.cap
<1>1. d.cap \in Nat /\ d.count \in Nat /\ d.count <= d.cap /\ (d.cap # 0 => Ring(d))
  BY RingShape
<1>2. CASE d.count # d.cap
  <2>1. u = d
    BY <1>2 DEF Grown
  <2>2. QED
    BY <1>1, <1>2, <2>1 DEF SameItems
<1>3. CASE d.count = d.cap /\ d.cap = 0
  <2>1. u = Reserved(d, MinCap)
    BY <1>3 DEF Grown
  <2>2. MinCap \in Nat \ {0} /\ MinCap \in Powers
    BY DequeAssumption, PowersAre
  <2>3. Possible(MinCap)
    BY <2>2 DEF Possible
  <2>4. RingOrZero(u) /\ SameItems(d, u) /\ MinCap <= u.cap /\ Ring(u)
    BY <2>1, <2>2, <2>3, ReservedIs
  <2>5. u.cap \in Nat
    BY <2>4, RingShape
  <2>6. QED
    BY <1>3, <2>2, <2>4, <2>5
<1>4. CASE d.count = d.cap /\ d.cap # 0
  <2>1. u = Reserved(d, d.cap * 2)
    BY <1>4 DEF Grown
  <2>2. d.cap \in Powers /\ MinCap <= d.cap
    BY <1>1, <1>4 DEF Ring
  <2>3. PICK c \in Powers : MinCap <= c /\ d.count + 1 <= c
    BY DEF Possible
  <2>4. c \in Nat /\ d.cap \in Nat /\ IsPowerOfTwo(c) /\ IsPowerOfTwo(d.cap) /\ d.cap < c
    BY <1>1, <1>4, <2>2, <2>3, PowersAre
  <2>5. 2 * d.cap <= c
    BY <2>4, PowerGap
  <2>6. Possible(d.cap * 2)
    BY <2>3, <2>4, <2>5 DEF Possible
  <2>7. d.cap * 2 \in Nat /\ d.cap * 2 >= 1
    BY <1>1, <1>4
  <2>8. RingOrZero(u) /\ SameItems(d, u) /\ d.cap * 2 <= u.cap /\ Ring(u)
    BY <2>1, <2>6, <2>7, ReservedIs
  <2>9. u.cap \in Nat
    BY <2>8, RingShape
  <2>10. QED
    BY <1>1, <1>4, <2>8, <2>9
<1>5. QED
  BY <1>2, <1>3, <1>4

-----------------------------------------------------------------------------
\* Two positions of one round are two slots.
LEMMA SlotsDiffer ==
  ASSUME NEW c \in Nat \ {0}, NEW h \in 0 .. (c - 1),
         NEW i \in 0 .. (c - 1), NEW j \in 0 .. (c - 1), i # j
  PROVE  (h + i) % c # (h + j) % c
<1>1. i \in 0 .. c /\ j \in 0 .. c
  OBVIOUS
<1>2. (h + i) % c = IF h + i < c THEN h + i ELSE h + i - c
  BY <1>1, SlotIs
<1>3. (h + j) % c = IF h + j < c THEN h + j ELSE h + j - c
  BY <1>1, SlotIs
<1>4. QED
  BY <1>2, <1>3

\* Going k slots on from the slot of position i is going to position i + k.
LEMMA SlotFrom ==
  ASSUME NEW c \in Nat \ {0}, NEW h \in 0 .. (c - 1),
         NEW i \in Nat, NEW k \in Nat, i + k < c
  PROVE  (((h + i) % c) + k) % c = (h + (i + k)) % c
<1> DEFINE a == (h + i) % c
<1>1. i \in 0 .. c
  OBVIOUS
<1>2. a = IF h + i < c THEN h + i ELSE h + i - c
  BY <1>1, SlotIs
<1>3. a \in 0 .. (c - 1) /\ k \in 0 .. c /\ i + k \in 0 .. c
  BY <1>2
<1> HIDE DEF a
<1>4. (a + k) % c = IF a + k < c THEN a + k ELSE a + k - c
  BY <1>3, SlotIs
<1>5. (h + (i + k)) % c = IF h + (i + k) < c THEN h + (i + k) ELSE h + (i + k) - c
  BY <1>3, SlotIs
<1>6. (a + k) % c = (h + (i + k)) % c
  BY <1>2, <1>3, <1>4, <1>5
<1>7. QED
  BY <1>6 DEF a

\* Going n slots back and i slots on is going to position i - n, or to the
\* part of the buffer before the head.
LEMMA SlotBack ==
  ASSUME NEW c \in Nat \ {0}, NEW h \in 0 .. (c - 1),
         NEW n \in 1 .. c, NEW i \in n .. (c - 1)
  PROVE  (((h + c - n) % c) + i) % c = (h + (i - n)) % c
<1> DEFINE a == (h + c - n) % c
<1>1. h + c - n \in 0 .. (2 * c - 1)
  OBVIOUS
<1>2. a = IF h + c - n < c THEN h + c - n ELSE h + c - n - c
  <2> DEFINE x == h + c - n
  <2> HIDE DEF x
  <2>1. x % c = IF x < c THEN x ELSE x - c
    BY <1>1, ModOnce DEF x
  <2>2. QED
    BY <2>1 DEF x
<1>3. a \in 0 .. (c - 1) /\ i \in 0 .. c /\ i - n \in 0 .. c
  BY <1>1, <1>2
<1> HIDE DEF a
<1>4. (a + i) % c = IF a + i < c THEN a + i ELSE a + i - c
  BY <1>3, SlotIs
<1>5. (h + (i - n)) % c = IF h + (i - n) < c THEN h + (i - n) ELSE h + (i - n) - c
  BY <1>3, SlotIs
<1>6. (a + i) % c = (h + (i - n)) % c
  BY <1>2, <1>3, <1>4, <1>5
<1>7. QED
  BY <1>6 DEF a

-----------------------------------------------------------------------------
\* `data` is the buffer of d with the elements of s written from slot start on.
Written(d, start, s, data) ==
  /\ data \in [0 .. (d.cap - 1) -> Vals \cup {Junk}]
  /\ \A k \in 0 .. (Len(s) - 1) : data[(start + k) % d.cap] = s[k + 1]
  /\ \A j \in 0 .. (d.cap - 1) :
       (\A k \in 0 .. (Len(s) - 1) : j # (start + k) % d.cap) => data[j] = d.data[j]

\* rki_deque_copy_in writes an array in at most two pieces.
LEMMA CopyInIs ==
  ASSUME NEW d, Ring(d), NEW start \in 0 .. (d.cap - 1),
         NEW s \in Seq(Vals), Len(s) <= d.cap, NEW u, u = CopyIn(d, start, s)
  PROVE  /\ u = [data |-> u.data, head |-> d.head, count |-> d.count, cap |-> d.cap]
         /\ Written(d, start, s, u.data)
<1> DEFINE c == d.cap
           n == Len(s)
           first == IF c - start < n THEN c - start ELSE n
           g == [j \in 0 .. (c - 1) |-> IF start <= j /\ j < start + first THEN s[j - start + 1]
                                        ELSE IF j < n - first THEN s[first + j + 1]
                                        ELSE d.data[j]]
<1>1. c \in Nat \ {0} /\ n \in Nat /\ start \in 0 .. (c - 1) /\ n <= c
  BY PowersAre DEF Ring
<1>2. u = [data |-> g, head |-> d.head, count |-> d.count, cap |-> c]
  <2>1. u = [d EXCEPT !.data = g]
    BY DEF CopyIn
  <2> HIDE DEF g
  <2>2. d = [data |-> d.data, head |-> d.head, count |-> d.count, cap |-> d.cap]
    BY DEF Ring
  <2>3. QED
    BY <2>1, <2>2
<1>3. first \in Nat /\ first <= n /\ first <= c - start
      /\ (n - first = 0 \/ first = c - start)
  BY <1>1
<1>4. ASSUME NEW j \in 0 .. (c - 1)
      PROVE  g[j] = IF start <= j /\ j < start + first THEN s[j - start + 1]
                    ELSE IF j < n - first THEN s[first + j + 1] ELSE d.data[j]
  <2> HIDE DEF first, c, n
  <2>1. QED
    OBVIOUS
<1>5. \A k \in 1 .. n : s[k] \in Vals
  BY ElementOfSeq
<1> HIDE DEF first
<1>6. \A j \in 0 .. (c - 1) : d.data[j] \in Vals \cup {Junk}
  BY DEF Ring
<1>7. ASSUME NEW j \in 0 .. (c - 1)
      PROVE  g[j] \in Vals \cup {Junk}
  <2> HIDE DEF g, c, n
  <2>1. CASE start <= j /\ j < start + first
    <3>1. g[j] = s[j - start + 1] /\ j - start + 1 \in 1 .. n
      BY <1>1, <1>3, <1>4, <2>1
    <3>2. QED
      BY <1>5, <3>1
  <2>2. CASE ~ (start <= j /\ j < start + first) /\ j < n - first
    <3>1. g[j] = s[first + j + 1]
      BY <1>4, <2>2
    <3>2. first + j + 1 \in 1 .. n
      BY <1>1, <1>3, <2>2
    <3>3. QED
      BY <1>5, <3>1, <3>2
  <2>3. CASE ~ (start <= j /\ j < start + first) /\ ~ (j < n - first)
    BY <1>4, <1>6, <2>3
  <2>4. QED
    BY <2>1, <2>2, <2>3
<1>8. g \in [0 .. (c - 1) -> Vals \cup {Junk}]
  BY <1>7
<1> HIDE DEF g
<1>9. ASSUME NEW k \in 0 .. (n - 1)
      PROVE  g[(start + k) % c] = s[k + 1]
  <2> HIDE DEF c, n
  <2>1. (start + k) % c = IF start + k < c THEN start + k ELSE start + k - c
    <3>1. k \in 0 .. c
      BY <1>1
    <3>2. QED
      BY <1>1, <3>1, SlotIs
  <2>2. CASE k < first
    <3>1. (start + k) % c = start + k /\ start + k \in 0 .. (c - 1)
      BY <1>1, <1>3, <2>1, <2>2
    <3>2. start <= start + k /\ start + k < start + first /\ start + k - start + 1 = k + 1
      BY <1>1, <1>3, <2>2
    <3>3. g[start + k] = s[start + k - start + 1]
      BY <1>4, <3>1, <3>2
    <3>4. QED
      BY <3>1, <3>2, <3>3
  <2>3. CASE ~ (k < first)
    <3> DEFINE j == start + k - c
    <3>1. (start + k) % c = j /\ j \in 0 .. (c - 1) /\ j < start
          /\ j < n - first /\ first + j + 1 = k + 1
      BY <1>1, <1>3, <2>1, <2>3
    <3> HIDE DEF j
    <3>2. g[j] = s[first + j + 1]
      BY <1>1, <1>4, <3>1
    <3>3. QED
      BY <3>1, <3>2
  <2>4. QED
    BY <2>2, <2>3
<1>10. ASSUME NEW j \in 0 .. (c - 1),
              \A k \in 0 .. (n - 1) : j # (start + k) % c
       PROVE  g[j] = d.data[j]
  <2> HIDE DEF c, n
  <2>1. ~ (start <= j /\ j < start + first)
    <3>1. SUFFICES ASSUME start <= j, j < start + first
                   PROVE  FALSE
      OBVIOUS
    <3> DEFINE k == j - start
    <3>2. k \in 0 .. (n - 1) /\ k \in 0 .. c /\ start + k = j
      BY <1>1, <1>3, <3>1
    <3> HIDE DEF k
    <3>3. (start + k) % c = IF start + k < c THEN start + k ELSE start + k - c
      BY <1>1, <3>2, SlotIs
    <3>4. (start + k) % c = j
      BY <1>1, <3>2, <3>3
    <3>5. QED
      BY <1>10, <3>2, <3>4
  <2>2. ~ (j < n - first)
    <3>1. SUFFICES ASSUME j < n - first
                   PROVE  FALSE
      OBVIOUS
    <3> DEFINE k == first + j
    <3>2. k \in 0 .. (n - 1) /\ k \in 0 .. c /\ start + k = j + c
      BY <1>1, <1>3, <3>1
    <3> HIDE DEF k
    <3>3. (start + k) % c = IF start + k < c THEN start + k ELSE start + k - c
      BY <1>1, <3>2, SlotIs
    <3>4. (start + k) % c = j
      BY <1>1, <3>2, <3>3
    <3>5. QED
      BY <1>10, <3>2, <3>4
  <2>3. QED
    BY <1>4, <2>1, <2>2
<1>11. u.data = g
  BY <1>2
<1>12. QED
  BY <1>2, <1>8, <1>9, <1>10, <1>11 DEF Written

\* u is d with the elements of s behind, or in front of, its own.
Appended(d, s, u) ==
  /\ Ring(u) /\ u.count = d.count + Len(s)
  /\ \A i \in 0 .. (d.count - 1) : At(u, i) = At(d, i)
  /\ \A k \in 0 .. (Len(s) - 1) : At(u, d.count + k) = s[k + 1]

Prepended(d, s, u) ==
  /\ Ring(u) /\ u.count = d.count + Len(s)
  /\ \A k \in 0 .. (Len(s) - 1) : At(u, k) = s[k + 1]
  /\ \A i \in 0 .. (d.count - 1) : At(u, Len(s) + i) = At(d, i)

\* The slots behind the last element are written without touching an element.
LEMMA BackWritten ==
  ASSUME NEW d, Ring(d), NEW s \in Seq(Vals), s # <<>>, d.count + Len(s) <= d.cap,
         NEW data, Written(d, SlotIndex(d, d.count), s, data),
         NEW u, u = [data |-> u.data, head |-> u.head, count |-> u.count, cap |-> u.cap],
         u.data = data, u.head = d.head, u.count = d.count + Len(s), u.cap = d.cap
  PROVE  Appended(d, s, u) /\ u.cap = d.cap
<1> DEFINE c == d.cap
           h == d.head
           m == d.count
           n == Len(s)
           start == (h + m) % c
<1>1. /\ c \in Nat \ {0} /\ h \in 0 .. (c - 1) /\ m \in Nat
      /\ n \in Nat \ {0} /\ m + n <= c
  <2>1. Len(s) \in Nat \ {0}
    BY EmptySeq
  <2>2. QED
    BY <2>1, PowersAre DEF Ring
<1>2. u.data = data /\ u.head = h /\ u.cap = c /\ u.count = m + n
  OBVIOUS
<1>3. /\ data \in [0 .. (c - 1) -> Vals \cup {Junk}]
      /\ \A k \in 0 .. (n - 1) : data[(start + k) % c] = s[k + 1]
      /\ \A j \in 0 .. (c - 1) :
           (\A k \in 0 .. (n - 1) : j # (start + k) % c) => data[j] = d.data[j]
  BY DEF Written, SlotIndex
<1>4. \A i : At(d, i) = d.data[(h + i) % c] /\ At(u, i) = data[(h + i) % c]
  BY <1>2 DEF At, SlotIndex
<1>5. /\ \A i \in 0 .. (m - 1) : At(d, i) \in Vals
      /\ MinCap <= c /\ c \in Powers
  BY DEF Ring
<1>6. \A k \in 0 .. (n - 1) : s[k + 1] \in Vals
  <2>1. \A k \in 0 .. (n - 1) : k + 1 \in 1 .. Len(s)
    BY <1>1
  <2>2. QED
    BY <2>1, ElementOfSeq
<1>7. u = [data |-> u.data, head |-> u.head, count |-> u.count, cap |-> u.cap]
  OBVIOUS
<1>8. d.count = m /\ Len(s) = n
  OBVIOUS
<1> HIDE DEF c, h, m, n, start
<1>9. ASSUME NEW k \in 0 .. (n - 1)
      PROVE  (start + k) % c = (h + (m + k)) % c
  <2>1. k \in Nat /\ m + k < c
    BY <1>1
  <2>2. QED
    BY <1>1, <2>1, SlotFrom DEF start
<1>10. ASSUME NEW i \in 0 .. (m - 1)
      PROVE  At(u, i) = At(d, i)
  <2> DEFINE j == (h + i) % c
  <2>1. j \in 0 .. (c - 1) /\ i \in 0 .. (c - 1)
    <3>1. h + i \in Int /\ i \in 0 .. (c - 1)
      BY <1>1
    <3>2. j \in 0 .. (c - 1)
      BY <1>1, <3>1, DivMod
    <3>3. QED
      BY <3>1, <3>2
  <2>2. ASSUME NEW k \in 0 .. (n - 1)
        PROVE  j # (start + k) % c
    <3>1. m + k \in 0 .. (c - 1) /\ i # m + k
      BY <1>1
    <3>2. (h + i) % c # (h + (m + k)) % c
      BY <1>1, <2>1, <3>1, SlotsDiffer
    <3>3. QED
      BY <1>9, <3>2
  <2>3. data[j] = d.data[j]
    <3> HIDE DEF j
    <3>1. QED
      BY <1>3, <2>1, <2>2
  <2>4. QED
    BY <1>4, <2>3
<1>11. ASSUME NEW k \in 0 .. (n - 1)
      PROVE  At(u, m + k) = s[k + 1]
  BY <1>3, <1>4, <1>9
<1>12. \A i \in 0 .. (m + n - 1) : At(u, i) \in Vals
  <2>1. TAKE i \in 0 .. (m + n - 1)
  <2>2. CASE i < m
    <3>1. i \in 0 .. (m - 1)
      BY <1>1, <2>2
    <3>2. QED
      BY <1>5, <1>10, <3>1
  <2>3. CASE ~ (i < m)
    <3> DEFINE k == i - m
    <3>1. k \in 0 .. (n - 1) /\ m + k = i
      BY <1>1, <2>3
    <3> HIDE DEF k
    <3>2. QED
      BY <1>6, <1>11, <3>1
  <2>4. QED
    BY <2>2, <2>3
<1>13. Ring(u)
  <2>1. m + n \in 0 .. c
    BY <1>1
  <2>2. u.cap \in Powers /\ MinCap <= u.cap /\ u.head \in 0 .. (u.cap - 1)
        /\ u.count \in 0 .. u.cap /\ u.data \in [0 .. (u.cap - 1) -> Vals \cup {Junk}]
    BY <1>1, <1>2, <1>3, <1>5, <2>1
  <2>3. \A i \in 0 .. (u.count - 1) : At(u, i) \in Vals
    BY <1>1, <1>2, <1>12
  <2>4. QED
    BY <1>7, <2>2, <2>3 DEF Ring
<1>14. QED
  BY <1>2, <1>10, <1>11, <1>13, <1>8 DEF Appended, c

\* So are the slots in front of the first one.
LEMMA FrontWritten ==
  ASSUME NEW d, Ring(d), NEW s \in Seq(Vals), s # <<>>, d.count + Len(s) <= d.cap,
         NEW start, start = (d.head + d.cap - Len(s)) % d.cap,
         NEW data, Written(d, start, s, data),
         NEW u, u = [data |-> u.data, head |-> u.head, count |-> u.count, cap |-> u.cap],
         u.data = data, u.head = start, u.count = d.count + Len(s), u.cap = d.cap
  PROVE  Prepended(d, s, u) /\ u.cap = d.cap
<1> DEFINE c == d.cap
           h == d.head
           m == d.count
           n == Len(s)
<1>1. /\ c \in Nat \ {0} /\ h \in 0 .. (c - 1) /\ m \in Nat
      /\ n \in Nat \ {0} /\ m + n <= c
  <2>1. Len(s) \in Nat \ {0}
    BY EmptySeq
  <2>2. QED
    BY <2>1, PowersAre DEF Ring
<1>2. u.data = data /\ u.head = start /\ u.cap = c /\ u.count = m + n
  OBVIOUS
<1>3. /\ data \in [0 .. (c - 1) -> Vals \cup {Junk}]
      /\ \A k \in 0 .. (n - 1) : data[(start + k) % c] = s[k + 1]
      /\ \A j \in 0 .. (c - 1) :
           (\A k \in 0 .. (n - 1) : j # (start + k) % c) => data[j] = d.data[j]
  BY DEF Written
<1>4. \A i : At(d, i) = d.data[(h + i) % c] /\ At(u, i) = data[(start + i) % c]
  BY <1>2 DEF At, SlotIndex
<1>5. /\ \A i \in 0 .. (m - 1) : At(d, i) \in Vals
      /\ MinCap <= c /\ c \in Powers
  BY DEF Ring
<1>6. \A k \in 0 .. (n - 1) : s[k + 1] \in Vals
  <2>1. \A k \in 0 .. (n - 1) : k + 1 \in 1 .. Len(s)
    BY <1>1
  <2>2. QED
    BY <2>1, ElementOfSeq
<1>7. u = [data |-> u.data, head |-> u.head, count |-> u.count, cap |-> u.cap]
  OBVIOUS
<1>8. d.count = m /\ Len(s) = n
  OBVIOUS
<1>9. start = (h + c - n) % c
  OBVIOUS
<1> HIDE DEF c, h, m, n
<1>10. start \in 0 .. (c - 1)
  <2>1. h + c - n \in Int
    BY <1>1
  <2>2. QED
    BY <1>1, <1>9, <2>1, DivMod
<1>11. ASSUME NEW i \in 0 .. (m - 1)
      PROVE  At(u, n + i) = At(d, i)
  <2>1. i \in 0 .. (c - 1) /\ n \in 1 .. c /\ n + i \in n .. (c - 1) /\ n + i - n = i
    BY <1>1
  <2>2. (start + (n + i)) % c = (h + i) % c
    <3> DEFINE e == n + i
    <3>1. e \in n .. (c - 1) /\ e - n = i
      BY <2>1
    <3> HIDE DEF e
    <3>2. (((h + c - n) % c) + e) % c = (h + (e - n)) % c
      BY <1>1, <2>1, <3>1, SlotBack
    <3>3. (start + e) % c = (h + i) % c
      BY <1>9, <3>1, <3>2
    <3>4. QED
      BY <3>3 DEF e
  <2> DEFINE j == (h + i) % c
  <2>3. j \in 0 .. (c - 1)
    <3>1. h + i \in Int
      BY <1>1
    <3>2. QED
      BY <1>1, <3>1, DivMod
  <2>4. ASSUME NEW k \in 0 .. (n - 1)
        PROVE  j # (start + k) % c
    <3>1. k \in 0 .. (c - 1) /\ n + i \in 0 .. (c - 1) /\ n + i # k
      BY <1>1
    <3>2. (start + (n + i)) % c # (start + k) % c
      BY <1>1, <1>10, <3>1, SlotsDiffer
    <3>3. QED
      BY <2>2, <3>2
  <2>5. data[j] = d.data[j]
    <3> HIDE DEF j
    <3>1. QED
      BY <1>3, <2>3, <2>4
  <2>6. QED
    BY <1>4, <2>2, <2>5
<1>12. ASSUME NEW k \in 0 .. (n - 1)
      PROVE  At(u, k) = s[k + 1]
  BY <1>3, <1>4
<1>13. \A i \in 0 .. (m + n - 1) : At(u, i) \in Vals
  <2>1. TAKE i \in 0 .. (m + n - 1)
  <2>2. CASE i < n
    <3>1. i \in 0 .. (n - 1)
      BY <1>1, <2>2
    <3>2. QED
      BY <1>6, <1>12, <3>1
  <2>3. CASE ~ (i < n)
    <3> DEFINE k == i - n
    <3>1. k \in 0 .. (m - 1) /\ n + k = i
      BY <1>1, <2>3
    <3> HIDE DEF k
    <3>2. QED
      BY <1>5, <1>11, <3>1
  <2>4. QED
    BY <2>2, <2>3
<1>14. Ring(u)
  <2>1. m + n \in 0 .. c
    BY <1>1
  <2>2. u.cap \in Powers /\ MinCap <= u.cap /\ u.head \in 0 .. (u.cap - 1)
        /\ u.count \in 0 .. u.cap /\ u.data \in [0 .. (u.cap - 1) -> Vals \cup {Junk}]
    BY <1>1, <1>2, <1>3, <1>5, <1>10, <2>1
  <2>3. \A i \in 0 .. (u.count - 1) : At(u, i) \in Vals
    BY <1>1, <1>2, <1>13
  <2>4. QED
    BY <1>7, <2>2, <2>3 DEF Ring
<1>15. QED
  BY <1>2, <1>11, <1>12, <1>14, <1>8 DEF Prepended, c

\* One slot is an array of one element.
LEMMA StoreWrites ==
  ASSUME NEW d, Ring(d), NEW h \in 0 .. (d.cap - 1), NEW v \in Vals,
         NEW data, data = [d.data EXCEPT ![h] = v]
  PROVE  Written(d, h, <<v>>, data)
<1>1. d.cap \in Nat \ {0} /\ d.data \in [0 .. (d.cap - 1) -> Vals \cup {Junk}]
  BY PowersAre DEF Ring
<1>2. data \in [0 .. (d.cap - 1) -> Vals \cup {Junk}] /\ data[h] = v
      /\ \A j \in 0 .. (d.cap - 1) : j # h => data[j] = d.data[j]
  BY <1>1
<1>3. (h + 0) % d.cap = h
  <2>1. h \in 0 .. (2 * d.cap - 1) /\ h < d.cap /\ h + 0 = h
    BY <1>1
  <2>2. QED
    BY <1>1, <2>1, ModOnce
<1>4. Len(<<v>>) = 1 /\ <<v>>[1] = v
  OBVIOUS
<1>5. \A k \in 0 .. (Len(<<v>>) - 1) : k = 0
  BY <1>4
<1>6. \A k \in 0 .. (Len(<<v>>) - 1) : data[(h + k) % d.cap] = <<v>>[k + 1]
  BY <1>2, <1>3, <1>4, <1>5
<1>7. \A j \in 0 .. (d.cap - 1) :
        (\A k \in 0 .. (Len(<<v>>) - 1) : j # (h + k) % d.cap) => data[j] = d.data[j]
  <2>1. 0 \in 0 .. (Len(<<v>>) - 1)
    BY <1>4
  <2>2. QED
    BY <1>2, <1>3, <2>1
<1>8. QED
  BY <1>2, <1>6, <1>7 DEF Written

-----------------------------------------------------------------------------
\* What was appended or prepended to a copy of the elements was to the elements.
LEMMA AppendedTo ==
  ASSUME NEW d, NEW r, NEW s, NEW u, d.count \in Nat, SameItems(d, r)
  PROVE  /\ Appended(r, s, u) => Appended(d, s, u)
         /\ Prepended(r, s, u) => Prepended(d, s, u)
BY DEF SameItems, Appended, Prepended

\* What the two single pushes write.
StoredBack(r, v)     == [r EXCEPT !.data[SlotIndex(r, r.count)] = v, !.count = @ + 1]
StoredFront(r, h, v) == [r EXCEPT !.head = h, !.count = @ + 1, !.data[h] = v]

\* rki_deque_push_back
LEMMA PushBackIs ==
  ASSUME NEW d, RingOrZero(d), Possible(d.count + 1), NEW v \in Vals,
         NEW r, r = Grown(d), NEW u, u = StoredBack(r, v)
  PROVE  /\ Appended(d, <<v>>, u)
         /\ u.cap > d.cap => u.count > d.cap
<1>1. d.cap \in Nat /\ d.count \in Nat
  BY RingShape
<1>2. Ring(r) /\ SameItems(d, r) /\ d.count < r.cap /\ (r.cap > d.cap => d.count = d.cap)
  BY GrownIs
<1>3. r.count = d.count
  BY <1>2 DEF SameItems
<1>4. r = [data |-> r.data, head |-> r.head, count |-> r.count, cap |-> r.cap]
      /\ r.cap \in Nat \ {0} /\ r.head \in 0 .. (r.cap - 1)
  BY <1>2, PowersAre DEF Ring
<1> DEFINE h == SlotIndex(r, r.count)
           data == [r.data EXCEPT ![h] = v]
<1>5. h \in 0 .. (r.cap - 1)
  <2>1. r.head + r.count \in Int
    BY <1>1, <1>3, <1>4
  <2>2. QED
    BY <1>4, <2>1, DivMod DEF SlotIndex
<1>6. u = [data |-> data, head |-> r.head, count |-> r.count + 1, cap |-> r.cap]
  <2>1. u = [r EXCEPT !.data[h] = v, !.count = r.count + 1]
    BY DEF StoredBack
  <2> HIDE DEF h
  <2>2. u = [r EXCEPT !.data = data, !.count = r.count + 1]
    BY <1>4, <2>1
  <2> HIDE DEF data
  <2>3. QED
    BY <1>4, <2>2
<1> HIDE DEF h
<1>7. Written(r, h, <<v>>, data)
  BY <1>2, <1>5, StoreWrites
<1> HIDE DEF data
<1>8. <<v>> \in Seq(Vals) /\ Len(<<v>>) = 1 /\ <<v>> # <<>>
  OBVIOUS
<1>9. /\ u = [data |-> u.data, head |-> u.head, count |-> u.count, cap |-> u.cap]
      /\ u.data = data /\ u.head = r.head /\ u.count = r.count + Len(<<v>>) /\ u.cap = r.cap
  BY <1>6, <1>8
<1>10. r.count + Len(<<v>>) <= r.cap
  BY <1>1, <1>2, <1>3, <1>4, <1>8
<1>11. Written(r, SlotIndex(r, r.count), <<v>>, data)
  BY <1>7 DEF h
<1> DEFINE s == <<v>>
<1> HIDE DEF s
<1>12. Appended(r, s, u)
  <2>1. s \in Seq(Vals) /\ s # <<>> /\ r.count + Len(s) <= r.cap
        /\ Written(r, SlotIndex(r, r.count), s, data) /\ u.count = r.count + Len(s)
    BY <1>8, <1>9, <1>10, <1>11 DEF s
  <2>2. QED
    BY <1>2, <1>9, <2>1, BackWritten
<1>13. Appended(d, s, u)
  BY <1>1, <1>2, <1>12, AppendedTo
<1>14. u.cap > d.cap => u.count > d.cap
  BY <1>1, <1>2, <1>3, <1>8, <1>9
<1>15. QED
  BY <1>13, <1>14 DEF s

\* rki_deque_push_front
LEMMA PushFrontIs ==
  ASSUME NEW d, RingOrZero(d), Possible(d.count + 1), NEW v \in Vals,
         NEW r, r = Grown(d), NEW h, h = (r.head + r.cap - 1) % r.cap,
         NEW u, u = StoredFront(r, h, v)
  PROVE  /\ Prepended(d, <<v>>, u)
         /\ u.cap > d.cap => u.count > d.cap
<1>1. d.cap \in Nat /\ d.count \in Nat
  BY RingShape
<1>2. Ring(r) /\ SameItems(d, r) /\ d.count < r.cap /\ (r.cap > d.cap => d.count = d.cap)
  BY GrownIs
<1>3. r.count = d.count
  BY <1>2 DEF SameItems
<1>4. r = [data |-> r.data, head |-> r.head, count |-> r.count, cap |-> r.cap]
      /\ r.cap \in Nat \ {0} /\ r.head \in 0 .. (r.cap - 1)
  BY <1>2, PowersAre DEF Ring
<1> DEFINE data == [r.data EXCEPT ![h] = v]
<1>5. h \in 0 .. (r.cap - 1)
  <2>1. r.head + r.cap - 1 \in Int
    BY <1>4
  <2>2. QED
    BY <1>4, <2>1, DivMod
<1>6. u = [data |-> data, head |-> h, count |-> r.count + 1, cap |-> r.cap]
  <2>1. u = [r EXCEPT !.data = data, !.head = h, !.count = r.count + 1]
    BY <1>4 DEF StoredFront
  <2> HIDE DEF data
  <2>2. QED
    BY <1>4, <2>1
<1>7. Written(r, h, <<v>>, data)
  BY <1>2, <1>5, StoreWrites
<1> HIDE DEF data
<1>8. <<v>> \in Seq(Vals) /\ Len(<<v>>) = 1 /\ <<v>> # <<>>
  OBVIOUS
<1>9. /\ u = [data |-> u.data, head |-> u.head, count |-> u.count, cap |-> u.cap]
      /\ u.data = data /\ u.head = h /\ u.count = r.count + 1 /\ u.cap = r.cap
  BY <1>6
<1>10. r.count + Len(<<v>>) <= r.cap
  BY <1>1, <1>2, <1>3, <1>4, <1>8
<1> DEFINE s == <<v>>
<1> HIDE DEF s
<1>11. Prepended(r, s, u)
  <2>1. s \in Seq(Vals) /\ s # <<>> /\ r.count + Len(s) <= r.cap
        /\ Written(r, h, s, data) /\ u.count = r.count + Len(s)
        /\ h = (r.head + r.cap - Len(s)) % r.cap
    BY <1>7, <1>8, <1>9, <1>10 DEF s
  <2>2. Ring(r)
    BY <1>2
  <2>3. /\ u = [data |-> u.data, head |-> u.head, count |-> u.count, cap |-> u.cap]
        /\ u.data = data /\ u.head = h /\ u.cap = r.cap
    BY <1>9
  <2>4. QED
    BY <2>1, <2>2, <2>3, FrontWritten, SMTT(30)
<1>12. Prepended(d, s, u)
  BY <1>1, <1>2, <1>11, AppendedTo
<1>13. u.cap > d.cap => u.count > d.cap
  BY <1>1, <1>2, <1>3, <1>9
<1>14. QED
  BY <1>12, <1>13 DEF s

\* rki_deque_push_back_n
LEMMA PushedBackIs ==
  ASSUME NEW d, RingOrZero(d), NEW s \in Seq(Vals), s # <<>>,
         Possible(d.count + Len(s)), NEW u, u = PushedBack(d, s)
  PROVE  /\ Appended(d, s, u)
         /\ u.cap > d.cap => u.count > d.cap
<1>1. d.cap \in Nat /\ d.count \in Nat /\ Len(s) \in Nat \ {0}
  BY RingShape, EmptySeq
<1> DEFINE r == Reserved(d, d.count + Len(s))
           h == SlotIndex(r, r.count)
           w == CopyIn(r, h, s)
<1>2. /\ Ring(r) /\ SameItems(d, r) /\ d.count + Len(s) <= r.cap
      /\ r.cap > d.cap => d.count + Len(s) > d.cap
  <2>1. d.count + Len(s) \in Nat /\ d.count + Len(s) >= 1
    BY <1>1
  <2>2. QED
    BY <2>1, ReservedIs
<1>3. u = [w EXCEPT !.count = @ + Len(s)]
  BY DEF PushedBack
<1> HIDE DEF r
<1>4. r.count = d.count
  BY <1>2 DEF SameItems
<1>5. r.cap \in Nat \ {0} /\ r.head \in 0 .. (r.cap - 1)
  BY <1>2, PowersAre DEF Ring
<1>6. h \in 0 .. (r.cap - 1)
  <2>1. r.head + r.count \in Int
    BY <1>1, <1>4, <1>5
  <2>2. QED
    BY <1>5, <2>1, DivMod DEF SlotIndex
<1>7. Len(s) <= r.cap
  BY <1>1, <1>2, <1>5
<1>8. w = [data |-> w.data, head |-> r.head, count |-> r.count, cap |-> r.cap]
      /\ Written(r, h, s, w.data)
  <2> HIDE DEF h
  <2>1. QED
    BY <1>2, <1>6, <1>7, CopyInIs
<1>9. Written(r, SlotIndex(r, r.count), s, w.data)
  BY <1>8
<1> HIDE DEF h, w
<1>10. u = [data |-> w.data, head |-> r.head, count |-> r.count + Len(s), cap |-> r.cap]
  BY <1>3, <1>8
<1>11. /\ u = [data |-> u.data, head |-> u.head, count |-> u.count, cap |-> u.cap]
       /\ u.data = w.data /\ u.head = r.head /\ u.count = r.count + Len(s) /\ u.cap = r.cap
  BY <1>10
<1>12. Appended(r, s, u)
  <2>1. r.count + Len(s) <= r.cap
    BY <1>2, <1>4
  <2> DEFINE data == w.data
  <2>2. Written(r, SlotIndex(r, r.count), s, data) /\ u.data = data
    BY <1>9, <1>11
  <2> HIDE DEF data
  <2>3. QED
    BY <1>2, <1>11, <2>1, <2>2, BackWritten
<1>13. Appended(d, s, u)
  BY <1>1, <1>2, <1>12, AppendedTo
<1>14. u.cap > d.cap => u.count > d.cap
  BY <1>2, <1>4, <1>11
<1>15. QED
  BY <1>13, <1>14

\* rki_deque_push_front_n
LEMMA PushedFrontIs ==
  ASSUME NEW d, RingOrZero(d), NEW s \in Seq(Vals), s # <<>>,
         Possible(d.count + Len(s)), NEW u, u = PushedFront(d, s)
  PROVE  /\ Prepended(d, s, u)
         /\ u.cap > d.cap => u.count > d.cap
<1>1. d.cap \in Nat /\ d.count \in Nat /\ Len(s) \in Nat \ {0}
  BY RingShape, EmptySeq
<1> DEFINE r == Reserved(d, d.count + Len(s))
           h == (r.head + r.cap - Len(s)) % r.cap
           w == CopyIn(r, h, s)
<1>2. /\ Ring(r) /\ SameItems(d, r) /\ d.count + Len(s) <= r.cap
      /\ r.cap > d.cap => d.count + Len(s) > d.cap
  <2>1. d.count + Len(s) \in Nat /\ d.count + Len(s) >= 1
    BY <1>1
  <2>2. QED
    BY <2>1, ReservedIs
<1>3. u = [w EXCEPT !.head = h, !.count = @ + Len(s)]
  BY DEF PushedFront
<1> HIDE DEF r
<1>4. r.count = d.count
  BY <1>2 DEF SameItems
<1>5. r.cap \in Nat \ {0} /\ r.head \in 0 .. (r.cap - 1)
  BY <1>2, PowersAre DEF Ring
<1>6. h \in 0 .. (r.cap - 1)
  <2>1. r.head + r.cap - Len(s) \in Int
    BY <1>1, <1>5
  <2>2. QED
    BY <1>5, <2>1, DivMod
<1>7. Len(s) <= r.cap
  BY <1>1, <1>2, <1>5
<1>8. h = (r.head + r.cap - Len(s)) % r.cap
  OBVIOUS
<1> HIDE DEF h
<1>9. w = [data |-> w.data, head |-> r.head, count |-> r.count, cap |-> r.cap]
      /\ Written(r, h, s, w.data)
  BY <1>2, <1>6, <1>7, CopyInIs
<1> HIDE DEF w
<1>10. u = [data |-> w.data, head |-> h, count |-> r.count + Len(s), cap |-> r.cap]
  <2>1. w = [data |-> w.data, head |-> r.head, count |-> r.count, cap |-> r.cap]
    BY <1>9
  <2>2. w.count = r.count
    BY <2>1
  <2> DEFINE data == w.data
             n == r.count + Len(s)
  <2>3. u = [w EXCEPT !.head = h, !.count = n]
    BY <1>3, <2>2
  <2>4. w = [data |-> data, head |-> r.head, count |-> r.count, cap |-> r.cap]
    BY <2>1
  <2> HIDE DEF data, n
  <2>5. u = [data |-> data, head |-> h, count |-> n, cap |-> r.cap]
    BY <2>3, <2>4
  <2>6. QED
    BY <2>5 DEF data, n
<1>11. /\ u = [data |-> u.data, head |-> u.head, count |-> u.count, cap |-> u.cap]
       /\ u.data = w.data /\ u.head = h /\ u.count = r.count + Len(s) /\ u.cap = r.cap
  BY <1>10
<1>12. Prepended(r, s, u)
  <2>1. r.count + Len(s) <= r.cap
    BY <1>2, <1>4
  <2> DEFINE data == w.data
  <2>2. Written(r, h, s, data) /\ u.data = data
    BY <1>9, <1>11
  <2> HIDE DEF data
  <2>3. QED
    BY <1>2, <1>8, <1>11, <2>1, <2>2, FrontWritten
<1>13. Prepended(d, s, u)
  BY <1>1, <1>2, <1>12, AppendedTo
<1>14. u.cap > d.cap => u.count > d.cap
  BY <1>2, <1>4, <1>11
<1>15. QED
  BY <1>13, <1>14

-----------------------------------------------------------------------------
\* Contents as a function of the ring and of deque_erase_if's loop variables.
Run(d, lo, hi) == [i \in 1 .. (hi - lo) |-> At(d, lo + i - 1)]

View(d, r, w) == Run(d, 0, w) \o Run(d, r, d.count)

(* A run of elements of the ring, as a sequence, element by element.          *)
LEMMA RunIs ==
  ASSUME NEW d, RingOrZero(d), NEW lo \in Nat, NEW hi \in Nat, lo <= hi, hi <= d.count
  PROVE  /\ Run(d, lo, hi) \in Seq(Vals) /\ Len(Run(d, lo, hi)) = hi - lo
         /\ \A i \in 1 .. (hi - lo) : Run(d, lo, hi)[i] = At(d, lo + i - 1)
<1> DEFINE n == hi - lo
           f == Run(d, lo, hi)
<1>1. n \in Nat /\ d.count \in Nat
  BY RingShape
<1>2. DOMAIN f = 1 .. n /\ \A i \in 1 .. n : f[i] = At(d, lo + i - 1)
  BY DEF Run
<1>3. \A i \in 1 .. n : At(d, lo + i - 1) \in Vals
  <2>1. \A i \in 1 .. n : lo + i - 1 \in 0 .. (d.count - 1)
    BY <1>1
  <2>2. QED
    BY <2>1, RingShape
<1>4. f \in [1 .. n -> Vals]
  <2>1. f = [i \in 1 .. n |-> At(d, lo + i - 1)]
    BY DEF Run
  <2> HIDE DEF n, f
  <2>2. QED
    BY <1>3, <2>1
<1>5. f \in Seq(Vals) /\ Len(f) = n
  <2> HIDE DEF n, f
  <2>1. f \in Seq(Vals)
    BY <1>1, <1>4
  <2>2. Len(f) \in Nat /\ DOMAIN f = 1 .. Len(f)
    BY <2>1, LenProperties
  <2>3. QED
    BY <1>1, <1>2, <2>1, <2>2
<1>6. QED
  BY <1>2, <1>5

(* The sequence a ring stands for while an erasure has written w elements and *)
(* read r.                                                                    *)
LEMMA ViewIs ==
  ASSUME NEW d, RingOrZero(d), NEW r \in 0 .. d.count, NEW w \in 0 .. r
  PROVE  /\ View(d, r, w) \in Seq(Vals) /\ Len(View(d, r, w)) = w + (d.count - r)
         /\ \A i \in 1 .. w : View(d, r, w)[i] = At(d, i - 1)
         /\ \A i \in 1 .. (d.count - r) : View(d, r, w)[w + i] = At(d, r + i - 1)
<1> DEFINE a == Run(d, 0, w)
           b == Run(d, r, d.count)
           n == d.count - r
<1>1. d.count \in Nat /\ r \in Nat /\ w \in Nat /\ n \in Nat /\ w <= r /\ r <= d.count
  BY RingShape
<1>2. a \in Seq(Vals) /\ Len(a) = w /\ \A i \in 1 .. w : a[i] = At(d, i - 1)
  <2>1. 0 \in Nat /\ w <= d.count /\ 0 <= w
    BY <1>1
  <2>2. Run(d, 0, w) \in Seq(Vals) /\ Len(Run(d, 0, w)) = w - 0
        /\ \A i \in 1 .. (w - 0) : Run(d, 0, w)[i] = At(d, 0 + i - 1)
    BY <1>1, <2>1, RunIs, ZenonT(30)
  <2>3. w - 0 = w /\ \A i \in 1 .. w : 0 + i - 1 = i - 1
    BY <1>1
  <2>4. QED
    BY <2>2, <2>3
<1>3. b \in Seq(Vals) /\ Len(b) = n /\ \A i \in 1 .. n : b[i] = At(d, r + i - 1)
  <2> DEFINE hi == d.count
  <2>1. hi \in Nat /\ r \in Nat /\ r <= hi /\ hi <= d.count
    BY <1>1
  <2> HIDE DEF hi
  <2>2. Run(d, r, hi) \in Seq(Vals) /\ Len(Run(d, r, hi)) = hi - r
        /\ \A i \in 1 .. (hi - r) : Run(d, r, hi)[i] = At(d, r + i - 1)
    BY <2>1, RunIs
  <2>3. QED
    BY <2>2 DEF hi
<1>4. View(d, r, w) = a \o b
  BY DEF View
<1>5. n = d.count - r
  OBVIOUS
<1> HIDE DEF a, b, n
<1>6. /\ a \o b \in Seq(Vals) /\ Len(a \o b) = w + n
      /\ \A i \in 1 .. (w + n) : (a \o b)[i] = IF i <= w THEN a[i] ELSE b[i - w]
  BY <1>2, <1>3, ConcatProperties
<1>7. ASSUME NEW i \in 1 .. w
      PROVE  (a \o b)[i] = At(d, i - 1)
  <2>1. i \in 1 .. (w + n) /\ i <= w
    BY <1>1
  <2>2. QED
    BY <1>2, <1>6, <2>1
<1>8. ASSUME NEW i \in 1 .. n
      PROVE  (a \o b)[w + i] = At(d, r + i - 1)
  <2> DEFINE j == w + i
  <2>1. j \in 1 .. (w + n) /\ ~ (j <= w) /\ j - w = i
    BY <1>1
  <2> HIDE DEF j
  <2>2. (a \o b)[j] = b[j - w]
    BY <1>6, <2>1
  <2>3. QED
    BY <1>3, <2>1, <2>2 DEF j
<1>9. QED
  BY <1>4, <1>5, <1>6, <1>7, <1>8

\* Outside of deque_erase_if the client sees every element.
LEMMA WholeIs ==
  ASSUME NEW d, RingOrZero(d)
  PROVE  /\ View(d, 0, 0) \in Seq(Vals) /\ Len(View(d, 0, 0)) = d.count
         /\ \A i \in 1 .. d.count : View(d, 0, 0)[i] = At(d, i - 1)
<1>1. d.count \in Nat /\ 0 \in 0 .. d.count /\ 0 \in 0 .. 0
  BY RingShape
<1>2. /\ View(d, 0, 0) \in Seq(Vals) /\ Len(View(d, 0, 0)) = 0 + (d.count - 0)
      /\ \A i \in 1 .. (d.count - 0) : View(d, 0, 0)[0 + i] = At(d, 0 + i - 1)
  BY <1>1, ViewIs
<1>3. 0 + (d.count - 0) = d.count /\ d.count - 0 = d.count
      /\ \A i \in 1 .. d.count : 0 + i = i /\ 0 + i - 1 = i - 1
  BY <1>1
<1>4. QED
  BY <1>2, <1>3

(* Two rings with the same elements stand for the same sequence.              *)
LEMMA SameView ==
  ASSUME NEW d, NEW u, RingOrZero(d), RingOrZero(u), SameItems(d, u)
  PROVE  View(u, 0, 0) = View(d, 0, 0)
<1> DEFINE a == View(d, 0, 0)
           b == View(u, 0, 0)
<1>1. a \in Seq(Vals) /\ Len(a) = d.count /\ \A i \in 1 .. d.count : a[i] = At(d, i - 1)
  BY WholeIs
<1>2. b \in Seq(Vals) /\ Len(b) = u.count /\ \A i \in 1 .. u.count : b[i] = At(u, i - 1)
  BY WholeIs
<1>3. d.count \in Nat /\ u.count = d.count
      /\ \A i \in 0 .. (d.count - 1) : At(u, i) = At(d, i)
  BY RingShape DEF SameItems
<1> HIDE DEF a, b
<1>4. \A i \in 1 .. Len(b) : b[i] = a[i]
  <2>1. \A i \in 1 .. d.count : i - 1 \in 0 .. (d.count - 1)
    BY <1>3
  <2>2. QED
    BY <1>1, <1>2, <1>3, <2>1
<1>5. a = b
  BY <1>1, <1>2, <1>3, <1>4, SeqEqual
<1>6. QED
  BY <1>5 DEF a, b

(* Elements added behind the last one are appended to the sequence.           *)
LEMMA AppendedView ==
  ASSUME NEW d, RingOrZero(d), NEW s \in Seq(Vals), NEW u, Appended(d, s, u)
  PROVE  View(u, 0, 0) = View(d, 0, 0) \o s
<1> DEFINE a == View(d, 0, 0)
           b == View(u, 0, 0)
           m == d.count
           n == Len(s)
<1>1. a \in Seq(Vals) /\ Len(a) = m /\ \A i \in 1 .. m : a[i] = At(d, i - 1)
  BY WholeIs
<1>2. b \in Seq(Vals) /\ Len(b) = u.count /\ \A i \in 1 .. u.count : b[i] = At(u, i - 1)
  BY WholeIs DEF Appended, RingOrZero
<1>3. /\ m \in Nat /\ n \in Nat /\ u.count = m + n
      /\ \A i \in 0 .. (m - 1) : At(u, i) = At(d, i)
      /\ \A k \in 0 .. (n - 1) : At(u, m + k) = s[k + 1]
  <2>1. m \in Nat /\ n \in Nat
    BY RingShape
  <2>2. QED
    BY <2>1 DEF Appended
<1>4. /\ a \o s \in Seq(Vals) /\ Len(a \o s) = m + n
      /\ \A i \in 1 .. (m + n) : (a \o s)[i] = IF i <= m THEN a[i] ELSE s[i - m]
  <2> HIDE DEF a, m
  <2>1. QED
    BY <1>1, ConcatProperties
<1> HIDE DEF a, b, m, n
<1>5. ASSUME NEW i \in 1 .. (m + n)
      PROVE  b[i] = (a \o s)[i]
  <2>1. b[i] = At(u, i - 1)
    BY <1>2, <1>3
  <2>2. CASE i <= m
    <3>1. i \in 1 .. m /\ i - 1 \in 0 .. (m - 1)
      BY <1>3, <2>2
    <3>2. QED
      BY <1>1, <1>3, <1>4, <2>1, <2>2, <3>1
  <2>3. CASE ~ (i <= m)
    <3> DEFINE k == i - m - 1
    <3>1. k \in 0 .. (n - 1) /\ m + k = i - 1 /\ k + 1 = i - m
      BY <1>3, <2>3
    <3> HIDE DEF k
    <3>2. At(u, m + k) = s[k + 1]
      BY <1>3, <3>1
    <3>3. (a \o s)[i] = s[i - m]
      BY <1>4, <2>3
    <3>4. QED
      BY <2>1, <3>1, <3>2, <3>3
  <2>4. QED
    BY <2>2, <2>3
<1>6. b = a \o s
  <2> DEFINE t == a \o s
  <2>1. t \in Seq(Vals) /\ Len(b) = Len(t) /\ \A i \in 1 .. Len(b) : b[i] = t[i]
    BY <1>2, <1>3, <1>4, <1>5
  <2> HIDE DEF t
  <2>2. b = t
    BY <1>2, <2>1, SeqEqual
  <2>3. QED
    BY <2>2 DEF t
<1>7. QED
  BY <1>6 DEF a, b

(* Elements added before the first one are put in front of the sequence.      *)
LEMMA PrependedView ==
  ASSUME NEW d, RingOrZero(d), NEW s \in Seq(Vals), NEW u, Prepended(d, s, u)
  PROVE  View(u, 0, 0) = s \o View(d, 0, 0)
<1> DEFINE a == View(d, 0, 0)
           b == View(u, 0, 0)
           m == d.count
           n == Len(s)
<1>1. a \in Seq(Vals) /\ Len(a) = m /\ \A i \in 1 .. m : a[i] = At(d, i - 1)
  BY WholeIs
<1>2. b \in Seq(Vals) /\ Len(b) = u.count /\ \A i \in 1 .. u.count : b[i] = At(u, i - 1)
  BY WholeIs DEF Prepended, RingOrZero
<1>3. /\ m \in Nat /\ n \in Nat /\ u.count = m + n
      /\ \A k \in 0 .. (n - 1) : At(u, k) = s[k + 1]
      /\ \A i \in 0 .. (m - 1) : At(u, n + i) = At(d, i)
  <2>1. m \in Nat /\ n \in Nat
    BY RingShape
  <2>2. QED
    BY <2>1 DEF Prepended
<1>4. /\ s \o a \in Seq(Vals) /\ Len(s \o a) = n + m
      /\ \A i \in 1 .. (n + m) : (s \o a)[i] = IF i <= n THEN s[i] ELSE a[i - n]
  <2> HIDE DEF a, m
  <2>1. QED
    BY <1>1, ConcatProperties
<1> HIDE DEF a, b, m, n
<1>5. ASSUME NEW i \in 1 .. (n + m)
      PROVE  b[i] = (s \o a)[i]
  <2>1. b[i] = At(u, i - 1)
    BY <1>2, <1>3
  <2>2. CASE i <= n
    <3> DEFINE k == i - 1
    <3>1. k \in 0 .. (n - 1) /\ k + 1 = i
      BY <1>3, <2>2
    <3> HIDE DEF k
    <3>2. At(u, k) = s[k + 1]
      BY <1>3, <3>1
    <3>3. (s \o a)[i] = s[i]
      BY <1>4, <2>2
    <3>4. QED
      BY <2>1, <3>1, <3>2, <3>3 DEF k
  <2>3. CASE ~ (i <= n)
    <3> DEFINE k == i - n - 1
    <3>1. k \in 0 .. (m - 1) /\ n + k = i - 1 /\ k = i - n - 1 /\ i - n \in 1 .. m
      BY <1>3, <2>3
    <3> HIDE DEF k
    <3>2. At(u, n + k) = At(d, k)
      BY <1>3, <3>1
    <3>3. (s \o a)[i] = a[i - n] /\ a[i - n] = At(d, i - n - 1)
      BY <1>1, <1>4, <2>3, <3>1
    <3>4. QED
      BY <2>1, <3>1, <3>2, <3>3
  <2>4. QED
    BY <2>2, <2>3
<1>6. b = s \o a
  <2> DEFINE t == s \o a
  <2>1. t \in Seq(Vals) /\ Len(b) = Len(t) /\ \A i \in 1 .. Len(b) : b[i] = t[i]
    <3>1. Len(b) = n + m
      BY <1>2, <1>3
    <3>2. QED
      BY <1>4, <1>5, <3>1
  <2> HIDE DEF t
  <2>2. b = t
    BY <1>2, <2>1, SeqEqual
  <2>3. QED
    BY <2>2 DEF t
<1>7. QED
  BY <1>6 DEF a, b

-----------------------------------------------------------------------------
\* u is d without its first, or its last, element.
Beheaded(d, u) ==
  /\ Ring(u) /\ u.cap = d.cap /\ u.data = d.data /\ u.count = d.count - 1
  /\ \A i \in 0 .. (d.count - 2) : At(u, i) = At(d, i + 1)

Curtailed(d, u) ==
  /\ Ring(u) /\ u.cap = d.cap /\ u.data = d.data /\ u.count = d.count - 1
  /\ \A i \in 0 .. (d.count - 2) : At(u, i) = At(d, i)

\* rki_deque_pop_front moves the head one slot on, or to 0 with the last element.
LEMMA PopFrontIs ==
  ASSUME NEW d, RingOrZero(d), d.count > 0,
         NEW u, u = Popped(d, (d.head + 1) % d.cap)
  PROVE  Beheaded(d, u)
<1> DEFINE c == d.cap
           m == d.count
           h == (d.head + 1) % d.cap
           g == IF m = 1 THEN 0 ELSE h
<1>1. d.count \in Nat /\ Ring(d)
  BY RingShape
<1>2. c \in Nat \ {0} /\ d.head \in 0 .. (c - 1) /\ m \in 1 .. c
  BY <1>1, PowersAre DEF Ring
<1>3. h \in 0 .. (c - 1)
  <2>1. d.head + 1 \in Int
    BY <1>2
  <2>2. QED
    BY <1>2, <2>1, DivMod
<1>4. g \in 0 .. (c - 1)
  <2> HIDE DEF h
  <2>1. QED
    BY <1>2, <1>3
<1>5. u = [data |-> d.data, head |-> g, count |-> m - 1, cap |-> c]
  <2>1. u = [d EXCEPT !.count = m - 1, !.head = g]
    BY DEF Popped
  <2> HIDE DEF g
  <2>2. d = [data |-> d.data, head |-> d.head, count |-> d.count, cap |-> d.cap]
    BY <1>1 DEF Ring
  <2> DEFINE q == m - 1
  <2>3. u = [d EXCEPT !.count = q, !.head = g]
    BY <2>1
  <2> HIDE DEF q
  <2>4. u = [data |-> d.data, head |-> g, count |-> q, cap |-> d.cap]
    BY <2>2, <2>3
  <2>5. QED
    BY <2>4 DEF q
<1>6. /\ u = [data |-> u.data, head |-> u.head, count |-> u.count, cap |-> u.cap]
      /\ u.data = d.data /\ u.head = g /\ u.count = m - 1 /\ u.cap = c
  <2> HIDE DEF g
  <2>1. QED
    BY <1>5
<1>7. ASSUME NEW i \in 0 .. (m - 2)
      PROVE  At(u, i) = At(d, i + 1)
  <2>1. m # 1 /\ i \in Nat /\ 1 \in Nat /\ 1 + i < c /\ 1 + i = i + 1
    BY <1>2
  <2>2. g = h
    BY <2>1
  <2>3. (((d.head + 1) % c) + i) % c = (d.head + (1 + i)) % c
    <3> HIDE DEF c
    <3>1. QED
      BY <1>2, <2>1, SlotFrom
  <2>4. (h + i) % c = (d.head + (i + 1)) % c
    BY <2>1, <2>3
  <2> HIDE DEF g, h
  <2>5. QED
    BY <1>6, <2>2, <2>4 DEF At, SlotIndex
<1>8. \A i \in 0 .. (m - 2) : At(u, i) \in Vals
  <2>1. \A i \in 0 .. (m - 2) : i + 1 \in 0 .. (d.count - 1)
    BY <1>2
  <2>2. QED
    BY <1>1, <1>7, <2>1 DEF Ring
<1> HIDE DEF g
<1>9. Ring(u)
  <2>1. \A i \in 0 .. (u.count - 1) : At(u, i) \in Vals
    BY <1>2, <1>6, <1>8
  <2>2. u.count \in 0 .. u.cap /\ u.head \in 0 .. (u.cap - 1)
    BY <1>2, <1>4, <1>6
  <2>3. u.cap \in Powers /\ MinCap <= u.cap
        /\ u.data \in [0 .. (u.cap - 1) -> Vals \cup {Junk}]
    BY <1>1, <1>6 DEF Ring
  <2>4. QED
    BY <1>6, <2>1, <2>2, <2>3 DEF Ring
<1>10. QED
  BY <1>6, <1>7, <1>9 DEF Beheaded

\* rki_deque_pop_back leaves the head, unless the last element goes.
LEMMA PopBackIs ==
  ASSUME NEW d, RingOrZero(d), d.count > 0, NEW u, u = Popped(d, d.head)
  PROVE  Curtailed(d, u)
<1> DEFINE c == d.cap
           m == d.count
           g == IF m = 1 THEN 0 ELSE d.head
<1>1. d.count \in Nat /\ Ring(d)
  BY RingShape
<1>2. c \in Nat \ {0} /\ d.head \in 0 .. (c - 1) /\ m \in 1 .. c
  BY <1>1, PowersAre DEF Ring
<1>3. g \in 0 .. (c - 1)
  BY <1>2
<1>4. u = [data |-> d.data, head |-> g, count |-> m - 1, cap |-> c]
  <2>1. u = [d EXCEPT !.count = m - 1, !.head = g]
    BY DEF Popped
  <2> HIDE DEF g
  <2>2. d = [data |-> d.data, head |-> d.head, count |-> d.count, cap |-> d.cap]
    BY <1>1 DEF Ring
  <2> DEFINE q == m - 1
  <2>3. u = [d EXCEPT !.count = q, !.head = g]
    BY <2>1
  <2> HIDE DEF q
  <2>4. u = [data |-> d.data, head |-> g, count |-> q, cap |-> d.cap]
    BY <2>2, <2>3
  <2>5. QED
    BY <2>4 DEF q
<1>5. /\ u = [data |-> u.data, head |-> u.head, count |-> u.count, cap |-> u.cap]
      /\ u.data = d.data /\ u.head = g /\ u.count = m - 1 /\ u.cap = c
  <2> HIDE DEF g
  <2>1. QED
    BY <1>4
<1>6. ASSUME NEW i \in 0 .. (m - 2)
      PROVE  At(u, i) = At(d, i)
  <2>1. m # 1
    BY <1>2
  <2>2. g = d.head
    BY <2>1
  <2> HIDE DEF g
  <2>3. QED
    BY <1>5, <2>2 DEF At, SlotIndex
<1>7. \A i \in 0 .. (m - 2) : At(u, i) \in Vals
  <2>1. \A i \in 0 .. (m - 2) : i \in 0 .. (d.count - 1)
    BY <1>2
  <2>2. QED
    BY <1>1, <1>6, <2>1 DEF Ring
<1> HIDE DEF g
<1>8. Ring(u)
  <2>1. \A i \in 0 .. (u.count - 1) : At(u, i) \in Vals
    BY <1>2, <1>5, <1>7
  <2>2. u.count \in 0 .. u.cap /\ u.head \in 0 .. (u.cap - 1)
    BY <1>2, <1>3, <1>5
  <2>3. u.cap \in Powers /\ MinCap <= u.cap
        /\ u.data \in [0 .. (u.cap - 1) -> Vals \cup {Junk}]
    BY <1>1, <1>5 DEF Ring
  <2>4. QED
    BY <1>5, <2>1, <2>2, <2>3 DEF Ring
<1>9. QED
  BY <1>5, <1>6, <1>8 DEF Curtailed

(* Dropping the first element leaves the tail of the sequence.                *)
LEMMA BeheadedView ==
  ASSUME NEW d, RingOrZero(d), d.count > 0, NEW u, Beheaded(d, u)
  PROVE  /\ View(d, 0, 0) # <<>> /\ Head(View(d, 0, 0)) = At(d, 0)
         /\ View(u, 0, 0) = Tail(View(d, 0, 0))
<1> DEFINE a == View(d, 0, 0)
           b == View(u, 0, 0)
           m == d.count
<1>1. a \in Seq(Vals) /\ Len(a) = m /\ \A i \in 1 .. m : a[i] = At(d, i - 1)
  BY WholeIs
<1>2. b \in Seq(Vals) /\ Len(b) = u.count /\ \A i \in 1 .. u.count : b[i] = At(u, i - 1)
  BY WholeIs DEF Beheaded, RingOrZero
<1>3. m \in Nat \ {0} /\ u.count = m - 1
  BY RingShape DEF Beheaded
<1>4. \A i \in 0 .. (m - 2) : At(u, i) = At(d, i + 1)
  BY DEF Beheaded
<1> HIDE DEF a, b, m
<1>5. a # <<>>
  BY <1>1, <1>3, EmptySeq
<1>6. Tail(a) \in Seq(Vals) /\ Len(Tail(a)) = m - 1
      /\ \A i \in 1 .. (m - 1) : Tail(a)[i] = a[i + 1]
  BY <1>1, <1>5, HeadTailProperties
<1>7. ASSUME NEW i \in 1 .. (m - 1)
      PROVE  b[i] = Tail(a)[i]
  <2> DEFINE k == i - 1
  <2>1. k \in 0 .. (m - 2) /\ i + 1 \in 1 .. m /\ k + 1 = i + 1 - 1
    BY <1>3
  <2>2. b[i] = At(u, k) /\ a[i + 1] = At(d, i + 1 - 1)
    BY <1>1, <1>2, <1>3, <2>1
  <2> HIDE DEF k
  <2>3. At(u, k) = At(d, k + 1)
    BY <1>4, <2>1
  <2>4. QED
    BY <1>6, <2>1, <2>2, <2>3
<1>8. b = Tail(a)
  <2> DEFINE t == Tail(a)
  <2>1. t \in Seq(Vals) /\ Len(b) = Len(t) /\ \A i \in 1 .. Len(b) : b[i] = t[i]
    BY <1>2, <1>3, <1>6, <1>7
  <2> HIDE DEF t
  <2>2. b = t
    BY <1>2, <2>1, SeqEqual
  <2>3. QED
    BY <2>2 DEF t
<1>9. Head(a) = At(d, 0)
  <2>1. 1 \in 1 .. m /\ 1 - 1 = 0
    BY <1>3
  <2>2. Head(a) = a[1]
    BY <1>1, <1>5
  <2>3. QED
    BY <1>1, <2>1, <2>2
<1>10. QED
  BY <1>5, <1>8, <1>9 DEF a, b

(* Dropping the last element leaves the sequence without its last.            *)
LEMMA CurtailedView ==
  ASSUME NEW d, RingOrZero(d), d.count > 0, NEW u, Curtailed(d, u)
  PROVE  /\ View(d, 0, 0) # <<>> /\ View(d, 0, 0)[Len(View(d, 0, 0))] = At(d, d.count - 1)
         /\ View(u, 0, 0) = SubSeq(View(d, 0, 0), 1, Len(View(d, 0, 0)) - 1)
<1> DEFINE a == View(d, 0, 0)
           b == View(u, 0, 0)
           m == d.count
<1>1. a \in Seq(Vals) /\ Len(a) = m /\ \A i \in 1 .. m : a[i] = At(d, i - 1)
  BY WholeIs
<1>2. b \in Seq(Vals) /\ Len(b) = u.count /\ \A i \in 1 .. u.count : b[i] = At(u, i - 1)
  BY WholeIs DEF Curtailed, RingOrZero
<1>3. m \in Nat \ {0} /\ u.count = m - 1 /\ m = d.count
  BY RingShape DEF Curtailed
<1>4. \A i \in 0 .. (m - 2) : At(u, i) = At(d, i)
  BY DEF Curtailed
<1> HIDE DEF a, b, m
<1>5. a # <<>>
  BY <1>1, <1>3, EmptySeq
<1> DEFINE t == SubSeq(a, 1, m - 1)
<1>6. t \in Seq(Vals) /\ Len(t) = m - 1 /\ \A i \in 1 .. (m - 1) : t[i] = a[i]
  <2> DEFINE n == m - 1
  <2>1. \A i \in 1 .. n : a[i] \in Vals
    <3>1. \A i \in 1 .. n : i \in 1 .. Len(a)
      BY <1>1, <1>3
    <3>2. QED
      BY <1>1, <3>1, ElementOfSeq
  <2>2. n \in Int /\ n \in Nat /\ 1 \in Int /\ n - 1 + 1 = n
        /\ (1 <= n => n - 1 + 1 = n) /\ (~ (1 <= n) => n = 0)
    BY <1>3
  <2> HIDE DEF n
  <2>3. /\ SubSeq(a, 1, n) \in Seq(Vals)
        /\ Len(SubSeq(a, 1, n)) = IF 1 <= n THEN n - 1 + 1 ELSE 0
        /\ \A i \in 1 .. n - 1 + 1 : SubSeq(a, 1, n)[i] = a[1 + i - 1]
    BY <2>1, <2>2, SubSeqProperties
  <2>4. \A i \in 1 .. n : 1 + i - 1 = i
    BY <2>2
  <2>5. SubSeq(a, 1, n) \in Seq(Vals) /\ Len(SubSeq(a, 1, n)) = n
        /\ \A i \in 1 .. n : SubSeq(a, 1, n)[i] = a[i]
    BY <2>2, <2>3, <2>4
  <2>6. QED
    BY <2>5 DEF n
<1> HIDE DEF t
<1>7. ASSUME NEW i \in 1 .. (m - 1)
      PROVE  b[i] = t[i]
  <2> DEFINE k == i - 1
  <2>1. k \in 0 .. (m - 2) /\ i \in 1 .. m
    BY <1>3
  <2>2. b[i] = At(u, k) /\ a[i] = At(d, k)
    BY <1>1, <1>2, <1>3, <2>1
  <2> HIDE DEF k
  <2>3. At(u, k) = At(d, k)
    BY <1>4, <2>1
  <2>4. QED
    BY <1>6, <2>2, <2>3
<1>8. b = t
  <2>1. Len(b) = Len(t) /\ \A i \in 1 .. Len(b) : b[i] = t[i]
    BY <1>2, <1>3, <1>6, <1>7
  <2>2. QED
    BY <1>2, <1>6, <2>1, SeqEqual
<1>9. a[m] = At(d, m - 1)
  <2>1. m \in 1 .. m
    BY <1>3
  <2>2. QED
    BY <1>1, <2>1
<1>10. QED
  BY <1>1, <1>3, <1>5, <1>8, <1>9 DEF a, b, t

-----------------------------------------------------------------------------
\* One iteration of deque_erase_if that keeps its element, and what the loop
\* leaves behind.
Kept(d, r, w)   == [d EXCEPT !.data[SlotIndex(d, w)] = At(d, r)]
Compacted(d, w) == [d EXCEPT !.count = w, !.head = IF w = 0 THEN 0 ELSE @]

\* An element that is kept moves down to the write position, where no element
\* is that has not been read.
LEMMA KeptIs ==
  ASSUME NEW d, Ring(d), NEW r \in 0 .. (d.count - 1), NEW w \in 0 .. r,
         NEW u, u = Kept(d, r, w)
  PROVE  /\ Ring(u) /\ u.cap = d.cap /\ u.count = d.count
         /\ At(u, w) = At(d, r)
         /\ \A i \in 0 .. (d.count - 1) : i # w => At(u, i) = At(d, i)
<1> DEFINE c == d.cap
           m == d.count
           h == d.head
           x == SlotIndex(d, w)
           v == At(d, r)
           g == [d.data EXCEPT ![x] = v]
<1>1. /\ c \in Nat \ {0} /\ h \in 0 .. (c - 1) /\ m \in 0 .. c /\ m \in Nat
      /\ d.data \in [0 .. (c - 1) -> Vals \cup {Junk}]
      /\ \A i \in 0 .. (m - 1) : At(d, i) \in Vals
  BY PowersAre DEF Ring
<1>2. r \in 0 .. (m - 1) /\ w \in 0 .. (m - 1) /\ w \in 0 .. (c - 1)
  BY <1>1
<1>3. x \in 0 .. (c - 1)
  <2>1. h + w \in Int
    BY <1>1, <1>2
  <2>2. QED
    BY <1>1, <2>1, DivMod DEF SlotIndex
<1>4. v \in Vals
  BY <1>1, <1>2
<1>5. x = (h + w) % c
  BY DEF SlotIndex
<1>6. u = [data |-> g, head |-> h, count |-> m, cap |-> c]
  <2>1. u = [d EXCEPT !.data = g]
    BY DEF Kept
  <2> HIDE DEF g
  <2>2. d = [data |-> d.data, head |-> d.head, count |-> d.count, cap |-> d.cap]
    BY DEF Ring
  <2>3. QED
    BY <2>1, <2>2
<1> HIDE DEF x, v
<1>7. /\ g \in [0 .. (c - 1) -> Vals \cup {Junk}] /\ g[x] = v
      /\ \A j \in 0 .. (c - 1) : j # x => g[j] = d.data[j]
  BY <1>1, <1>3, <1>4
<1> HIDE DEF g
<1>8. /\ u = [data |-> u.data, head |-> u.head, count |-> u.count, cap |-> u.cap]
      /\ u.data = g /\ u.head = h /\ u.count = m /\ u.cap = c
  BY <1>6
<1>9. \A i : At(d, i) = d.data[(h + i) % c] /\ At(u, i) = g[(h + i) % c]
  BY <1>8 DEF At, SlotIndex
<1>10. At(u, w) = v
  BY <1>5, <1>7, <1>9
<1>11. ASSUME NEW i \in 0 .. (m - 1), i # w
       PROVE  At(u, i) = At(d, i)
  <2> HIDE DEF c, h, m
  <2> DEFINE j == (h + i) % c
  <2>1. i \in 0 .. (c - 1) /\ h + i \in Int
    BY <1>1
  <2>2. j \in 0 .. (c - 1)
    BY <1>1, <2>1, DivMod
  <2>3. j # x
    BY <1>1, <1>2, <1>5, <1>11, <2>1, SlotsDiffer
  <2>4. g[j] = d.data[j]
    <3> HIDE DEF j
    <3>1. QED
      BY <1>7, <2>2, <2>3
  <2>5. QED
    BY <1>9, <2>4
<1>12. \A i \in 0 .. (m - 1) : At(u, i) \in Vals
  BY <1>1, <1>4, <1>10, <1>11
<1>13. Ring(u)
  <2>1. \A i \in 0 .. (u.count - 1) : At(u, i) \in Vals
    BY <1>8, <1>12
  <2>2. u.count \in 0 .. u.cap /\ u.head \in 0 .. (u.cap - 1)
    BY <1>1, <1>8
  <2>3. u.cap \in Powers /\ MinCap <= u.cap
        /\ u.data \in [0 .. (u.cap - 1) -> Vals \cup {Junk}]
    BY <1>7, <1>8 DEF Ring
  <2>4. QED
    BY <1>8, <2>1, <2>2, <2>3 DEF Ring
<1>14. QED
  BY <1>8, <1>10, <1>11, <1>13 DEF v

\* The client does not see it move.
LEMMA KeptView ==
  ASSUME NEW d, Ring(d), NEW r \in 0 .. (d.count - 1), NEW w \in 0 .. r,
         NEW u, u = Kept(d, r, w)
  PROVE  View(u, r + 1, w + 1) = View(d, r, w)
<1> DEFINE a == View(d, r, w)
           b == View(u, r + 1, w + 1)
           m == d.count
           n == m - r - 1
<1>1. d.count \in Nat
  BY RingShape DEF RingOrZero
<1>2. m \in Nat /\ r \in Nat /\ w \in Nat /\ w <= r /\ r < m /\ n \in Nat /\ m = d.count
  BY <1>1
<1>3. /\ a \in Seq(Vals) /\ Len(a) = w + (n + 1)
      /\ \A i \in 1 .. w : a[i] = At(d, i - 1)
      /\ \A i \in 1 .. (n + 1) : a[w + i] = At(d, r + i - 1)
  <2>1. r \in 0 .. d.count /\ d.count - r = n + 1
    BY <1>2
  <2>2. /\ View(d, r, w) \in Seq(Vals) /\ Len(View(d, r, w)) = w + (d.count - r)
        /\ \A i \in 1 .. w : View(d, r, w)[i] = At(d, i - 1)
        /\ \A i \in 1 .. (d.count - r) : View(d, r, w)[w + i] = At(d, r + i - 1)
    BY <2>1, ViewIs DEF RingOrZero
  <2>3. QED
    BY <2>1, <2>2
<1>4. /\ Ring(u) /\ u.count = m /\ At(u, w) = At(d, r)
      /\ \A i \in 0 .. (m - 1) : i # w => At(u, i) = At(d, i)
  BY KeptIs
<1>5. /\ b \in Seq(Vals) /\ Len(b) = w + 1 + n
      /\ \A i \in 1 .. (w + 1) : b[i] = At(u, i - 1)
      /\ \A i \in 1 .. n : b[w + 1 + i] = At(u, r + 1 + i - 1)
  <2> DEFINE p == r + 1
             q == w + 1
  <2>1. p \in 0 .. u.count /\ q \in 0 .. p /\ u.count - p = n
    BY <1>2, <1>4
  <2> HIDE DEF p, q
  <2>2. /\ View(u, p, q) \in Seq(Vals) /\ Len(View(u, p, q)) = q + (u.count - p)
        /\ \A i \in 1 .. q : View(u, p, q)[i] = At(u, i - 1)
        /\ \A i \in 1 .. (u.count - p) : View(u, p, q)[q + i] = At(u, p + i - 1)
    <3>1. RingOrZero(u)
      BY <1>4 DEF RingOrZero
    <3>2. QED
      BY <2>1, <3>1, ViewIs, SMTT(30)
  <2>3. /\ View(u, p, q) \in Seq(Vals) /\ Len(View(u, p, q)) = q + n
        /\ \A i \in 1 .. q : View(u, p, q)[i] = At(u, i - 1)
        /\ \A i \in 1 .. n : View(u, p, q)[q + i] = At(u, p + i - 1)
    BY <2>1, <2>2
  <2>4. QED
    BY <2>3 DEF p, q
<1> HIDE DEF a, b, m, n
<1>6. ASSUME NEW i \in 1 .. (w + 1 + n)
      PROVE  b[i] = a[i]
  <2>1. CASE i <= w
    <3> DEFINE k == i - 1
    <3>1. k \in 0 .. (m - 1) /\ k # w /\ i \in 1 .. w /\ i \in 1 .. (w + 1)
      BY <1>2, <2>1
    <3>2. b[i] = At(u, k) /\ a[i] = At(d, k)
      BY <1>3, <1>5, <3>1
    <3> HIDE DEF k
    <3>3. QED
      BY <1>4, <3>1, <3>2
  <2>2. CASE i = w + 1
    <3>1. i \in 1 .. (w + 1) /\ i - 1 = w /\ 1 \in 1 .. (n + 1) /\ r + 1 - 1 = r
      BY <1>2, <2>2
    <3>2. b[i] = At(u, w)
      BY <1>5, <3>1
    <3>3. a[w + 1] = At(d, r)
      BY <1>3, <3>1
    <3>4. QED
      BY <1>4, <2>2, <3>2, <3>3
  <2>3. CASE i > w + 1
    <3> DEFINE k == i - w - 1
               y == r + k
    <3>1. /\ k \in 1 .. n /\ w + 1 + k = i /\ k + 1 \in 1 .. (n + 1) /\ w + (k + 1) = i
          /\ r + 1 + k - 1 = y /\ r + (k + 1) - 1 = y /\ y \in 0 .. (m - 1) /\ y # w
      BY <1>2, <2>3 DEF n
    <3> HIDE DEF k, y
    <3>2. b[i] = At(u, y)
      BY <1>5, <3>1
    <3>3. a[i] = At(d, y)
      BY <1>3, <3>1
    <3>4. QED
      BY <1>4, <3>1, <3>2, <3>3
  <2>4. i \in Int /\ w \in Int
    BY <1>2
  <2>5. QED
    BY <2>1, <2>2, <2>3, <2>4
<1>7. Len(a) = Len(b) /\ \A i \in 1 .. Len(b) : b[i] = a[i]
  BY <1>2, <1>3, <1>5, <1>6
<1>8. b = a
  BY <1>3, <1>5, <1>7, SeqEqual
<1>9. QED
  BY <1>8 DEF a, b

\* An element that the predicate holds of leaves the sequence of the client.
LEMMA DroppedView ==
  ASSUME NEW d, Ring(d), NEW r \in 0 .. (d.count - 1), NEW w \in 0 .. r,
         NEW a, a = View(d, r, w)
  PROVE  /\ w + 1 \in DOMAIN a
         /\ View(d, r + 1, w) = SubSeq(a, 1, w) \o SubSeq(a, w + 2, Len(a))
<1> DEFINE b == View(d, r + 1, w)
           m == d.count
           n == m - r - 1
<1>1. d.count \in Nat /\ RingOrZero(d)
  BY RingShape DEF RingOrZero
<1>2. m \in Nat /\ r \in Nat /\ w \in Nat /\ w <= r /\ r < m /\ n \in Nat /\ m = d.count
  BY <1>1
<1>3. /\ a \in Seq(Vals) /\ Len(a) = w + 1 + n
      /\ \A i \in 1 .. w : a[i] = At(d, i - 1)
      /\ \A i \in 1 .. (n + 1) : a[w + i] = At(d, r + i - 1)
  <2>1. r \in 0 .. d.count /\ d.count - r = n + 1
    BY <1>2
  <2>2. /\ View(d, r, w) \in Seq(Vals) /\ Len(View(d, r, w)) = w + (d.count - r)
        /\ \A i \in 1 .. w : View(d, r, w)[i] = At(d, i - 1)
        /\ \A i \in 1 .. (d.count - r) : View(d, r, w)[w + i] = At(d, r + i - 1)
    BY <1>1, <2>1, ViewIs, ZenonT(30)
  <2>3. w + (n + 1) = w + 1 + n
    BY <1>2
  <2>4. QED
    BY <2>1, <2>2, <2>3
<1>4. /\ b \in Seq(Vals) /\ Len(b) = w + n
      /\ \A i \in 1 .. w : b[i] = At(d, i - 1)
      /\ \A i \in 1 .. n : b[w + i] = At(d, r + 1 + i - 1)
  <2> DEFINE p == r + 1
  <2>1. p \in 0 .. d.count /\ w \in 0 .. p /\ d.count - p = n
    BY <1>2
  <2> HIDE DEF p
  <2>2. /\ View(d, p, w) \in Seq(Vals) /\ Len(View(d, p, w)) = w + (d.count - p)
        /\ \A i \in 1 .. w : View(d, p, w)[i] = At(d, i - 1)
        /\ \A i \in 1 .. (d.count - p) : View(d, p, w)[w + i] = At(d, p + i - 1)
    BY <1>1, <2>1, ViewIs, ZenonT(30)
  <2>3. /\ View(d, p, w) \in Seq(Vals) /\ Len(View(d, p, w)) = w + n
        /\ \A i \in 1 .. w : View(d, p, w)[i] = At(d, i - 1)
        /\ \A i \in 1 .. n : View(d, p, w)[w + i] = At(d, p + i - 1)
    BY <2>1, <2>2
  <2>4. QED
    BY <2>3 DEF p
<1> HIDE DEF b, m, n
<1>5. \A i \in 1 .. (w + 1 + n) : a[i] \in Vals
  BY <1>3, ElementOfSeq
<1> DEFINE lo == SubSeq(a, 1, w)
           hi == SubSeq(a, w + 2, w + 1 + n)
<1>6. lo \in Seq(Vals) /\ Len(lo) = w /\ \A i \in 1 .. w : lo[i] = a[i]
  <2>1. \A i \in 1 .. w : a[i] \in Vals
    <3>1. \A i \in 1 .. w : i \in 1 .. (w + 1 + n)
      BY <1>2
    <3>2. QED
      BY <1>5, <3>1
  <2>2. w \in Int /\ 1 \in Int /\ w - 1 + 1 = w /\ (~ (1 <= w) => w = 0)
        /\ \A i \in 1 .. w : 1 + i - 1 = i
    BY <1>2
  <2>3. /\ SubSeq(a, 1, w) \in Seq(Vals)
        /\ Len(SubSeq(a, 1, w)) = IF 1 <= w THEN w - 1 + 1 ELSE 0
        /\ \A i \in 1 .. w - 1 + 1 : SubSeq(a, 1, w)[i] = a[1 + i - 1]
    BY <2>1, <2>2, SubSeqProperties
  <2>4. QED
    BY <2>2, <2>3
<1>7. hi \in Seq(Vals) /\ Len(hi) = n /\ \A i \in 1 .. n : hi[i] = a[w + 1 + i]
  <2> DEFINE p == w + 2
             q == w + 1 + n
  <2>1. \A i \in p .. q : a[i] \in Vals
    <3>1. \A i \in p .. q : i \in 1 .. (w + 1 + n)
      BY <1>2
    <3>2. QED
      BY <1>5, <3>1
  <2>2. p \in Int /\ q \in Int /\ q - p + 1 = n /\ (~ (p <= q) => n = 0)
        /\ \A i \in 1 .. n : p + i - 1 = w + 1 + i
    BY <1>2
  <2> HIDE DEF p, q
  <2>3. /\ SubSeq(a, p, q) \in Seq(Vals)
        /\ Len(SubSeq(a, p, q)) = IF p <= q THEN q - p + 1 ELSE 0
        /\ \A i \in 1 .. q - p + 1 : SubSeq(a, p, q)[i] = a[p + i - 1]
    BY <2>1, <2>2, SubSeqProperties
  <2>4. SubSeq(a, p, q) \in Seq(Vals) /\ Len(SubSeq(a, p, q)) = n
        /\ \A i \in 1 .. n : SubSeq(a, p, q)[i] = a[w + 1 + i]
    BY <2>2, <2>3
  <2>5. QED
    BY <2>4 DEF p, q
<1>8. w + 1 \in 1 .. (w + 1 + n)
  BY <1>2
<1>9. SubSeq(a, 1, w) = lo /\ SubSeq(a, w + 2, Len(a)) = hi
  BY <1>3
<1> HIDE DEF lo, hi
<1>10. /\ lo \o hi \in Seq(Vals) /\ Len(lo \o hi) = w + n
      /\ \A i \in 1 .. (w + n) : (lo \o hi)[i] = IF i <= w THEN lo[i] ELSE hi[i - w]
  <2>1. /\ lo \o hi \in Seq(Vals) /\ Len(lo \o hi) = Len(lo) + Len(hi)
        /\ \A i \in 1 .. Len(lo) + Len(hi) :
             (lo \o hi)[i] = IF i <= Len(lo) THEN lo[i] ELSE hi[i - Len(lo)]
    <3>1. lo \in Seq(Vals) /\ hi \in Seq(Vals)
      BY <1>6, <1>7
    <3>2. QED
      BY <3>1, ConcatProperties
  <2>2. Len(lo) = w /\ Len(hi) = n
    BY <1>6, <1>7
  <2>3. QED
    BY <2>1, <2>2
<1>11. ASSUME NEW i \in 1 .. (w + n)
       PROVE  b[i] = (lo \o hi)[i]
  <2>1. CASE i <= w
    <3>1. i \in 1 .. w
      BY <1>2, <2>1
    <3>2. (lo \o hi)[i] = lo[i]
      BY <1>10, <2>1
    <3>3. QED
      BY <1>3, <1>4, <1>6, <3>1, <3>2
  <2>2. CASE ~ (i <= w)
    <3> DEFINE k == i - w
               y == r + k
    <3>1. /\ k \in 1 .. n /\ w + k = i /\ k + 1 \in 1 .. (n + 1) /\ w + (k + 1) = w + 1 + k
          /\ r + 1 + k - 1 = y /\ r + (k + 1) - 1 = y
      BY <1>2, <2>2
    <3>2. (lo \o hi)[i] = hi[k]
      BY <1>10, <2>2
    <3> HIDE DEF k, y
    <3>3. b[i] = At(d, y)
      BY <1>4, <3>1
    <3>4. hi[k] = a[w + 1 + k]
      BY <1>7, <3>1
    <3>5. a[w + (k + 1)] = At(d, y)
      BY <1>3, <3>1
    <3>6. QED
      BY <3>1, <3>2, <3>3, <3>4, <3>5
  <2>3. QED
    BY <2>1, <2>2
<1>12. b = lo \o hi
  <2> DEFINE t == lo \o hi
  <2>1. t \in Seq(Vals) /\ Len(b) = Len(t) /\ \A i \in 1 .. Len(b) : b[i] = t[i]
    <3>1. Len(b) = w + n
      BY <1>4
    <3>2. QED
      BY <1>10, <1>11, <3>1
  <2> HIDE DEF t
  <2>2. b = t
    BY <1>4, <2>1, SeqEqual
  <2>3. QED
    BY <2>2 DEF t
<1>13. w + 1 \in DOMAIN a
  <2>1. DOMAIN a = 1 .. Len(a)
    BY <1>3, LenProperties
  <2>2. QED
    BY <1>3, <1>8, <2>1
<1>14. QED
  BY <1>9, <1>12, <1>13 DEF b

\* When everything has been read, the elements that were kept are the ring.
LEMMA CompactedIs ==
  ASSUME NEW d, Ring(d), NEW w \in 0 .. d.count, NEW u, u = Compacted(d, w)
  PROVE  /\ Ring(u) /\ u.cap = d.cap /\ u.count = w
         /\ View(u, 0, 0) = View(d, d.count, w)
<1> DEFINE g == IF w = 0 THEN 0 ELSE d.head
           a == View(d, d.count, w)
           b == View(u, 0, 0)
<1>1. /\ d.cap \in Nat \ {0} /\ d.head \in 0 .. (d.cap - 1) /\ d.count \in 0 .. d.cap
      /\ d.count \in Nat
      /\ d = [data |-> d.data, head |-> d.head, count |-> d.count, cap |-> d.cap]
      /\ \A i \in 0 .. (d.count - 1) : At(d, i) \in Vals
  BY PowersAre DEF Ring
<1>2. g \in 0 .. (d.cap - 1)
  BY <1>1
<1>3. u = [data |-> d.data, head |-> g, count |-> w, cap |-> d.cap]
  <2>1. u = [d EXCEPT !.count = w, !.head = g]
    BY DEF Compacted
  <2> HIDE DEF g
  <2>2. QED
    BY <1>1, <2>1
<1>4. /\ u = [data |-> u.data, head |-> u.head, count |-> u.count, cap |-> u.cap]
      /\ u.data = d.data /\ u.head = g /\ u.count = w /\ u.cap = d.cap
  <2> HIDE DEF g
  <2>1. QED
    BY <1>3
<1>5. ASSUME NEW i \in 0 .. (w - 1)
      PROVE  At(u, i) = At(d, i) /\ At(u, i) \in Vals
  <2>1. w # 0 /\ i \in 0 .. (d.count - 1)
    BY <1>1
  <2>2. g = d.head
    BY <2>1
  <2> HIDE DEF g
  <2>3. At(u, i) = At(d, i)
    BY <1>4, <2>2 DEF At, SlotIndex
  <2>4. QED
    BY <1>1, <2>1, <2>3
<1> HIDE DEF g
<1>6. Ring(u)
  <2>1. \A i \in 0 .. (u.count - 1) : At(u, i) \in Vals
    BY <1>4, <1>5
  <2>2. u.count \in 0 .. u.cap /\ u.head \in 0 .. (u.cap - 1)
    BY <1>1, <1>2, <1>4
  <2>3. u.cap \in Powers /\ MinCap <= u.cap
        /\ u.data \in [0 .. (u.cap - 1) -> Vals \cup {Junk}]
    BY <1>4 DEF Ring
  <2>4. QED
    BY <1>4, <2>1, <2>2, <2>3 DEF Ring
<1>7. b \in Seq(Vals) /\ Len(b) = w /\ \A i \in 1 .. w : b[i] = At(u, i - 1)
  <2>1. b \in Seq(Vals) /\ Len(b) = u.count /\ \A i \in 1 .. u.count : b[i] = At(u, i - 1)
    BY <1>6, WholeIs DEF RingOrZero
  <2>2. QED
    BY <1>4, <2>1
<1>8. a \in Seq(Vals) /\ Len(a) = w /\ \A i \in 1 .. w : a[i] = At(d, i - 1)
  <2> DEFINE r == d.count
  <2>1. r \in 0 .. d.count /\ w \in 0 .. r /\ w + (d.count - r) = w
    BY <1>1
  <2> HIDE DEF r
  <2>2. /\ View(d, r, w) \in Seq(Vals) /\ Len(View(d, r, w)) = w + (d.count - r)
        /\ \A i \in 1 .. w : View(d, r, w)[i] = At(d, i - 1)
    BY <2>1, ViewIs DEF RingOrZero
  <2>3. View(d, r, w) \in Seq(Vals) /\ Len(View(d, r, w)) = w
        /\ \A i \in 1 .. w : View(d, r, w)[i] = At(d, i - 1)
    BY <2>1, <2>2
  <2>4. QED
    BY <2>3 DEF r
<1> HIDE DEF a, b
<1>9. \A i \in 1 .. Len(b) : b[i] = a[i]
  <2>1. TAKE i \in 1 .. Len(b)
  <2> DEFINE k == i - 1
  <2>2. k \in 0 .. (w - 1) /\ i \in 1 .. w
    BY <1>1, <1>7
  <2>3. b[i] = At(u, k) /\ a[i] = At(d, k)
    BY <1>7, <1>8, <2>2
  <2> HIDE DEF k
  <2>4. QED
    BY <1>5, <2>2, <2>3
<1>10. b = a
  <2>1. Len(a) = Len(b)
    BY <1>7, <1>8
  <2>2. QED
    BY <1>7, <1>8, <1>9, <2>1, SeqEqual
<1>11. QED
  BY <1>4, <1>6, <1>10 DEF a, b

\* rki_deque_shrink_to_fit keeps the elements and never grows the buffer.
LEMMA ShrunkIs ==
  ASSUME NEW d, RingOrZero(d), d.count # 0, NEW u,
         u = IF RoundCap(d.count) = d.cap THEN d ELSE ReallocTo(d, RoundCap(d.count))
  PROVE  Ring(u) /\ SameItems(d, u) /\ u.cap <= d.cap
<1>1. d.cap \in Nat /\ d.count \in Nat /\ d.count <= d.cap /\ Ring(d)
  BY RingShape
<1>2. d.cap \in Powers /\ MinCap <= d.cap
  BY <1>1 DEF Ring
<1>3. Possible(d.count)
  BY <1>1, <1>2 DEF Possible
<1>4. RoundCap(d.count) \in Powers /\ MinCap <= RoundCap(d.count)
      /\ d.count <= RoundCap(d.count) /\ RoundCap(d.count) <= d.cap
  BY <1>1, <1>2, <1>3, RoundCapIs
<1>5. CASE RoundCap(d.count) = d.cap
  <2>1. u = d
    BY <1>5
  <2>2. QED
    BY <1>1, <2>1 DEF SameItems
<1>6. CASE RoundCap(d.count) # d.cap
  <2>1. u = ReallocTo(d, RoundCap(d.count))
    BY <1>6
  <2>2. Ring(u) /\ u.cap = RoundCap(d.count) /\ SameItems(d, u)
    BY <1>4, <2>1, ReallocIs
  <2>3. QED
    BY <1>4, <2>2
<1>7. QED
  BY <1>5, <1>6

-----------------------------------------------------------------------------
\* The inductive invariant.  It adds to RingOK that every slot between the first
\* and the last element holds an element, never Junk, also those that
\* deque_erase_if has read and not yet overwritten, and that deque_erase_if only
\* runs on a deque that has elements.
RingInv ==
  /\ RingOrZero(deque)
  /\ write \in 0 .. read /\ read \in 0 .. deque.count
  /\ ~ Erasing => read = 0 /\ write = 0
  /\ Erasing => deque.count > 0

\* What GrowsOnlyWhenFull says of a step.
GrowsFull ==
  deque.cap # 0 /\ deque'.cap > deque.cap
    => deque'.count > deque.cap \/ \E n \in Requests : n > deque.cap /\ Reserve(n)

\* What every step does: it keeps the invariant, is a step of the queue, or
\* none that the client can see, and grows the buffer only if it has to.
Effect ==
  /\ RingInv'
  /\ Abstract!Next \/ UNCHANGED <<Contents, write, call>>
  /\ GrowsFull

\* The client's sequence is View of the three variables.
LEMMA ContentsIs ==
  /\ Contents = View(deque, read, write)
  /\ Contents' = View(deque', read', write')
BY DEF Contents, Between, View, Run

(* The zeroed deque satisfies the invariant and stands for the empty          *)
(* sequence.                                                                  *)
LEMMA InitRing ==
  ASSUME Init
  PROVE  RingInv /\ Contents = <<>>
<1>1. deque = ZeroDeque /\ read = 0 /\ write = 0 /\ call = Nothing
  BY DEF Init
<1>2. RingOrZero(deque)
  BY <1>1 DEF RingOrZero
<1>3. deque.count = 0
  BY <1>1, <1>2, RingShape
<1>4. RingInv
  <2>1. ~ Erasing
    BY <1>1 DEF Erasing
  <2>2. write \in 0 .. read /\ read \in 0 .. deque.count
    BY <1>1, <1>3
  <2>3. QED
    BY <1>1, <1>2, <2>1, <2>2 DEF RingInv
<1>5. Contents = <<>>
  <2>1. View(deque, 0, 0) \in Seq(Vals) /\ Len(View(deque, 0, 0)) = 0
    BY <1>2, <1>3, WholeIs
  <2>2. View(deque, 0, 0) = <<>>
    BY <2>1, EmptySeq
  <2>3. QED
    BY <1>1, <2>2, ContentsIs
<1>6. QED
  BY <1>4, <1>5

\* A call that starts when no other is running, and is done in one step.
LEMMA CallKeeps ==
  ASSUME RingInv, call = Nothing, UNCHANGED <<read, write>>,
         RingOrZero(deque'), ~ Erasing'
  PROVE  /\ RingInv'
         /\ Contents = View(deque, 0, 0) /\ Contents' = View(deque', 0, 0)
<1>1. ~ Erasing
  BY DEF Erasing
<1>2. read = 0 /\ write = 0 /\ read' = 0 /\ write' = 0
  BY <1>1 DEF RingInv
<1>3. deque'.count \in Nat
  BY RingShape
<1>4. RingInv'
  BY <1>2, <1>3 DEF RingInv
<1>5. QED
  BY <1>2, <1>4, ContentsIs

(* rki_deque_push_back.                                                       *)
LEMMA PushBackSteps ==
  ASSUME RingInv, NEW v \in Vals, PushBack(v)
  PROVE  Effect
<1> DEFINE r == Grown(deque)
<1>1. RingOrZero(deque) /\ call = Nothing /\ UNCHANGED <<read, write>>
      /\ call' = [op |-> "push_back", val |-> v] /\ ~ Erasing'
  BY DEF PushBack, Becomes, RingInv, Erasing
<1>2. Possible(deque.count + 1) /\ deque' = StoredBack(r, v)
  BY DEF PushBack, Becomes, StoredBack
<1> HIDE DEF r
<1>3. Appended(deque, <<v>>, deque') /\ (deque'.cap > deque.cap => deque'.count > deque.cap)
  BY <1>1, <1>2, PushBackIs DEF r
<1>4. RingOrZero(deque')
  BY <1>3 DEF Appended, RingOrZero
<1>5. RingInv' /\ Contents = View(deque, 0, 0) /\ Contents' = View(deque', 0, 0)
  BY <1>1, <1>4, CallKeeps
<1>6. <<v>> \in Seq(Vals)
  OBVIOUS
<1>7. View(deque', 0, 0) = View(deque, 0, 0) \o <<v>>
  BY <1>1, <1>3, <1>6, AppendedView
<1>8. Abstract!Next
  <2>1. Contents' = Contents \o <<v>>
    BY <1>5, <1>7
  <2>2. Abstract!PushBack(v)
    BY <1>1, <2>1 DEF Abstract!PushBack, Abstract!Call
  <2>3. QED
    BY <2>2 DEF Abstract!Next
<1>9. QED
  BY <1>3, <1>5, <1>8 DEF Effect, GrowsFull

(* rki_deque_push_front.                                                      *)
LEMMA PushFrontSteps ==
  ASSUME RingInv, NEW v \in Vals, PushFront(v)
  PROVE  Effect
<1> DEFINE r == Grown(deque)
           h == (r.head + r.cap - 1) % r.cap
<1>1. RingOrZero(deque) /\ call = Nothing /\ UNCHANGED <<read, write>>
      /\ call' = [op |-> "push_front", val |-> v] /\ ~ Erasing'
  BY DEF PushFront, Becomes, RingInv, Erasing
<1>2. Possible(deque.count + 1) /\ deque' = StoredFront(r, h, v)
  BY DEF PushFront, Becomes, StoredFront
<1>3. r = Grown(deque) /\ h = (r.head + r.cap - 1) % r.cap
  OBVIOUS
<1> HIDE DEF r, h
<1>4. Prepended(deque, <<v>>, deque') /\ (deque'.cap > deque.cap => deque'.count > deque.cap)
  BY <1>1, <1>2, <1>3, PushFrontIs
<1>5. RingOrZero(deque')
  BY <1>4 DEF Prepended, RingOrZero
<1>6. RingInv' /\ Contents = View(deque, 0, 0) /\ Contents' = View(deque', 0, 0)
  BY <1>1, <1>5, CallKeeps
<1>7. <<v>> \in Seq(Vals)
  OBVIOUS
<1>8. View(deque', 0, 0) = <<v>> \o View(deque, 0, 0)
  BY <1>1, <1>4, <1>7, PrependedView
<1>9. Abstract!Next
  <2>1. Contents' = <<v>> \o Contents
    BY <1>6, <1>8
  <2>2. Abstract!PushFront(v)
    BY <1>1, <2>1 DEF Abstract!PushFront, Abstract!Call
  <2>3. QED
    BY <2>2 DEF Abstract!Next
<1>10. QED
  BY <1>4, <1>6, <1>9 DEF Effect, GrowsFull

(* rki_deque_push_back_n.                                                     *)
LEMMA PushBackNSteps ==
  ASSUME RingInv, NEW s \in Arrays, PushBackN(s)
  PROVE  Effect
<1>1. RingOrZero(deque) /\ call = Nothing /\ UNCHANGED <<read, write>>
      /\ call' = [op |-> "push_back_n", arr |-> s] /\ ~ Erasing' /\ s \in Seq(Vals)
  BY DequeAssumption DEF PushBackN, Becomes, RingInv, Erasing
<1>2. Possible(deque.count + Len(s)) /\ deque' = PushedBack(deque, s)
  BY DEF PushBackN, Becomes
<1>3. CASE s = <<>>
  <2>1. deque' = deque
    BY <1>2, <1>3 DEF PushedBack
  <2>2. RingInv' /\ Contents = View(deque, 0, 0) /\ Contents' = View(deque', 0, 0)
    BY <1>1, <2>1, CallKeeps
  <2>3. deque'.cap = deque.cap /\ deque.cap \in Nat
    BY <1>1, <2>1, RingShape
  <2>4. Contents \in Seq(Vals)
    BY <1>1, <2>2, WholeIs
  <2>5. Contents \o <<>> = Contents
    BY <2>4, ConcatEmptySeq
  <2>6. Contents' = Contents \o s
    BY <1>3, <2>1, <2>2, <2>5
  <2>7. Abstract!PushBackN(s)
    BY <1>1, <2>6 DEF Abstract!PushBackN, Abstract!Call
  <2>8. Abstract!Next
    BY <2>7 DEF Abstract!Next
  <2>9. QED
    BY <2>2, <2>3, <2>8 DEF Effect, GrowsFull
<1>4. CASE s # <<>>
  <2>1. Appended(deque, s, deque') /\ (deque'.cap > deque.cap => deque'.count > deque.cap)
    BY <1>1, <1>2, <1>4, PushedBackIs
  <2>2. RingOrZero(deque')
    BY <2>1 DEF Appended, RingOrZero
  <2>3. RingInv' /\ Contents = View(deque, 0, 0) /\ Contents' = View(deque', 0, 0)
    BY <1>1, <2>2, CallKeeps
  <2>4. View(deque', 0, 0) = View(deque, 0, 0) \o s
    BY <1>1, <2>1, AppendedView
  <2>5. Abstract!Next
    <3>1. Contents' = Contents \o s
      BY <2>3, <2>4
    <3>2. Abstract!PushBackN(s)
      BY <1>1, <3>1 DEF Abstract!PushBackN, Abstract!Call
    <3>3. QED
      BY <3>2 DEF Abstract!Next
  <2>6. QED
    BY <2>1, <2>3, <2>5 DEF Effect, GrowsFull
<1>5. QED
  BY <1>3, <1>4

(* rki_deque_push_front_n.                                                    *)
LEMMA PushFrontNSteps ==
  ASSUME RingInv, NEW s \in Arrays, PushFrontN(s)
  PROVE  Effect
<1>1. RingOrZero(deque) /\ call = Nothing /\ UNCHANGED <<read, write>>
      /\ call' = [op |-> "push_front_n", arr |-> s] /\ ~ Erasing' /\ s \in Seq(Vals)
  BY DequeAssumption DEF PushFrontN, Becomes, RingInv, Erasing
<1>2. Possible(deque.count + Len(s)) /\ deque' = PushedFront(deque, s)
  BY DEF PushFrontN, Becomes
<1>3. CASE s = <<>>
  <2>1. deque' = deque
    BY <1>2, <1>3 DEF PushedFront
  <2>2. RingInv' /\ Contents = View(deque, 0, 0) /\ Contents' = View(deque', 0, 0)
    BY <1>1, <2>1, CallKeeps
  <2>3. deque'.cap = deque.cap /\ deque.cap \in Nat
    BY <1>1, <2>1, RingShape
  <2>4. Contents \in Seq(Vals)
    BY <1>1, <2>2, WholeIs
  <2>5. <<>> \o Contents = Contents
    BY <2>4, ConcatEmptySeq
  <2>6. Contents' = s \o Contents
    BY <1>3, <2>1, <2>2, <2>5
  <2>7. Abstract!PushFrontN(s)
    BY <1>1, <2>6 DEF Abstract!PushFrontN, Abstract!Call
  <2>8. Abstract!Next
    BY <2>7 DEF Abstract!Next
  <2>9. QED
    BY <2>2, <2>3, <2>8 DEF Effect, GrowsFull
<1>4. CASE s # <<>>
  <2>1. Prepended(deque, s, deque') /\ (deque'.cap > deque.cap => deque'.count > deque.cap)
    BY <1>1, <1>2, <1>4, PushedFrontIs
  <2>2. RingOrZero(deque')
    BY <2>1 DEF Prepended, RingOrZero
  <2>3. RingInv' /\ Contents = View(deque, 0, 0) /\ Contents' = View(deque', 0, 0)
    BY <1>1, <2>2, CallKeeps
  <2>4. View(deque', 0, 0) = s \o View(deque, 0, 0)
    BY <1>1, <2>1, PrependedView
  <2>5. Abstract!Next
    <3>1. Contents' = s \o Contents
      BY <2>3, <2>4
    <3>2. Abstract!PushFrontN(s)
      BY <1>1, <3>1 DEF Abstract!PushFrontN, Abstract!Call
    <3>3. QED
      BY <3>2 DEF Abstract!Next
  <2>6. QED
    BY <2>1, <2>3, <2>5 DEF Effect, GrowsFull
<1>5. QED
  BY <1>3, <1>4

\* Clearing keeps the buffer.
LEMMA ClearedIs ==
  ASSUME NEW d, RingOrZero(d), NEW u, u = Cleared(d)
  PROVE  RingOrZero(u) /\ u.count = 0 /\ u.cap = d.cap /\ View(u, 0, 0) = <<>>
<1>1. d = [data |-> d.data, head |-> d.head, count |-> d.count, cap |-> d.cap]
      /\ (d.cap = 0 => d = ZeroDeque) /\ (d.cap # 0 => Ring(d)) /\ d.cap \in Nat
  BY RingShape
<1>2. u = [data |-> d.data, head |-> 0, count |-> 0, cap |-> d.cap]
  <2>1. u = [d EXCEPT !.head = 0, !.count = 0]
    BY DEF Cleared
  <2>2. QED
    BY <1>1, <2>1
<1>3. /\ u = [data |-> u.data, head |-> u.head, count |-> u.count, cap |-> u.cap]
      /\ u.data = d.data /\ u.head = 0 /\ u.count = 0 /\ u.cap = d.cap
  BY <1>2
<1>4. RingOrZero(u)
  <2>1. CASE d.cap = 0
    <3>1. d.data = <<>>
      BY <1>1, <2>1 DEF ZeroDeque
    <3>2. u = ZeroDeque
      BY <1>2, <2>1, <3>1 DEF ZeroDeque
    <3>3. QED
      BY <3>2 DEF RingOrZero
  <2>2. CASE d.cap # 0
    <3>1. 0 \in 0 .. (u.cap - 1) /\ 0 \in 0 .. u.cap /\ 0 .. (u.count - 1) = {}
      BY <1>1, <1>3, <2>2
    <3>2. Ring(u)
      BY <1>1, <1>3, <2>2, <3>1 DEF Ring
    <3>3. QED
      BY <3>2 DEF RingOrZero
  <2>3. QED
    BY <2>1, <2>2
<1>5. View(u, 0, 0) = <<>>
  <2>1. View(u, 0, 0) \in Seq(Vals) /\ Len(View(u, 0, 0)) = 0
    BY <1>3, <1>4, WholeIs
  <2>2. QED
    BY <2>1, EmptySeq
<1>6. QED
  BY <1>3, <1>4, <1>5

(* rki_deque_assign.                                                          *)
LEMMA AssignSteps ==
  ASSUME RingInv, NEW s \in Arrays, Assign(s)
  PROVE  Effect
<1> DEFINE e == Cleared(deque)
<1>1. RingOrZero(deque) /\ call = Nothing /\ UNCHANGED <<read, write>>
      /\ call' = [op |-> "assign", arr |-> s] /\ ~ Erasing' /\ s \in Seq(Vals) /\ deque.cap \in Nat
  BY DequeAssumption, RingShape DEF Assign, Becomes, RingInv, Erasing
<1>2. Possible(Len(s)) /\ deque' = PushedBack(e, s)
  BY DEF Assign, Becomes
<1>3. RingOrZero(e) /\ e.count = 0 /\ e.cap = deque.cap /\ View(e, 0, 0) = <<>>
  BY <1>1, ClearedIs
<1> HIDE DEF e
<1>4. RingOrZero(deque') /\ View(deque', 0, 0) = s
      /\ (deque'.cap > deque.cap => deque'.count > deque.cap)
  <2>1. CASE s = <<>>
    <3>1. deque' = e
      BY <1>2, <2>1 DEF PushedBack
    <3>2. QED
      BY <1>1, <1>3, <2>1, <3>1
  <2>2. CASE s # <<>>
    <3>1. e.count + Len(s) = Len(s)
      BY <1>1, <1>3, LenProperties
    <3>2. Appended(e, s, deque') /\ (deque'.cap > e.cap => deque'.count > e.cap)
      BY <1>1, <1>2, <1>3, <2>2, <3>1, PushedBackIs
    <3>3. RingOrZero(deque')
      BY <3>2 DEF Appended, RingOrZero
    <3>4. View(deque', 0, 0) = View(e, 0, 0) \o s
      BY <1>1, <1>3, <3>2, AppendedView
    <3>5. <<>> \o s = s
      BY <1>1, ConcatEmptySeq
    <3>6. QED
      BY <1>3, <3>2, <3>3, <3>4, <3>5
  <2>3. QED
    BY <2>1, <2>2
<1>5. RingInv' /\ Contents' = View(deque', 0, 0)
  BY <1>1, <1>4, CallKeeps
<1>6. Abstract!Next
  <2>1. Abstract!Assign(s)
    BY <1>1, <1>4, <1>5 DEF Abstract!Assign, Abstract!Call
  <2>2. QED
    BY <2>1 DEF Abstract!Next
<1>7. QED
  BY <1>4, <1>5, <1>6 DEF Effect, GrowsFull

(* rki_deque_pop_front.                                                       *)
LEMMA PopFrontSteps ==
  ASSUME RingInv, PopFront
  PROVE  Effect
<1>1. RingOrZero(deque) /\ call = Nothing /\ UNCHANGED <<read, write>>
      /\ deque.count > 0
  BY DEF PopFront, Becomes, RingInv
<1>2. deque' = Popped(deque, (deque.head + 1) % deque.cap)
      /\ call' = [op |-> "pop_front", val |-> deque'.data[SlotIndex(deque, 0)]]
  BY DEF PopFront, Becomes
<1>3. Beheaded(deque, deque')
  BY <1>1, <1>2, PopFrontIs
<1>4. RingOrZero(deque') /\ deque'.data = deque.data /\ deque'.cap = deque.cap
  BY <1>3 DEF Beheaded, RingOrZero
<1>5. call' = [op |-> "pop_front", val |-> At(deque, 0)] /\ ~ Erasing'
  BY <1>2, <1>4 DEF At, Erasing
<1>6. deque.cap \in Nat
  BY <1>1, RingShape
<1>7. RingInv' /\ Contents = View(deque, 0, 0) /\ Contents' = View(deque', 0, 0)
  BY <1>1, <1>4, <1>5, CallKeeps
<1>8. /\ View(deque, 0, 0) # <<>> /\ Head(View(deque, 0, 0)) = At(deque, 0)
      /\ View(deque', 0, 0) = Tail(View(deque, 0, 0))
  BY <1>1, <1>3, BeheadedView
<1>9. Abstract!Next
  <2>1. /\ Contents # <<>> /\ Contents' = Tail(Contents)
        /\ call' = [op |-> "pop_front", val |-> Head(Contents)]
    BY <1>5, <1>7, <1>8
  <2>2. Abstract!PopFront
    BY <1>1, <2>1 DEF Abstract!PopFront, Abstract!Call
  <2>3. QED
    BY <2>2 DEF Abstract!Next
<1>10. QED
  BY <1>4, <1>6, <1>7, <1>9 DEF Effect, GrowsFull

(* rki_deque_pop_back.                                                        *)
LEMMA PopBackSteps ==
  ASSUME RingInv, PopBack
  PROVE  Effect
<1>1. RingOrZero(deque) /\ call = Nothing /\ UNCHANGED <<read, write>>
      /\ deque.count > 0
  BY DEF PopBack, Becomes, RingInv
<1>2. deque' = Popped(deque, deque.head)
      /\ call' = [op |-> "pop_back", val |-> deque'.data[SlotIndex(deque, deque.count - 1)]]
  BY DEF PopBack, Becomes
<1>3. Curtailed(deque, deque')
  BY <1>1, <1>2, PopBackIs
<1>4. RingOrZero(deque') /\ deque'.data = deque.data /\ deque'.cap = deque.cap
  BY <1>3 DEF Curtailed, RingOrZero
<1>5. call' = [op |-> "pop_back", val |-> At(deque, deque.count - 1)] /\ ~ Erasing'
  BY <1>2, <1>4 DEF At, Erasing
<1>6. deque.cap \in Nat
  BY <1>1, RingShape
<1>7. RingInv' /\ Contents = View(deque, 0, 0) /\ Contents' = View(deque', 0, 0)
  BY <1>1, <1>4, <1>5, CallKeeps
<1>8. /\ View(deque, 0, 0) # <<>>
      /\ View(deque, 0, 0)[Len(View(deque, 0, 0))] = At(deque, deque.count - 1)
      /\ View(deque', 0, 0) = SubSeq(View(deque, 0, 0), 1, Len(View(deque, 0, 0)) - 1)
  BY <1>1, <1>3, CurtailedView
<1>9. Abstract!Next
  <2>1. /\ Contents # <<>> /\ Contents' = SubSeq(Contents, 1, Len(Contents) - 1)
        /\ call' = [op |-> "pop_back", val |-> Contents[Len(Contents)]]
    BY <1>5, <1>7, <1>8
  <2>2. Abstract!PopBack
    BY <1>1, <2>1 DEF Abstract!PopBack, Abstract!Call
  <2>3. QED
    BY <2>2 DEF Abstract!Next
<1>10. QED
  BY <1>4, <1>6, <1>7, <1>9 DEF Effect, GrowsFull

(* rki_deque_clear and rki_deque_release.                                     *)
LEMMA EmptiedSteps ==
  ASSUME RingInv, Clear \/ Release
  PROVE  Effect
<1>1. RingOrZero(deque) /\ call = Nothing /\ UNCHANGED <<read, write>>
      /\ call' \in {[op |-> "clear"], [op |-> "release"]} /\ deque.cap \in Nat
  BY RingShape DEF Clear, Release, Becomes, RingInv
<1>2. ~ Erasing'
  BY <1>1 DEF Erasing
<1>3. RingOrZero(deque') /\ View(deque', 0, 0) = <<>> /\ ~ (deque'.cap > deque.cap)
  <2>1. CASE Clear
    <3>1. deque' = Cleared(deque)
      BY <2>1 DEF Clear, Becomes
    <3>2. QED
      BY <1>1, <3>1, ClearedIs
  <2>2. CASE Release
    <3>1. deque' = ZeroDeque
      BY <2>2 DEF Release, Becomes
    <3>2. RingOrZero(deque')
      BY <3>1 DEF RingOrZero
    <3>3. deque'.count = 0 /\ deque'.cap = 0
      BY <3>1, <3>2, RingShape
    <3>4. View(deque', 0, 0) \in Seq(Vals) /\ Len(View(deque', 0, 0)) = 0
      BY <3>2, <3>3, WholeIs
    <3>5. View(deque', 0, 0) = <<>>
      BY <3>4, EmptySeq
    <3>6. QED
      BY <1>1, <3>2, <3>3, <3>5
  <2>3. QED
    BY <2>1, <2>2
<1>4. RingInv' /\ Contents' = View(deque', 0, 0)
  BY <1>1, <1>2, <1>3, CallKeeps
<1>5. Abstract!Next
  <2>1. Abstract!Clear
    BY <1>1, <1>3, <1>4 DEF Abstract!Clear, Abstract!Call
  <2>2. QED
    BY <2>1 DEF Abstract!Next
<1>6. QED
  BY <1>3, <1>4, <1>5 DEF Effect, GrowsFull

\* A new buffer of another size holds the same elements.
LEMMA ResizedSteps ==
  ASSUME RingInv, (\E n \in Requests : InitDeque(n) \/ Reserve(n)) \/ ShrinkToFit
  PROVE  Effect
<1>1. RingOrZero(deque) /\ call = Nothing /\ UNCHANGED <<read, write>>
      /\ deque.cap \in Nat
  BY RingShape DEF InitDeque, Reserve, ShrinkToFit, Becomes, RingInv
<1>2. \/ \E n \in Requests : \/ call' = [op |-> "init", n |-> n]
                             \/ call' = [op |-> "reserve", n |-> n]
      \/ call' = [op |-> "shrink"]
  BY DEF InitDeque, Reserve, ShrinkToFit, Becomes
<1>3. ~ Erasing'
  <2>1. call'.op # "erase_if"
    BY <1>2
  <2>2. QED
    BY <2>1 DEF Erasing
<1>4. RingOrZero(deque') /\ SameItems(deque, deque') /\ GrowsFull
  <2>1. ASSUME NEW n \in Requests, InitDeque(n)
        PROVE  RingOrZero(deque') /\ SameItems(deque, deque') /\ GrowsFull
    <3>1. n \in Nat /\ Possible(n) /\ deque = ZeroDeque /\ deque' = ReallocTo(deque, RoundCap(n))
      BY <2>1, DequeAssumption DEF InitDeque, Becomes
    <3>2. RoundCap(n) \in Powers /\ MinCap <= RoundCap(n)
      BY <3>1, RoundCapIs
    <3>3. deque.count <= RoundCap(n) /\ deque.cap = 0
      BY <1>1, <3>1, <3>2, RingShape, PowersAre
    <3>4. Ring(deque') /\ SameItems(deque, deque')
      BY <1>1, <3>1, <3>2, <3>3, ReallocIs
    <3>5. QED
      BY <3>3, <3>4 DEF RingOrZero, GrowsFull
  <2>2. ASSUME NEW n \in Requests, Reserve(n)
        PROVE  RingOrZero(deque') /\ SameItems(deque, deque') /\ GrowsFull
    <3>1. n \in Nat /\ (n <= deque.cap \/ Possible(n)) /\ deque' = Reserved(deque, n)
      BY <2>2, DequeAssumption DEF Reserve, Becomes
    <3>2. RingOrZero(deque') /\ SameItems(deque, deque') /\ (deque'.cap > deque.cap => n > deque.cap)
      BY <1>1, <3>1, ReservedIs
    <3>3. QED
      BY <2>2, <3>2 DEF GrowsFull
  <2>3. ASSUME ShrinkToFit
        PROVE  RingOrZero(deque') /\ SameItems(deque, deque') /\ GrowsFull
    <3>1. CASE deque.count = 0
      <4>1. deque' = ZeroDeque
        BY <2>3, <3>1 DEF ShrinkToFit, Becomes
      <4>2. RingOrZero(deque')
        BY <4>1 DEF RingOrZero
      <4>3. deque'.count = 0 /\ deque'.cap = 0
        BY <4>1, <4>2, RingShape
      <4>4. SameItems(deque, deque')
        BY <3>1, <4>3 DEF SameItems
      <4>5. QED
        BY <1>1, <4>2, <4>3, <4>4 DEF GrowsFull
    <3>2. CASE deque.count # 0
      <4>1. deque' = IF RoundCap(deque.count) = deque.cap THEN deque
                     ELSE ReallocTo(deque, RoundCap(deque.count))
        BY <2>3, <3>2 DEF ShrinkToFit, Becomes
      <4>2. Ring(deque') /\ SameItems(deque, deque') /\ deque'.cap <= deque.cap
        BY <1>1, <3>2, <4>1, ShrunkIs
      <4>3. RingOrZero(deque')
        BY <4>2 DEF RingOrZero
      <4>4. deque'.cap \in Nat
        BY <4>3, RingShape
      <4>5. QED
        BY <1>1, <4>2, <4>3, <4>4 DEF GrowsFull
    <3>3. QED
      BY <3>1, <3>2
  <2>4. QED
    BY <2>1, <2>2, <2>3
<1>5. RingInv' /\ Contents = View(deque, 0, 0) /\ Contents' = View(deque', 0, 0)
  BY <1>1, <1>3, <1>4, CallKeeps
<1>6. View(deque', 0, 0) = View(deque, 0, 0)
  BY <1>1, <1>4, SameView
<1>7. Abstract!Next
  <2>1. Contents' = Contents
    BY <1>5, <1>6
  <2>2. Abstract!Resize
    BY <1>1, <1>2, <2>1 DEF Abstract!Resize, Abstract!Call
  <2>3. QED
    BY <2>2 DEF Abstract!Next
<1>8. QED
  BY <1>4, <1>5, <1>7 DEF Effect

(* The return of a call.                                                      *)
LEMMA ReturnSteps ==
  ASSUME RingInv, Return
  PROVE  Effect
<1>1. /\ deque' = deque /\ read' = read /\ write' = write
      /\ call # Nothing /\ ~ Erasing /\ call' = Nothing
  BY DEF Return
<1>2. ~ Erasing'
  BY <1>1 DEF Erasing
<1>3. RingInv'
  BY <1>1, <1>2 DEF RingInv
<1>4. Contents' = Contents
  BY <1>1, ContentsIs
<1>5. Abstract!Return
  BY <1>1, <1>4 DEF Abstract!Return, Abstract!Erasing, Erasing
<1>6. Abstract!Next
  BY <1>5 DEF Abstract!Next
<1>7. deque.cap \in Nat
  BY RingShape DEF RingInv
<1>8. QED
  BY <1>1, <1>3, <1>6, <1>7 DEF Effect, GrowsFull

(* The beginning of deque_erase_if.                                           *)
LEMMA EraseStartSteps ==
  ASSUME RingInv, EraseStart
  PROVE  Effect
<1>1. /\ deque' = deque /\ read' = read /\ write' = write
      /\ call = Nothing /\ call' = [op |-> "erase_if"] /\ deque.count > 0
  BY DEF EraseStart, Becomes
<1>2. RingOrZero(deque) /\ read = 0 /\ write = 0
  BY <1>1 DEF RingInv, Erasing
<1>3. RingInv'
  BY <1>1, <1>2 DEF RingInv
<1>4. Contents' = Contents /\ Contents = View(deque, 0, 0)
  BY <1>1, <1>2, ContentsIs
<1>5. Contents # <<>>
  BY <1>1, <1>2, <1>4, WholeIs
<1>6. Abstract!EraseStart
  BY <1>1, <1>4, <1>5 DEF Abstract!EraseStart, Abstract!Call
<1>7. Abstract!Next
  BY <1>6 DEF Abstract!Next
<1>8. deque.cap \in Nat
  BY <1>2, RingShape
<1>9. QED
  BY <1>1, <1>3, <1>7, <1>8 DEF Effect, GrowsFull

\* The element that deque_erase_if looks at is the one after those it has kept.
LEMMA ShownIs ==
  ASSUME RingInv, Erasing, read < deque.count
  PROVE  write < Len(Contents) /\ Contents[write + 1] = At(deque, read)
<1>1. RingOrZero(deque) /\ deque.count \in Nat
  BY RingShape DEF RingInv
<1>2. read \in 0 .. deque.count /\ write \in 0 .. read /\ read \in Nat /\ write \in Nat
  BY <1>1 DEF RingInv
<1>3. /\ Len(View(deque, read, write)) = write + (deque.count - read)
      /\ \A i \in 1 .. (deque.count - read) :
           View(deque, read, write)[write + i] = At(deque, read + i - 1)
  BY <1>1, <1>2, ViewIs
<1>4. 1 \in 1 .. (deque.count - read) /\ read + 1 - 1 = read
  BY <1>1, <1>2
<1>5. View(deque, read, write)[write + 1] = At(deque, read)
  <2>1. View(deque, read, write)[write + 1] = At(deque, read + 1 - 1)
    BY <1>3, <1>4
  <2>2. QED
    BY <1>4, <2>1
<1>6. write < Len(View(deque, read, write))
  BY <1>1, <1>2, <1>3
<1>7. QED
  BY <1>5, <1>6, ContentsIs

(* One element read by deque_erase_if, and kept or dropped.                   *)
LEMMA EraseStepSteps ==
  ASSUME RingInv, NEW keep \in BOOLEAN, EraseStep(keep)
  PROVE  Effect
<1>1. /\ Erasing /\ read < deque.count /\ read' = read + 1
      /\ call' = [op |-> "erase_if", val |-> At(deque, read), keep |-> keep]
  BY DEF EraseStep
<1>2. RingOrZero(deque)
  BY DEF RingInv
<1>3. deque.count \in Nat /\ deque.cap \in Nat /\ Ring(deque)
  BY <1>1, <1>2, RingShape DEF RingInv
<1>4. read \in 0 .. (deque.count - 1) /\ write \in 0 .. read
  BY <1>1, <1>3 DEF RingInv
<1>5. Contents = View(deque, read, write) /\ Contents' = View(deque', read', write')
  BY ContentsIs
<1>6. /\ Abstract!Erasing /\ write < Len(Contents)
      /\ call' = [op |-> "erase_if", val |-> Contents[write + 1], keep |-> keep]
  BY <1>1, ShownIs DEF Abstract!Erasing, Erasing
<1>7. ~ (deque'.cap > deque.cap) /\ deque'.count > 0 /\ RingOrZero(deque')
      /\ write' \in 0 .. read' /\ read' \in 0 .. deque'.count
      /\ \/ keep /\ write' = write + 1 /\ Contents' = Contents
         \/ /\ ~ keep /\ write' = write
            /\ Contents' = SubSeq(Contents, 1, write)
                             \o SubSeq(Contents, write + 2, Len(Contents))
  <2>1. CASE keep
    <3>1. deque' = Kept(deque, read, write) /\ write' = write + 1
      BY <2>1 DEF EraseStep, Kept
    <3>2. Ring(deque') /\ deque'.cap = deque.cap /\ deque'.count = deque.count
      BY <1>3, <1>4, <3>1, KeptIs
    <3>3. View(deque', read + 1, write + 1) = View(deque, read, write)
      BY <1>3, <1>4, <3>1, KeptView
    <3>4. Contents' = Contents
      BY <1>1, <1>5, <3>1, <3>3
    <3>5. write' \in 0 .. read' /\ read' \in 0 .. deque'.count
      BY <1>1, <1>3, <1>4, <3>1, <3>2
    <3>6. deque'.count > 0 /\ ~ (deque'.cap > deque.cap) /\ RingOrZero(deque')
      BY <1>1, <1>3, <3>2 DEF RingInv, RingOrZero
    <3>7. QED
      BY <2>1, <3>1, <3>4, <3>5, <3>6
  <2>2. CASE ~ keep
    <3>1. deque' = deque /\ write' = write
      BY <2>2 DEF EraseStep
    <3>2. View(deque, read + 1, write)
            = SubSeq(Contents, 1, write) \o SubSeq(Contents, write + 2, Len(Contents))
      BY <1>3, <1>4, <1>5, DroppedView
    <3>3. Contents' = View(deque, read + 1, write)
      BY <1>1, <1>5, <3>1
    <3>4. write' \in 0 .. read' /\ read' \in 0 .. deque'.count
      BY <1>1, <1>3, <1>4, <3>1
    <3>5. deque'.count > 0 /\ ~ (deque'.cap > deque.cap) /\ RingOrZero(deque')
      BY <1>1, <1>2, <1>3, <3>1 DEF RingInv
    <3>6. QED
      BY <2>2, <3>1, <3>2, <3>3, <3>4, <3>5
  <2>3. QED
    BY <2>1, <2>2
<1>8. Erasing'
  <2>1. At(deque, read) \in Vals
    BY <1>2, <1>4, RingShape
  <2>2. call' \in [op : {"erase_if"}, val : Vals, keep : BOOLEAN] /\ call'.op = "erase_if"
    BY <1>1, <2>1
  <2>3. call' # Nothing
    BY <2>2, DequeAssumption
  <2>4. QED
    BY <2>2, <2>3 DEF Erasing
<1>9. RingInv'
  BY <1>7, <1>8 DEF RingInv
<1>10. Abstract!Erase(keep)
  BY <1>6, <1>7 DEF Abstract!Erase
<1>11. Abstract!Next
  BY <1>10 DEF Abstract!Next
<1>12. QED
  BY <1>7, <1>9, <1>11 DEF Effect, GrowsFull

(* The end of deque_erase_if, where the count becomes the number kept.        *)
LEMMA EraseEndSteps ==
  ASSUME RingInv, EraseEnd
  PROVE  Effect
<1>1. /\ Erasing /\ read = deque.count /\ read' = 0 /\ write' = 0
      /\ call' = Nothing /\ deque' = Compacted(deque, write)
  BY DEF EraseEnd, Compacted
<1>2. RingOrZero(deque)
  BY DEF RingInv
<1>3. deque.count \in Nat /\ deque.cap \in Nat /\ Ring(deque)
  BY <1>1, <1>2, RingShape DEF RingInv
<1>4. write \in 0 .. deque.count /\ write \in Nat
  BY <1>1, <1>3 DEF RingInv
<1>5. /\ Ring(deque') /\ deque'.cap = deque.cap /\ deque'.count = write
      /\ View(deque', 0, 0) = View(deque, deque.count, write)
  BY <1>1, <1>3, <1>4, CompactedIs
<1>6. Contents' = Contents /\ Contents = View(deque, deque.count, write)
  BY <1>1, <1>5, ContentsIs
<1>7. RingInv'
  <2>1. ~ Erasing'
    BY <1>1 DEF Erasing
  <2>2. RingOrZero(deque')
    BY <1>5 DEF RingOrZero
  <2>3. write' \in 0 .. read' /\ read' \in 0 .. deque'.count
    BY <1>1, <1>4, <1>5
  <2>4. QED
    BY <1>1, <2>1, <2>2, <2>3 DEF RingInv
<1>8. Abstract!EraseEnd
  <2>1. deque.count \in 0 .. deque.count /\ write + (deque.count - deque.count) = write
    BY <1>3, <1>4
  <2>2. Len(View(deque, deque.count, write)) = write
    BY <1>2, <1>4, <2>1, ViewIs
  <2>3. QED
    BY <1>1, <1>6, <2>2 DEF Abstract!EraseEnd, Abstract!Erasing, Erasing
<1>9. Abstract!Next
  BY <1>8 DEF Abstract!Next
<1>10. QED
  BY <1>3, <1>5, <1>7, <1>9 DEF Effect, GrowsFull

(* Every step of the specification, or a stutter, has the effect the theorems *)
(* need.                                                                      *)
LEMMA EveryStep ==
  ASSUME RingInv, [Next]_vars
  PROVE  Effect
<1>1. CASE UNCHANGED vars
  <2>1. deque' = deque /\ read' = read /\ write' = write /\ call' = call
    BY <1>1 DEF vars
  <2>2. RingInv'
    BY <2>1 DEF RingInv, Erasing
  <2>3. Contents' = Contents
    BY <2>1, ContentsIs
  <2>4. deque.cap \in Nat
    BY RingShape DEF RingInv
  <2>5. QED
    BY <2>1, <2>2, <2>3, <2>4 DEF Effect, GrowsFull
<1>2. CASE Next
  BY <1>2, PushBackSteps, PushFrontSteps, PushBackNSteps, PushFrontNSteps,
     AssignSteps, PopFrontSteps, PopBackSteps, EmptiedSteps, ResizedSteps,
     ReturnSteps, EraseStartSteps, EraseStepSteps, EraseEndSteps DEF Next
<1>3. QED
  BY <1>1, <1>2

-----------------------------------------------------------------------------
\* The invariant holds of every reachable state.
THEOREM DequeInvariant == Spec => []RingInv
<1>1. Init => RingInv
  BY InitRing
<1>2. RingInv /\ [Next]_vars => RingInv'
  BY EveryStep DEF Effect
<1>3. QED
  BY <1>1, <1>2, PTL DEF Spec

\* RKI_DequeBase: through every push, pop, growth, shrinking and deque_erase_if
\* the ring fits its buffer and the buffer is a power of two.
THEOREM DequeRingOK == Spec => []RingOK
<1>1. RingInv => RingOK
  <2>1. SUFFICES ASSUME RingInv
                 PROVE  RingOK
    OBVIOUS
  <2>2. \/ deque = ZeroDeque
        \/ /\ deque.cap \in Powers
           /\ deque.data \in [0 .. (deque.cap - 1) -> Vals \cup {Junk}]
           /\ deque.head \in 0 .. (deque.cap - 1)
           /\ deque.count \in 0 .. deque.cap
    BY <2>1 DEF RingInv, RingOrZero, Ring
  <2>3. QED
    BY <2>1, <2>2 DEF RingInv, RingOK
<1>2. QED
  BY <1>1, DequeInvariant, PTL

\* rki_deque_grow_one and rki_deque_reserve: a buffer is replaced by a larger
\* one only when what is asked of it does not fit.
THEOREM DequeGrowsOnlyWhenFull == Spec => GrowsOnlyWhenFull
<1>1. RingInv /\ [Next]_vars => GrowsFull
  BY EveryStep DEF Effect
<1>2. RingInv /\ [Next]_vars
        => [deque.cap # 0 /\ deque'.cap > deque.cap
              => deque'.count > deque.cap
                 \/ \E n \in Requests : n > deque.cap /\ Reserve(n)]_vars
  BY <1>1 DEF GrowsFull
<1>3. QED
  BY <1>2, DequeInvariant, PTL DEF Spec, GrowsOnlyWhenFull

\* rk_deque.h is a queue with two ends: each call changes the sequence as its name
\* and arguments say, a pop gives the element at its end, and deque_erase_if shows
\* the elements in order and takes out exactly those its predicate holds of.
THEOREM DequeImplementsQueue == Spec => ImplementsQueue
<1>1. Init => Abstract!Init
  BY InitRing DEF Init, Abstract!Init
<1>2. RingInv /\ [Next]_vars => [Abstract!Next]_(Abstract!vars)
  BY EveryStep DEF Effect, Abstract!vars
<1>3. QED
  BY <1>1, <1>2, DequeInvariant, PTL DEF Spec, ImplementsQueue, Abstract!Spec
=============================================================================
