------------------------------ MODULE PoolProofs -----------------------------
(***************************************************************************)
(* For every word size, capacity and content: the elements of a pool are   *)
(* given to one client at a time and keep what is stored in them, and the  *)
(* loop of pool_erase_if visits each element once while it frees some.     *)
(* For every word size and size of bitsets: the operations of rk_bitset.h, *)
(* which the pool is built from, make of each the set they are meant to.   *)
(***************************************************************************)
EXTENDS Pool, Bitset, NatFacts

-----------------------------------------------------------------------------
(* Words and positions *)

\* A position in a bitset has one word and one place in it.
LEMMA Place ==
  ASSUME NEW w \in Int, NEW b \in Word
  PROVE  /\ W * w + b \in Int /\ b \in Nat /\ b < W
         /\ (W * w + b) \div W = w /\ (W * w + b) % W = b
<1>1. W \in Nat \ {0} /\ b \in 0 .. (W - 1)
  BY BitsetOpsAssumption DEF Word
<1>2. QED
  BY <1>1, QuotientUnique

\* The word of a bit position and its place in the word.
LEMMA PlaceOf ==
  ASSUME NEW i \in Int
  PROVE  i \div W \in Int /\ i % W \in Word /\ i = W * (i \div W) + (i % W)
BY BitsetOpsAssumption, DivMod DEF Word

\* The words of a bitset do not overlap.
LEMMA TimesGrows ==
  ASSUME NEW a \in Int, NEW b \in Int, a < b
  PROVE  W * a + W <= W * b
<1>1. PICK d \in Nat : b = a + 1 + d
  <2>1. b - a - 1 \in Nat /\ b = a + 1 + (b - a - 1)
    OBVIOUS
  <2>2. QED
    BY <2>1
<1>2. W \in Nat /\ W * d \in Nat
  BY BitsetOpsAssumption
<1>3. W * (a + 1 + d) = W * a + W + W * d
  BY <1>2
<1>4. W * a \in Int
  BY <1>2
<1>5. QED
  BY <1>1, <1>2, <1>3, <1>4

\* The number of words, and how many bits the last one has.
LEMMA WordsIs ==
  ASSUME NEW n \in Nat
  PROVE  /\ n \div W \in Nat /\ Rest(n) \in 0 .. (W - 1) /\ n = W * (n \div W) + Rest(n)
         /\ Words(n) = IF Rest(n) = 0 THEN n \div W ELSE n \div W + 1
<1> DEFINE q == n \div W
           r == n % W
<1>1. W \in Nat \ {0}
  BY BitsetOpsAssumption
<1>2. q \in Int /\ r \in 0 .. (W - 1) /\ n = W * q + r
  BY <1>1, DivMod
<1>3. q >= 0
  <2>1. SUFFICES ASSUME q < 0
                 PROVE  FALSE
    BY <1>2
  <2> HIDE DEF q, r
  <2>2. W * q + W <= W * 0
    BY <1>2, <2>1, TimesGrows
  <2>3. QED
    BY <1>1, <1>2, <2>2
<1>4. CASE r = 0
  <2> HIDE DEF q, r
  <2>1. n + W - 1 = W * q + (W - 1)
    BY <1>1, <1>2, <1>4
  <2>2. W - 1 \in 0 .. (W - 1)
    BY <1>1
  <2>3. (W * q + (W - 1)) \div W = q
    BY <1>1, <1>2, <2>2, QuotientUnique
  <2>4. Words(n) = q
    BY <2>1, <2>3 DEF Words
  <2>5. QED
    BY <1>2, <1>3, <1>4, <2>4 DEF Rest, q, r
<1>5. CASE r # 0
  <2> HIDE DEF q, r
  <2>1. n + W - 1 = W * (q + 1) + (r - 1)
    BY <1>1, <1>2
  <2>2. r - 1 \in 0 .. (W - 1) /\ q + 1 \in Int
    BY <1>1, <1>2, <1>5
  <2>3. (W * (q + 1) + (r - 1)) \div W = q + 1
    BY <1>1, <2>2, QuotientUnique
  <2>4. Words(n) = q + 1
    BY <2>1, <2>3 DEF Words
  <2>5. QED
    BY <1>2, <1>3, <1>5, <2>4 DEF Rest, q, r
<1>6. QED
  BY <1>4, <1>5

\* A place of a word is valid if its position is below the size.
LEMMA ValidIs ==
  ASSUME NEW n \in Nat, NEW w \in Indices(n)
  PROVE  /\ Valid(n, w) \subseteq Word
         /\ \A b \in Word : b \in Valid(n, w) <=> W * w + b < n
<1> DEFINE q == n \div W
           r == Rest(n)
<1>1. W \in Nat \ {0} /\ w \in Int /\ 0 <= w /\ w < Words(n)
  <2>1. Words(n) \in Int /\ w \in 0 .. (Words(n) - 1)
    BY WordsIs DEF Indices
  <2>2. QED
    BY <2>1, BitsetOpsAssumption
<1>2. /\ q \in Nat /\ r \in 0 .. (W - 1) /\ n = W * q + r
      /\ Words(n) = IF r = 0 THEN q ELSE q + 1
  BY WordsIs
<1> HIDE DEF q, r
<1>3. CASE w < q
  <2>1. Valid(n, w) = Word
    BY <1>1, <1>2, <1>3 DEF Valid, r
  <2>2. W * w + W <= W * q
    BY <1>1, <1>2, <1>3, TimesGrows
  <2>3. W * w \in Int /\ W * q \in Int
    BY <1>1, <1>2
  <2>4. \A b \in Word : W * w + b < n
    BY <1>1, <1>2, <2>2, <2>3 DEF Word
  <2>5. QED
    BY <2>1, <2>4
<1>4. CASE w = q
  <2>1. r # 0 /\ w = Words(n) - 1
    BY <1>1, <1>2, <1>4
  <2>2. Valid(n, w) = 0 .. (r - 1)
    BY <2>1 DEF Valid, r
  <2>3. W * w \in Int /\ n = W * w + r
    BY <1>1, <1>2, <1>4
  <2>4. \A b \in 0 .. (W - 1) : b \in 0 .. (r - 1) <=> W * w + b < n
    BY <1>1, <1>2, <2>3
  <2>5. 0 .. (r - 1) \subseteq 0 .. (W - 1)
    BY <1>1, <1>2
  <2>6. QED
    BY <2>2, <2>4, <2>5 DEF Word
<1>5. QED
  BY <1>1, <1>2, <1>3, <1>4

\* A position below the size lies in one of the words.
LEMMA PlaceIn ==
  ASSUME NEW n \in Nat, NEW i \in 0 .. (n - 1)
  PROVE  i \div W \in Indices(n) /\ i % W \in Word /\ i = W * (i \div W) + (i % W)
<1> DEFINE q == i \div W
           r == i % W
<1>1. W \in Nat \ {0} /\ q \in Int /\ r \in Word /\ i = W * q + r
  BY BitsetOpsAssumption, PlaceOf
<1>2. n \div W \in Nat /\ Words(n) \in Nat /\ Words(n) >= n \div W /\ n <= W * Words(n)
  <2> DEFINE p == n \div W
  <2>1. /\ p \in Nat /\ Rest(n) \in 0 .. (W - 1) /\ n = W * p + Rest(n)
        /\ Words(n) = IF Rest(n) = 0 THEN p ELSE p + 1
    BY WordsIs
  <2> HIDE DEF p
  <2>2. CASE Rest(n) = 0
    BY <1>1, <2>1, <2>2 DEF p
  <2>3. CASE Rest(n) # 0
    <3>1. W * (p + 1) = W * p + W /\ W * p \in Nat
      BY <1>1, <2>1
    <3>2. QED
      BY <1>1, <2>1, <2>3, <3>1 DEF p
  <2>4. QED
    BY <2>2, <2>3
<1> HIDE DEF q, r
<1>3. q >= 0
  <2>1. SUFFICES ASSUME q < 0
                 PROVE  FALSE
    BY <1>1
  <2>2. W * q + W <= W * 0
    BY <1>1, <2>1, TimesGrows
  <2>3. QED
    BY <1>1, <2>2 DEF Word
<1>4. q < Words(n)
  <2>1. SUFFICES ASSUME Words(n) < q \/ Words(n) = q
                 PROVE  FALSE
    BY <1>1, <1>2
  <2>2. W * Words(n) <= W * q
    BY <1>1, <1>2, <2>1, TimesGrows
  <2>3. W * q \in Int /\ W * Words(n) \in Int
    BY <1>1, <1>2
  <2>4. QED
    BY <1>1, <1>2, <2>2, <2>3 DEF Word
<1>5. QED
  BY <1>1, <1>2, <1>3, <1>4 DEF Indices, q, r

-----------------------------------------------------------------------------
(* The set of positions that a bitset stands for *)

\* A position is set when the word it lies in has its bit.
LEMMA BitsOfIs ==
  ASSUME NEW n \in Nat, NEW bs \in Bitsets(n)
  PROVE  /\ DOMAIN bs = Indices(n)
         /\ \A w \in Indices(n) : w \in Nat /\ bs[w] \subseteq Word
         /\ BitsOf(bs) \subseteq Nat
         /\ \A i \in Int : i \in BitsOf(bs) <=> i \div W \in Indices(n) /\ i % W \in bs[i \div W]
<1>1. DOMAIN bs = Indices(n) /\ \A w \in Indices(n) : bs[w] \subseteq Word
  BY DEF Bitsets
<1>2. W \in Nat /\ Words(n) \in Nat
  <2>1. Words(n) \in Nat
    BY WordsIs
  <2>2. QED
    BY <2>1, BitsetOpsAssumption
<1>3. \A w \in Indices(n) : w \in Nat
  BY <1>2 DEF Indices
<1>4. \A w \in Indices(n) : \A b \in bs[w] : W * w + b \in Nat
  BY <1>1, <1>2, <1>3 DEF Word
<1>5. \A i : i \in BitsOf(bs) <=> \E w \in Indices(n) : \E b \in bs[w] : i = W * w + b
  BY <1>1 DEF BitsOf
<1>6. ASSUME NEW i \in Int, i \in BitsOf(bs)
      PROVE  i \div W \in Indices(n) /\ i % W \in bs[i \div W]
  <2>1. PICK w \in Indices(n) : \E b \in bs[w] : i = W * w + b
    BY <1>5, <1>6
  <2>2. PICK b \in bs[w] : i = W * w + b
    BY <2>1
  <2>3. w \in Int /\ b \in Word
    BY <1>1, <1>3
  <2>4. QED
    BY <2>2, <2>3, Place
<1>7. ASSUME NEW i \in Int, i \div W \in Indices(n), i % W \in bs[i \div W]
      PROVE  i \in BitsOf(bs)
  <2>1. i = W * (i \div W) + (i % W)
    BY PlaceOf
  <2>2. QED
    BY <1>5, <1>7, <2>1
<1>8. QED
  BY <1>1, <1>3, <1>4, <1>5, <1>6, <1>7

\* Two positions are the same if they are in the same place of the same word.
LEMMA SamePlace ==
  ASSUME NEW i \in Int, NEW j \in Int, i \div W = j \div W, i % W = j % W
  PROVE  i = j
<1>1. i = W * (i \div W) + (i % W) /\ j = W * (j \div W) + (j % W)
  BY PlaceOf
<1>2. QED
  BY <1>1

\* bitset_set
LEMMA SetBitIs ==
  ASSUME NEW n \in Nat, NEW bs \in Bitsets(n), NEW s \in 0 .. (n - 1)
  PROVE  SetBit(bs, s) \in Bitsets(n) /\ BitsOf(SetBit(bs, s)) = BitsOf(bs) \cup {s}
<1> DEFINE new == SetBit(bs, s)
<1>1. s \in Nat /\ s \div W \in Indices(n) /\ s % W \in Word
  BY PlaceIn
<1>2. new = [bs EXCEPT ![s \div W] = bs[s \div W] \cup {s % W}]
  BY DEF SetBit
<1>3. new \in Bitsets(n)
  BY <1>1, <1>2 DEF Bitsets
<1> HIDE DEF new
<1>4. ASSUME NEW i \in Int
      PROVE  i \in BitsOf(new) <=> i \in BitsOf(bs) \/ i = s
  <2>1. i \in BitsOf(new) <=> i \div W \in Indices(n) /\ i % W \in new[i \div W]
    BY <1>3, BitsOfIs
  <2>2. i \in BitsOf(bs) <=> i \div W \in Indices(n) /\ i % W \in bs[i \div W]
    BY BitsOfIs
  <2>3. DOMAIN bs = Indices(n)
    BY BitsOfIs
  <2>4. i = s <=> i \div W = s \div W /\ i % W = s % W
    BY <1>1, SamePlace
  <2>5. QED
    BY <1>1, <1>2, <2>1, <2>2, <2>3, <2>4
<1>5. BitsOf(new) \subseteq Int /\ BitsOf(bs) \subseteq Int
  BY <1>3, BitsOfIs
<1>6. BitsOf(new) = BitsOf(bs) \cup {s}
  BY <1>1, <1>4, <1>5
<1>7. QED
  BY <1>3, <1>6 DEF new

\* bitset_clear
LEMMA ClearBitIs ==
  ASSUME NEW n \in Nat, NEW bs \in Bitsets(n), NEW s \in 0 .. (n - 1)
  PROVE  ClearBit(bs, s) \in Bitsets(n) /\ BitsOf(ClearBit(bs, s)) = BitsOf(bs) \ {s}
<1> DEFINE new == ClearBit(bs, s)
<1>1. s \in Nat /\ s \div W \in Indices(n) /\ s % W \in Word
  BY PlaceIn
<1>2. new = [bs EXCEPT ![s \div W] = bs[s \div W] \ {s % W}]
  BY DEF ClearBit
<1>3. new \in Bitsets(n)
  BY <1>1, <1>2 DEF Bitsets
<1> HIDE DEF new
<1>4. ASSUME NEW i \in Int
      PROVE  i \in BitsOf(new) <=> i \in BitsOf(bs) /\ i # s
  <2>1. i \in BitsOf(new) <=> i \div W \in Indices(n) /\ i % W \in new[i \div W]
    BY <1>3, BitsOfIs
  <2>2. i \in BitsOf(bs) <=> i \div W \in Indices(n) /\ i % W \in bs[i \div W]
    BY BitsOfIs
  <2>3. DOMAIN bs = Indices(n)
    BY BitsOfIs
  <2>4. i = s <=> i \div W = s \div W /\ i % W = s % W
    BY <1>1, SamePlace
  <2>5. QED
    BY <1>1, <1>2, <2>1, <2>2, <2>3, <2>4
<1>5. BitsOf(new) \subseteq Int /\ BitsOf(bs) \subseteq Int
  BY <1>3, BitsOfIs
<1>6. BitsOf(new) = BitsOf(bs) \ {s}
  BY <1>1, <1>4, <1>5
<1>7. QED
  BY <1>3, <1>6 DEF new

\* bitset_clear_all
LEMMA ClearAllIs ==
  ASSUME NEW n \in Nat
  PROVE  ClearAll(n) \in Bitsets(n) /\ BitsOf(ClearAll(n)) = {}
BY DEF ClearAll, Bitsets, BitsOf

\* A bitset without words has no bits.
LEMMA NoWords ==
  /\ Words(0) = 0 /\ Indices(0) = {} /\ <<>> \in Bitsets(0) /\ BitsOf(<<>>) = {}
<1>1. 0 \div W = 0
  <2>1. W \in Nat \ {0} /\ 0 \in Int /\ 0 \in 0 .. (W - 1)
    BY BitsetOpsAssumption
  <2>2. (W * 0 + 0) \div W = 0
    BY <2>1, QuotientUnique
  <2>3. QED
    BY <2>1, <2>2
<1>2. Words(0) = 0
  <2>1. /\ Rest(0) \in 0 .. (W - 1) /\ 0 = W * 0 + Rest(0)
        /\ Words(0) = IF Rest(0) = 0 THEN 0 ELSE 1
    BY <1>1, WordsIs
  <2>2. QED
    BY <2>1, BitsetOpsAssumption
<1>3. Indices(0) = {}
  BY <1>2 DEF Indices
<1>4. <<>> \in Bitsets(0)
  BY <1>3 DEF Bitsets
<1>5. QED
  BY <1>2, <1>3, <1>4 DEF BitsOf

\* The least of some naturals.
LEMMA MinIs ==
  ASSUME NEW S, S \subseteq Nat, S # {}
  PROVE  Min(S) \in S /\ \A x \in S : Min(S) <= x
BY LeastExists DEF Min

\* bitset_first_trailing_zero: a position that is not set, or none if all are.
LEMMA FirstZeroIs ==
  ASSUME NEW n \in Nat, NEW bs \in Bitsets(n)
  PROVE  LET f == FirstTrailingZero(bs, n)
         IN  /\ f = 0 => 0 .. (n - 1) \subseteq BitsOf(bs)
             /\ f # 0 => f - 1 \in 0 .. (n - 1) /\ f - 1 \notin BitsOf(bs) /\ f \in Int
<1> DEFINE found == {w \in Indices(n) : Valid(n, w) \ bs[w] # {}}
           w == Min(found)
           free == Valid(n, w) \ bs[w]
           f == FirstTrailingZero(bs, n)
<1>1. W \in Nat \ {0} /\ \A v \in Indices(n) : v \in Nat
  BY BitsetOpsAssumption, BitsOfIs
<1>2. CASE found = {}
  <2>1. f = 0
    BY <1>2 DEF FirstTrailingZero
  <2>2. ASSUME NEW i \in 0 .. (n - 1)
        PROVE  i \in BitsOf(bs)
    <3>1. i \div W \in Indices(n) /\ i % W \in Word /\ i = W * (i \div W) + (i % W) /\ i \in Int
      BY PlaceIn
    <3>2. i % W \in Valid(n, i \div W)
      BY <3>1, ValidIs
    <3>3. i % W \in bs[i \div W]
      BY <1>2, <3>1, <3>2
    <3>4. QED
      BY <3>1, <3>3, BitsOfIs
  <2>3. QED
    BY <2>1, <2>2
<1>3. CASE found # {}
  <2>1. w \in found
    BY <1>1, <1>3, MinIs
  <2>2. w \in Indices(n) /\ free # {}
    BY <2>1
  <2>3. f = (Min(free) + 1) + W * w
    BY <1>3, <2>2 DEF FirstTrailingZero, TrailingOne
  <2> HIDE DEF found, w
  <2>4. free \subseteq Word /\ free \subseteq Nat /\ w \in Nat
    BY <1>1, <2>2, ValidIs DEF Word
  <2> DEFINE b == Min(free)
  <2>5. b \in free
    BY <2>2, <2>4, MinIs
  <2> HIDE DEF f, b
  <2>6. b \in Word /\ b \in Nat /\ b \in Valid(n, w) /\ b \notin bs[w]
    BY <2>4, <2>5
  <2>7. W * w + b < n
    BY <2>2, <2>6, ValidIs
  <2>8. W * w \in Nat
    BY <1>1, <2>4
  <2>9. f - 1 = W * w + b /\ f # 0 /\ f \in Int /\ f - 1 \in 0 .. (n - 1)
    BY <2>3, <2>6, <2>7, <2>8 DEF b
  <2>10. (W * w + b) \div W = w /\ (W * w + b) % W = b /\ W * w + b \in Int
    BY <2>4, <2>6, Place
  <2>11. f - 1 \notin BitsOf(bs)
    BY <2>6, <2>9, <2>10, BitsOfIs
  <2>12. QED
    BY <2>9, <2>11 DEF f
<1>4. QED
  BY <1>2, <1>3

-----------------------------------------------------------------------------
(* The number of positions *)

\* The positions in the words s.
BitsIn(bs, s) == {i \in BitsOf(bs) : i \div W \in s}

\* Only finitely many positions are set.
LEMMA BitsFinite ==
  ASSUME NEW n \in Nat, NEW bs \in Bitsets(n)
  PROVE  IsFiniteSet(BitsOf(bs)) /\ IsFiniteSet(Indices(n))
<1>1. W \in Nat \ {0} /\ Words(n) \in Nat
  <2>1. Words(n) \in Nat
    BY WordsIs
  <2>2. QED
    BY <2>1, BitsetOpsAssumption
<1>2. BitsOf(bs) \subseteq 0 .. W * Words(n)
  <2>1. SUFFICES ASSUME NEW i \in BitsOf(bs)
                 PROVE  i \in 0 .. W * Words(n)
    OBVIOUS
  <2>2. i \in Nat /\ i \div W \in Indices(n) /\ i % W \in Word /\ i = W * (i \div W) + (i % W)
    BY BitsOfIs, PlaceOf
  <2> DEFINE q == i \div W
  <2>3. q \in Int /\ q < Words(n)
    BY <1>1, <2>2 DEF Indices
  <2> HIDE DEF q
  <2>4. W * q + W <= W * Words(n)
    BY <1>1, <2>3, TimesGrows
  <2>5. W * q \in Int /\ W * Words(n) \in Nat
    BY <1>1, <2>3
  <2>6. i = W * q + (i % W) /\ i % W < W /\ i % W \in Nat
    BY <1>1, <2>2 DEF Word, q
  <2>7. QED
    BY <1>1, <2>2, <2>4, <2>5, <2>6
<1>3. IsFiniteSet(0 .. W * Words(n)) /\ IsFiniteSet(Indices(n))
  <2>1. W * Words(n) \in Int /\ Words(n) - 1 \in Int /\ 0 \in Int
    BY <1>1
  <2>2. QED
    BY <2>1, FS_Interval DEF Indices
<1>4. QED
  BY <1>2, <1>3, FS_Subset

\* A word has as many bits as there are positions in it.
LEMMA OneWord ==
  ASSUME NEW n \in Nat, NEW bs \in Bitsets(n), NEW w \in Indices(n)
  PROVE  Cardinality(BitsIn(bs, {w})) = Cardinality(bs[w])
<1> DEFINE f == [b \in bs[w] |-> W * w + b]
           T == BitsIn(bs, {w})
<1>1. w \in Int /\ bs[w] \subseteq Word
  BY BitsOfIs
<1>2. \A b \in bs[w] : (W * w + b) \div W = w /\ (W * w + b) % W = b /\ W * w + b \in Int
  BY <1>1, Place
<1>3. \A b \in bs[w] : W * w + b \in T
  BY <1>1, <1>2, BitsOfIs DEF BitsIn
<1>4. \A i \in T : i % W \in bs[w] /\ i = W * w + (i % W)
  <2>1. SUFFICES ASSUME NEW i \in T
                 PROVE  i % W \in bs[w] /\ i = W * w + (i % W)
    OBVIOUS
  <2>2. i \in BitsOf(bs) /\ i \div W = w /\ i \in Int
    BY BitsOfIs DEF BitsIn
  <2>3. QED
    BY <2>2, BitsOfIs, PlaceOf
<1>5. f \in Surjection(bs[w], T)
  <2>1. f \in [bs[w] -> T]
    BY <1>3
  <2>2. \A i \in T : \E b \in bs[w] : f[b] = i
    BY <1>4
  <2>3. QED
    BY <2>1, <2>2 DEF Surjection
<1>6. f \in Injection(bs[w], T)
  <2>1. f \in [bs[w] -> T]
    BY <1>3
  <2>2. \A b, c \in bs[w] : f[b] = f[c] => b = c
    BY <1>2
  <2>3. QED
    BY <2>1, <2>2 DEF Injection, IsInjective
<1>7. IsFiniteSet(bs[w])
  <2>1. W - 1 \in Int /\ 0 \in Int
    BY BitsetOpsAssumption
  <2>2. IsFiniteSet(Word)
    BY <2>1, FS_Interval DEF Word
  <2>3. QED
    BY <1>1, <2>2, FS_Subset
<1>8. QED
  <2> HIDE DEF f, T
  <2>1. Cardinality(T) = Cardinality(bs[w])
    BY <1>5, <1>6, <1>7, FS_Surjection
  <2>2. QED
    BY <2>1 DEF T

\* A sum over the words: that of no words, or that of all but one and the bits of
\* that one.
SumsUp(bs, f) ==
  f = [s \in SUBSET (DOMAIN bs) |->
         IF s = {} THEN 0
         ELSE Cardinality(bs[CHOOSE w \in s : TRUE]) + f[s \ {CHOOSE w \in s : TRUE}]]

\* The positions counted word by word solve the recursion of SumsUp.
LEMMA BitsSumUp ==
  ASSUME NEW n \in Nat, NEW bs \in Bitsets(n)
  PROVE  SumsUp(bs, [s \in SUBSET (DOMAIN bs) |-> Cardinality(BitsIn(bs, s))])
<1> DEFINE g == [s \in SUBSET (DOMAIN bs) |-> Cardinality(BitsIn(bs, s))]
<1>1. DOMAIN bs = Indices(n) /\ IsFiniteSet(BitsOf(bs))
  BY BitsOfIs, BitsFinite
<1>2. ASSUME NEW s \in SUBSET (DOMAIN bs)
      PROVE  g[s] = IF s = {} THEN 0
                    ELSE Cardinality(bs[CHOOSE w \in s : TRUE]) + g[s \ {CHOOSE w \in s : TRUE}]
  <2>1. CASE s = {}
    <3>1. BitsIn(bs, s) = {}
      BY <2>1 DEF BitsIn
    <3>2. QED
      BY <2>1, <3>1, FS_EmptySet
  <2>2. CASE s # {}
    <3> DEFINE w == CHOOSE v \in s : TRUE
               A == BitsIn(bs, {w})
               B == BitsIn(bs, s \ {w})
    <3>1. w \in s
      BY <2>2
    <3>2. g[s] = Cardinality(BitsIn(bs, s)) /\ g[s \ {w}] = Cardinality(B)
      OBVIOUS
    <3> HIDE DEF w, g
    <3>3. BitsIn(bs, s) = A \cup B /\ A \cap B = {} /\ A \subseteq BitsOf(bs) /\ B \subseteq BitsOf(bs)
      BY <3>1 DEF BitsIn
    <3> HIDE DEF A, B
    <3>4. IsFiniteSet(A) /\ IsFiniteSet(B)
      BY <1>1, <3>3, FS_Subset
    <3>5. Cardinality(A \cup B) = Cardinality(A) + Cardinality(B)
      <4>1. Cardinality(A \cup B) = Cardinality(A) + Cardinality(B) - Cardinality(A \cap B)
        BY <3>4, FS_Union
      <4>2. Cardinality(A \cap B) = 0
        BY <3>3, FS_EmptySet
      <4>3. Cardinality(A) \in Nat /\ Cardinality(B) \in Nat
        BY <3>4, FS_CardinalityType
      <4>4. QED
        BY <4>1, <4>2, <4>3
    <3>6. Cardinality(A) = Cardinality(bs[w])
      BY <1>1, <3>1, OneWord DEF A
    <3>7. QED
      BY <2>2, <3>2, <3>3, <3>5, <3>6 DEF w
  <2>3. QED
    BY <2>1, <2>2
<1>3. g = [s \in SUBSET (DOMAIN bs) |->
             IF s = {} THEN 0
             ELSE Cardinality(bs[CHOOSE w \in s : TRUE]) + g[s \ {CHOOSE w \in s : TRUE}]]
  BY <1>2
<1>4. QED
  BY <1>3 DEF SumsUp

\* There is one such sum.
LEMMA OneSum ==
  ASSUME NEW bs, IsFiniteSet(DOMAIN bs), NEW f, NEW g, SumsUp(bs, f), SumsUp(bs, g)
  PROVE  f[DOMAIN bs] = g[DOMAIN bs]
<1> DEFINE S == SUBSET (DOMAIN bs)
           Bad == {k \in Nat : \E s \in S : Cardinality(s) = k /\ f[s] # g[s]}
<1>1. ASSUME NEW s \in S
      PROVE  /\ s = {} => f[s] = 0 /\ g[s] = 0
             /\ s # {} => \E w \in s : /\ f[s] = Cardinality(bs[w]) + f[s \ {w}]
                                       /\ g[s] = Cardinality(bs[w]) + g[s \ {w}]
  <2>1. s # {} => (CHOOSE w \in s : TRUE) \in s
    OBVIOUS
  <2>2. /\ f[s] = IF s = {} THEN 0
                  ELSE Cardinality(bs[CHOOSE w \in s : TRUE]) + f[s \ {CHOOSE w \in s : TRUE}]
        /\ g[s] = IF s = {} THEN 0
                  ELSE Cardinality(bs[CHOOSE w \in s : TRUE]) + g[s \ {CHOOSE w \in s : TRUE}]
    BY DEF SumsUp
  <2>3. QED
    BY <2>1, <2>2
<1>2. \A s \in S : IsFiniteSet(s) /\ Cardinality(s) \in Nat
  BY FS_Subset, FS_CardinalityType
<1>3. ASSUME Bad # {}
      PROVE  FALSE
  <2>1. PICK k \in Bad : \A e \in Bad : k <= e
    BY <1>3, LeastExists
  <2>2. PICK s \in S : Cardinality(s) = k /\ f[s] # g[s]
    BY <2>1
  <2> HIDE DEF S
  <2>3. s # {}
    BY <1>1, <2>2
  <2>4. PICK w \in s : /\ f[s] = Cardinality(bs[w]) + f[s \ {w}]
                       /\ g[s] = Cardinality(bs[w]) + g[s \ {w}]
    BY <1>1, <2>3
  <2>5. Cardinality(s \ {w}) = Cardinality(s) - 1
    BY <1>2, <2>4, FS_RemoveElement
  <2>6. s \ {w} \in S /\ f[s \ {w}] # g[s \ {w}]
    BY <2>2, <2>4 DEF S
  <2>7. Cardinality(s \ {w}) \in Bad /\ Cardinality(s \ {w}) < k /\ k \in Nat
    BY <1>2, <2>1, <2>2, <2>5, <2>6
  <2>8. QED
    BY <1>2, <2>1, <2>6, <2>7
<1>4. QED
  BY <1>2, <1>3

\* bitset_count_ones
LEMMA CountIs ==
  ASSUME NEW n \in Nat, NEW bs \in Bitsets(n)
  PROVE  CountOnes(bs) = Cardinality(BitsOf(bs))
<1> DEFINE g == [s \in SUBSET (DOMAIN bs) |-> Cardinality(BitsIn(bs, s))]
           h == CHOOSE f : SumsUp(bs, f)
<1>1. SumsUp(bs, g) /\ IsFiniteSet(DOMAIN bs)
  BY BitsSumUp, BitsFinite, BitsOfIs
<1> HIDE DEF g
<1>2. SumsUp(bs, h)
  BY <1>1
<1>3. CountOnes(bs) = h[DOMAIN bs]
  BY DEF CountOnes, MapThenSumSet, MapThenFoldSet, SumsUp
<1> HIDE DEF h
<1>4. CountOnes(bs) = g[DOMAIN bs]
  BY <1>1, <1>2, <1>3, OneSum
<1>5. BitsIn(bs, DOMAIN bs) = BitsOf(bs)
  <2>1. \A i \in BitsOf(bs) : i \in Int /\ i \div W \in DOMAIN bs
    BY BitsOfIs
  <2>2. QED
    BY <2>1 DEF BitsIn
<1>6. QED
  BY <1>4, <1>5 DEF g

-----------------------------------------------------------------------------
(* What the operations on bitsets make of the sets they stand for *)

\* The one bits of f are at the positions in S, its padding included.
Stands(f, n, S) ==
  f \in Bitsets(n) /\ \A w \in Indices(n), b \in Word : b \in f[w] <=> W * w + b \in S

\* The same, by the set of positions.
LEMMA StandsIs ==
  ASSUME NEW n \in Nat, NEW S, S \subseteq 0 .. (n - 1), NEW f \in Bitsets(n)
  PROVE  Stands(f, n, S) <=> BitsOf(f) = S
<1>1. ASSUME NEW w \in Indices(n), NEW b \in Word
      PROVE  W * w + b \in Int /\ (b \in f[w] <=> W * w + b \in BitsOf(f))
  <2>1. w \in Int
    BY BitsOfIs
  <2>2. W * w + b \in Int /\ (W * w + b) \div W = w /\ (W * w + b) % W = b
    BY <2>1, Place
  <2>3. W * w + b \in BitsOf(f) <=> (W * w + b) \div W \in Indices(n) /\ (W * w + b) % W \in f[(W * w + b) \div W]
    BY <2>2, BitsOfIs
  <2>4. QED
    BY <2>2, <2>3
<1>2. ASSUME BitsOf(f) = S
      PROVE  Stands(f, n, S)
  BY <1>1, <1>2 DEF Stands
<1>3. ASSUME Stands(f, n, S)
      PROVE  BitsOf(f) = S
  <2>1. ASSUME NEW i \in BitsOf(f)
        PROVE  i \in S
    <3>1. i \in Int /\ i \div W \in Indices(n) /\ i % W \in f[i \div W]
      BY BitsOfIs
    <3>2. i % W \in Word /\ i = W * (i \div W) + (i % W)
      BY <3>1, PlaceOf
    <3>3. QED
      BY <1>3, <3>1, <3>2 DEF Stands
  <2>2. ASSUME NEW i \in S
        PROVE  i \in BitsOf(f)
    <3>1. i \in 0 .. (n - 1) /\ i \in Int
      OBVIOUS
    <3>2. i \div W \in Indices(n) /\ i % W \in Word /\ i = W * (i \div W) + (i % W)
      BY <3>1, PlaceIn
    <3>3. i % W \in f[i \div W]
      BY <1>3, <3>2 DEF Stands
    <3>4. QED
      BY <3>1, <3>2, <3>3, BitsOfIs
  <2>3. QED
    BY <2>1, <2>2
<1>4. QED
  BY <1>2, <1>3

\* The words follow from the set.
LEMMA StandsOne ==
  ASSUME NEW n \in Nat, NEW S, NEW f, NEW g, Stands(f, n, S), Stands(g, n, S)
  PROVE  f = g
<1>1. ASSUME NEW w \in Indices(n)
      PROVE  f[w] = g[w]
  <2>1. f[w] \subseteq Word /\ g[w] \subseteq Word
    BY DEF Stands, Bitsets
  <2>2. \A b \in Word : b \in f[w] <=> b \in g[w]
    BY DEF Stands
  <2>3. QED
    BY <2>1, <2>2
<1>2. QED
  BY <1>1 DEF Stands, Bitsets

\* bitset_clear_padding takes out the positions that are none.
LEMMA PaddingIs ==
  ASSUME NEW n \in Nat, NEW S, NEW f, Stands(f, n, S)
  PROVE  Stands(ClearPadding(f, n), n, {i \in S : i < n})
<1> DEFINE r == ClearPadding(f, n)
<1>1. f \in Bitsets(n)
  BY DEF Stands
<1>2. ASSUME NEW w \in Indices(n)
      PROVE  /\ r[w] \subseteq Word
             /\ \A b \in Word : b \in r[w] <=> W * w + b \in {i \in S : i < n}
  <2>1. r[w] = f[w] \cap Valid(n, w)
    BY <1>1 DEF ClearPadding, Bitsets
  <2>2. \A b \in Word : b \in Valid(n, w) <=> W * w + b < n
    BY ValidIs
  <2> HIDE DEF r
  <2>3. QED
    BY <1>1, <2>1, <2>2 DEF Stands, Bitsets
<1>3. r \in Bitsets(n)
  BY <1>1, <1>2 DEF ClearPadding, Bitsets
<1> HIDE DEF r
<1>4. QED
  BY <1>2, <1>3 DEF Stands, r

\* bitset_clear_all, bitset_set_all and bitset_flip_all
LEMMA WholeIs ==
  ASSUME NEW n \in Nat, NEW S, NEW f, Stands(f, n, S)
  PROVE  /\ Stands(ClearAll(n), n, {})
         /\ Stands(SetAll(n), n, 0 .. (n - 1))
         /\ Stands(FlipAll(f, n), n, (0 .. (n - 1)) \ S)
<1>1. Stands(ClearAll(n), n, {})
  BY DEF Stands, ClearAll, Bitsets
<1>2. \A w \in Indices(n), b \in Word : W * w + b \in Nat
  <2>1. \A w \in Indices(n) : w \in Nat
    BY DEF Indices
  <2>2. QED
    BY <2>1, BitsetOpsAssumption DEF Word
<1>3. Stands(SetAll(n), n, 0 .. (n - 1))
  <2> DEFINE g == [w \in Indices(n) |-> Word]
  <2>1. Stands(g, n, Nat)
    BY <1>2 DEF Stands, Bitsets
  <2> HIDE DEF g
  <2>2. Stands(ClearPadding(g, n), n, {i \in Nat : i < n})
    BY <2>1, PaddingIs
  <2>3. {i \in Nat : i < n} = 0 .. (n - 1)
    OBVIOUS
  <2>4. QED
    BY <2>2, <2>3 DEF SetAll, g
<1>4. Stands(FlipAll(f, n), n, (0 .. (n - 1)) \ S)
  <2> DEFINE g == [w \in DOMAIN f |-> Word \ f[w]]
  <2>1. DOMAIN f = Indices(n)
    BY DEF Stands, Bitsets
  <2>2. Stands(g, n, Nat \ S)
    BY <1>2, <2>1 DEF Stands, Bitsets
  <2> HIDE DEF g
  <2>3. Stands(ClearPadding(g, n), n, {i \in Nat \ S : i < n})
    BY <2>2, PaddingIs
  <2>4. {i \in Nat \ S : i < n} = (0 .. (n - 1)) \ S
    OBVIOUS
  <2>5. QED
    BY <2>3, <2>4 DEF FlipAll, g
<1>5. QED
  BY <1>1, <1>3, <1>4

\* The operations that take the words of two bitsets one by one, and BITSET_CLEAR_IF.
LEMMA CombinedIs ==
  ASSUME NEW n \in Nat, NEW S, NEW T, NEW f, NEW g, Stands(f, n, S), Stands(g, n, T)
  PROVE  /\ Stands(Or(f, g), n, S \cup T) /\ Stands(And(f, g), n, S \cap T)
         /\ Stands(XorWith(f, g), n, Xor(S, T))
<1>1. DOMAIN f = Indices(n) /\ \A w \in Indices(n) : f[w] \subseteq Word /\ g[w] \subseteq Word
  BY DEF Stands, Bitsets
<1>2. Or(f, g) \in Bitsets(n) /\ And(f, g) \in Bitsets(n) /\ XorWith(f, g) \in Bitsets(n)
  BY <1>1 DEF Or, And, XorWith, Xor, Bitsets
<1>3. Stands(Or(f, g), n, S \cup T)
  BY <1>1, <1>2 DEF Stands, Or
<1>4. Stands(And(f, g), n, S \cap T)
  BY <1>1, <1>2 DEF Stands, And
<1>5. Stands(XorWith(f, g), n, Xor(S, T))
  BY <1>1, <1>2 DEF Stands, XorWith, Xor
<1>6. QED
  BY <1>3, <1>4, <1>5

\* bitset_sub: the positions of one that the other does not have, padding cleared.
LEMMA SubIs ==
  ASSUME NEW n \in Nat, NEW S, S \subseteq 0 .. (n - 1), NEW T, NEW f, NEW g,
         Stands(f, n, S), Stands(g, n, T)
  PROVE  Stands(Sub(f, g, n), n, S \ T)
<1> DEFINE h == [w \in DOMAIN f |-> f[w] \ g[w]]
<1>1. Stands(h, n, S \ T)
  BY DEF Stands, Bitsets
<1> HIDE DEF h
<1>2. Stands(ClearPadding(h, n), n, {i \in S \ T : i < n})
  BY <1>1, PaddingIs
<1>3. {i \in S \ T : i < n} = S \ T
  <2>1. \A i \in S : i < n
    OBVIOUS
  <2>2. QED
    BY <2>1
<1>4. QED
  BY <1>2, <1>3 DEF Sub, h

\* BITSET_CLEAR_IF takes out the positions that the predicate is true of.
LEMMA ClearIfIs ==
  ASSUME NEW n \in Nat, NEW S, NEW P, NEW f, Stands(f, n, S)
  PROVE  Stands(ClearIf(f, P), n, S \ P)
BY DEF Stands, Bitsets, ClearIf

\* A position stands for a bit wherever its word is, as far as it is one below the size.
LEMMA StandsAt ==
  ASSUME NEW n \in Nat, NEW S, S \subseteq 0 .. (n - 1), NEW f, Stands(f, n, S),
         NEW v \in Int, NEW d \in Word
  PROVE  W * v + d \in S <=> v \in Indices(n) /\ d \in f[v]
<1>1. CASE v \in Indices(n)
  BY <1>1 DEF Stands
<1>2. CASE v \notin Indices(n)
  <2>1. ASSUME W * v + d \in S
        PROVE  FALSE
    <3>1. W * v + d \in 0 .. (n - 1)
      BY <2>1
    <3>2. (W * v + d) \div W \in Indices(n)
      BY <3>1, PlaceIn
    <3>3. (W * v + d) \div W = v
      BY Place
    <3>4. QED
      BY <1>2, <3>2, <3>3
  <2>2. QED
    BY <1>2, <2>1
<1>3. QED
  BY <1>1, <1>2

\* bitset_flip
LEMMA FlipBitIs ==
  ASSUME NEW n \in Nat, NEW bs \in Bitsets(n), NEW s \in 0 .. (n - 1)
  PROVE  FlipBit(bs, s) \in Bitsets(n) /\ BitsOf(FlipBit(bs, s)) = Xor(BitsOf(bs), {s})
<1> DEFINE new == FlipBit(bs, s)
<1>1. s \in Nat /\ s \div W \in Indices(n) /\ s % W \in Word
  BY PlaceIn
<1>2. new = [bs EXCEPT ![s \div W] = Xor(bs[s \div W], {s % W})]
  BY DEF FlipBit
<1>3. new \in Bitsets(n)
  BY <1>1, <1>2 DEF Bitsets, Xor
<1> HIDE DEF new
<1>4. ASSUME NEW i \in Int
      PROVE  i \in BitsOf(new) <=> i \in Xor(BitsOf(bs), {s})
  <2>1. i \in BitsOf(new) <=> i \div W \in Indices(n) /\ i % W \in new[i \div W]
    BY <1>3, BitsOfIs
  <2>2. i \in BitsOf(bs) <=> i \div W \in Indices(n) /\ i % W \in bs[i \div W]
    BY BitsOfIs
  <2>3. DOMAIN bs = Indices(n)
    BY BitsOfIs
  <2>4. i = s <=> i \div W = s \div W /\ i % W = s % W
    BY <1>1, SamePlace
  <2>5. QED
    BY <1>1, <1>2, <2>1, <2>2, <2>3, <2>4 DEF Xor
<1>5. BitsOf(new) \subseteq Int /\ Xor(BitsOf(bs), {s}) \subseteq Int
  BY <1>1, <1>3, BitsOfIs DEF Xor
<1>6. BitsOf(new) = Xor(BitsOf(bs), {s})
  BY <1>4, <1>5
<1>7. QED
  BY <1>3, <1>6 DEF new

\* Positions are in the order of their words, and of their places in a word.
LEMMA PlaceOrder ==
  ASSUME NEW w \in Int, NEW b \in Word, NEW v \in Int, NEW c \in Word
  PROVE  W * w + b <= W * v + c <=> w < v \/ (w = v /\ b <= c)
<1>1. W \in Nat /\ b \in 0 .. (W - 1) /\ c \in 0 .. (W - 1)
  BY BitsetOpsAssumption DEF Word
<1>2. PICK x \in Int : x = W * w
  BY <1>1
<1>3. PICK y \in Int : y = W * v
  BY <1>1
<1>4. /\ w < v => x + W <= y
      /\ v < w => y + W <= x
      /\ w = v => x = y
  BY <1>2, <1>3, TimesGrows
<1>5. x + b <= y + c <=> w < v \/ (w = v /\ b <= c)
  BY <1>1, <1>4
<1>6. QED
  BY <1>2, <1>3, <1>5

\* The mask of a word has the places whose positions are in the range.
LEMMA RangeMaskIs ==
  ASSUME NEW n \in Nat, NEW s \in 0 .. n, NEW e \in 0 .. n, s <= e,
         NEW w \in Indices(n), NEW b \in Word
  PROVE  b \in RangeMask(s, e, w) <=> W * w + b \in s .. (e - 1)
<1>1. w \in Int /\ W * w + b \in Int
  <2>1. w \in Int
    BY WordsIs DEF Indices
  <2>2. QED
    BY <2>1, Place
<1>2. CASE s = e
  <2>1. s .. (e - 1) = {}
    BY <1>2
  <2>2. QED
    BY <1>2, <2>1 DEF RangeMask
<1>3. CASE s # e
  <2> DEFINE sw == s \div W
             sb == s % W
             ew == (e - 1) \div W
             eb == (e - 1) % W
  <2>1. sw \in Int /\ sb \in Word /\ s = W * sw + sb
    BY PlaceOf
  <2>2. ew \in Int /\ eb \in Word /\ e - 1 = W * ew + eb
    <3>1. e - 1 \in Int
      OBVIOUS
    <3>2. QED
      BY <3>1, PlaceOf
  <2>3. b \in RangeMask(s, e, w) <=> /\ ~(w < sw) /\ ~(w > ew)
                                     /\ w = sw => b \in sb .. (W - 1)
                                     /\ w = ew => b \in 0 .. eb
    BY <1>3 DEF RangeMask
  <2> HIDE DEF sw, sb, ew, eb
  <2>4. s <= W * w + b <=> sw < w \/ (sw = w /\ sb <= b)
    BY <1>1, <2>1, PlaceOrder
  <2>5. W * w + b <= e - 1 <=> w < ew \/ (w = ew /\ b <= eb)
    BY <1>1, <2>2, PlaceOrder
  <2>6. b \in 0 .. (W - 1) /\ sb \in Int /\ eb \in Int /\ W \in Int
    BY <2>1, <2>2, BitsetOpsAssumption DEF Word
  <2>7. b \in RangeMask(s, e, w) <=> /\ sw < w \/ (sw = w /\ sb <= b)
                                     /\ w < ew \/ (w = ew /\ b <= eb)
    BY <1>1, <2>1, <2>2, <2>3, <2>6
  <2>8. W * w + b \in s .. (e - 1) <=> s <= W * w + b /\ W * w + b <= e - 1
    BY <1>1
  <2>9. QED
    BY <2>4, <2>5, <2>7, <2>8
<1>4. QED
  BY <1>2, <1>3

\* bitset_set_range, bitset_clear_range and bitset_flip_range
LEMMA RangeIs ==
  ASSUME NEW n \in Nat, NEW S, NEW f, Stands(f, n, S),
         NEW s \in 0 .. n, NEW e \in 0 .. n, s <= e
  PROVE  /\ Stands(SetRange(f, s, e), n, S \cup (s .. (e - 1)))
         /\ Stands(ClearRange(f, s, e), n, S \ (s .. (e - 1)))
         /\ Stands(FlipRange(f, s, e), n, Xor(S, s .. (e - 1)))
<1> DEFINE R == s .. (e - 1)
<1>1. \A w \in Indices(n), b \in Word : b \in RangeMask(s, e, w) <=> W * w + b \in R
  BY RangeMaskIs
<1>2. \A w \in Indices(n) : RangeMask(s, e, w) \subseteq Word
  <2>1. (s % W) .. (W - 1) \subseteq Word
    <3>1. s % W \in 0 .. (W - 1) /\ W \in Nat
      BY BitsetOpsAssumption, DivMod
    <3>2. QED
      BY <3>1 DEF Word
  <2>2. QED
    BY <2>1 DEF RangeMask
<1>3. DOMAIN f = Indices(n) /\ \A w \in Indices(n) : f[w] \subseteq Word
  BY DEF Stands, Bitsets
<1> HIDE DEF R
<1>4. SetRange(f, s, e) \in Bitsets(n) /\ ClearRange(f, s, e) \in Bitsets(n)
      /\ FlipRange(f, s, e) \in Bitsets(n)
  BY <1>2, <1>3 DEF SetRange, ClearRange, FlipRange, Xor, Bitsets
<1>5. Stands(SetRange(f, s, e), n, S \cup R)
  BY <1>1, <1>3, <1>4 DEF Stands, SetRange
<1>6. Stands(ClearRange(f, s, e), n, S \ R)
  BY <1>1, <1>3, <1>4 DEF Stands, ClearRange
<1>7. Stands(FlipRange(f, s, e), n, Xor(S, R))
  BY <1>1, <1>3, <1>4 DEF Stands, FlipRange, Xor
<1>8. QED
  BY <1>5, <1>6, <1>7 DEF R

\* A word of a bitset shifted to the left has the bits of its positions less the shift.
LEMMA ShiftedWordIs ==
  ASSUME NEW n \in Nat, NEW S, S \subseteq 0 .. (n - 1), NEW f, Stands(f, n, S),
         NEW i \in Indices(n), NEW sh \in Nat, NEW c \in Word
  PROVE  c \in ShiftedWord(f, i, sh \div W, sh % W) <=> (W * i + c) - sh \in S
<1> DEFINE ws == sh \div W
           b == sh % W
<1>1. /\ W \in Nat \ {0} /\ Words(n) \in Nat /\ ws \in Nat /\ b \in 0 .. (W - 1)
      /\ sh = W * ws + b /\ i \in 0 .. (Words(n) - 1) /\ c \in 0 .. (W - 1)
  <2>1. ws \in Nat /\ b \in 0 .. (W - 1) /\ sh = W * ws + b
    BY WordsIs DEF Rest
  <2>2. Words(n) \in Nat
    BY WordsIs
  <2>3. QED
    BY <2>1, <2>2, BitsetOpsAssumption DEF Indices, Word
<1>2. Word = 0 .. (W - 1)
  BY DEF Word
<1> HIDE DEF ws, b
<1>3. (W * i + c) - sh = W * (i - ws) + (c - b)
  BY <1>1
<1>4. W * (i - ws) = W * (i - ws - 1) + W
  BY <1>1
<1>5. W * (i - ws) \in Int /\ W * (i - ws - 1) \in Int
  BY <1>1
<1>6. CASE b <= c
  <2>1. c - b \in Word /\ i - ws \in Int
    BY <1>1, <1>2, <1>6
  <2>2. (W * i + c) - sh \in S <=> i - ws \in Indices(n) /\ c - b \in f[i - ws]
    <3>1. PICK v \in Int : v = i - ws
      BY <2>1
    <3>2. PICK d \in Word : d = c - b
      BY <2>1
    <3>3. W * v + d \in S <=> v \in Indices(n) /\ d \in f[v]
      BY StandsAt
    <3>4. QED
      BY <1>3, <3>1, <3>2, <3>3
  <2>3. i - ws \in Indices(n) <=> ~(i < ws)
    BY <1>1 DEF Indices
  <2>4. c \notin ShiftedDown(f[i - ws - 1], W - b) \/ i - ws - 1 \notin Indices(n)
    <3>1. ASSUME i - ws - 1 \in Indices(n)
          PROVE  c + (W - b) \notin f[i - ws - 1]
      <4>1. f[i - ws - 1] \subseteq Word
        BY <3>1 DEF Stands, Bitsets
      <4>2. c + (W - b) \notin Word
        BY <1>1, <1>2, <1>6
      <4>3. QED
        BY <4>1, <4>2
    <3>2. QED
      BY <3>1 DEF ShiftedDown
  <2>5. i - ws > 0 => i - ws - 1 \in Indices(n)
    BY <1>1 DEF Indices
  <2>6. c \in ShiftedUp(f[i - ws], b) <=> c - b \in f[i - ws]
    BY <1>1, <1>6 DEF ShiftedUp
  <2>7. QED
    BY <2>2, <2>3, <2>4, <2>5, <2>6 DEF ShiftedWord, ws, b
<1>7. CASE c < b
  <2>1. c + (W - b) \in Word /\ i - ws - 1 \in Int
    BY <1>1, <1>2, <1>7
  <2>2. (W * i + c) - sh = W * (i - ws - 1) + (c + (W - b))
    BY <1>1, <1>3, <1>4, <1>5
  <2>3. (W * i + c) - sh \in S <=> i - ws - 1 \in Indices(n) /\ c + (W - b) \in f[i - ws - 1]
    <3>1. PICK v \in Int : v = i - ws - 1
      BY <2>1
    <3>2. PICK d \in Word : d = c + (W - b)
      BY <2>1
    <3>3. W * v + d \in S <=> v \in Indices(n) /\ d \in f[v]
      BY StandsAt
    <3>4. QED
      BY <2>2, <3>1, <3>2, <3>3
  <2>4. i - ws - 1 \in Indices(n) <=> ~(i < ws) /\ i - ws > 0
    BY <1>1 DEF Indices
  <2>5. b # 0 /\ c \notin ShiftedUp(f[i - ws], b)
    BY <1>1, <1>7 DEF ShiftedUp
  <2>6. c \in ShiftedDown(f[i - ws - 1], W - b) <=> c + (W - b) \in f[i - ws - 1]
    BY DEF ShiftedDown
  <2>7. QED
    BY <2>3, <2>4, <2>5, <2>6 DEF ShiftedWord, ws, b
<1>8. QED
  BY <1>1, <1>6, <1>7

\* A word of one shifted to the right has the bits of its positions and the shift.
LEMMA UnshiftedWordIs ==
  ASSUME NEW n \in Nat, NEW S, S \subseteq 0 .. (n - 1), NEW f, Stands(f, n, S),
         NEW i \in Indices(n), NEW sh \in Nat, NEW c \in Word
  PROVE  c \in UnshiftedWord(f, i, sh \div W, sh % W, Words(n)) <=> (W * i + c) + sh \in S
<1> DEFINE ws == sh \div W
           b == sh % W
<1>1. /\ W \in Nat \ {0} /\ Words(n) \in Nat /\ ws \in Nat /\ b \in 0 .. (W - 1)
      /\ sh = W * ws + b /\ i \in 0 .. (Words(n) - 1) /\ c \in 0 .. (W - 1)
  <2>1. ws \in Nat /\ b \in 0 .. (W - 1) /\ sh = W * ws + b
    BY WordsIs DEF Rest
  <2>2. Words(n) \in Nat
    BY WordsIs
  <2>3. QED
    BY <2>1, <2>2, BitsetOpsAssumption DEF Indices, Word
<1>2. Word = 0 .. (W - 1)
  BY DEF Word
<1> HIDE DEF ws, b
<1>3. (W * i + c) + sh = W * (i + ws) + (c + b)
  BY <1>1
<1>4. W * (i + ws + 1) = W * (i + ws) + W
  BY <1>1
<1>5. W * (i + ws) \in Int /\ W * (i + ws + 1) \in Int
  BY <1>1
<1>6. i + ws \in Indices(n) <=> ~(i + ws >= Words(n))
  BY <1>1 DEF Indices
<1>7. i + ws + 1 \in Indices(n) <=> i + ws + 1 < Words(n)
  BY <1>1 DEF Indices
<1>8. CASE c + b < W
  <2>1. c + b \in Word /\ i + ws \in Int
    BY <1>1, <1>2, <1>8
  <2>2. (W * i + c) + sh \in S <=> i + ws \in Indices(n) /\ c + b \in f[i + ws]
    <3>1. PICK v \in Int : v = i + ws
      BY <2>1
    <3>2. PICK d \in Word : d = c + b
      BY <2>1
    <3>3. W * v + d \in S <=> v \in Indices(n) /\ d \in f[v]
      BY StandsAt
    <3>4. QED
      BY <1>3, <3>1, <3>2, <3>3
  <2>3. b # 0 => c \notin ShiftedUp(f[i + ws + 1], W - b)
    BY <1>1, <1>8 DEF ShiftedUp
  <2>4. c \in ShiftedDown(f[i + ws], b) <=> c + b \in f[i + ws]
    BY DEF ShiftedDown
  <2>5. QED
    BY <1>6, <2>2, <2>3, <2>4 DEF UnshiftedWord, ws, b
<1>9. CASE W <= c + b
  <2>1. c - (W - b) \in Word /\ i + ws + 1 \in Int
    BY <1>1, <1>2, <1>9
  <2>2. (W * i + c) + sh = W * (i + ws + 1) + (c - (W - b))
    BY <1>1, <1>3, <1>4, <1>5
  <2>3. (W * i + c) + sh \in S <=> i + ws + 1 \in Indices(n) /\ c - (W - b) \in f[i + ws + 1]
    <3>1. PICK v \in Int : v = i + ws + 1
      BY <2>1
    <3>2. PICK d \in Word : d = c - (W - b)
      BY <2>1
    <3>3. W * v + d \in S <=> v \in Indices(n) /\ d \in f[v]
      BY StandsAt
    <3>4. QED
      BY <2>2, <3>1, <3>2, <3>3
  <2>4. i + ws + 1 < Words(n) => ~(i + ws >= Words(n))
    BY <1>1
  <2>5. b # 0
    BY <1>1, <1>9
  <2>6. i + ws \in Indices(n) => c \notin ShiftedDown(f[i + ws], b)
    <3>1. ASSUME i + ws \in Indices(n)
          PROVE  c + b \notin f[i + ws]
      <4>1. f[i + ws] \subseteq Word
        BY <3>1 DEF Stands, Bitsets
      <4>2. c + b \notin Word
        BY <1>1, <1>2, <1>9
      <4>3. QED
        BY <4>1, <4>2
    <3>2. QED
      BY <3>1 DEF ShiftedDown
  <2>7. c \in ShiftedUp(f[i + ws + 1], W - b) <=> c - (W - b) \in f[i + ws + 1]
    BY <1>1, <1>9 DEF ShiftedUp
  <2>8. QED
    BY <1>6, <1>7, <2>3, <2>4, <2>5, <2>6, <2>7 DEF UnshiftedWord, ws, b
<1>10. QED
  BY <1>1, <1>8, <1>9

\* The words of a shift, each made of the words before it, and its padding cleared.
LEMMA ShiftIntoIs ==
  ASSUME NEW n \in Nat, NEW S, S \subseteq 0 .. (n - 1), NEW f, Stands(f, n, S), NEW sh \in Nat
  PROVE  /\ Stands(ShiftLeftInto(f, n, sh), n, {i \in 0 .. (n - 1) : i >= sh /\ (i - sh) \in S})
         /\ Stands(ShiftRightInto(f, n, sh), n, {i \in 0 .. (n - 1) : (i + sh) \in S})
<1> DEFINE U == 0 .. (n - 1)
           L == {i \in U : i >= sh /\ (i - sh) \in S}
           R == {i \in U : (i + sh) \in S}
<1>1. CASE sh >= n
  <2>1. \A i \in S : i \in 0 .. (n - 1)
    OBVIOUS
  <2>2. L = {}
    BY <1>1, <2>1
  <2>3. R = {}
    BY <1>1, <2>1
  <2> HIDE DEF L, R
  <2>4. Stands(ClearAll(n), n, {})
    BY WholeIs
  <2>5. QED
    BY <1>1, <2>2, <2>3, <2>4 DEF ShiftLeftInto, ShiftRightInto, L, R
<1>2. CASE ~(sh >= n) /\ sh = 0
  <2>1. \A i \in S : i \in U /\ i - 0 = i /\ i + 0 = i /\ i >= 0
    OBVIOUS
  <2>2. \A i \in U : i - 0 = i /\ i + 0 = i /\ i >= 0
    OBVIOUS
  <2>3. L = S /\ R = S
    BY <1>2, <2>1, <2>2
  <2> HIDE DEF L, R
  <2>4. QED
    BY <1>2, <2>3 DEF ShiftLeftInto, ShiftRightInto, L, R
<1>3. CASE ~(sh >= n) /\ sh # 0
  <2> DEFINE l == [i \in DOMAIN f |-> ShiftedWord(f, i, sh \div W, sh % W)]
             r == [i \in DOMAIN f |-> UnshiftedWord(f, i, sh \div W, sh % W, Words(n))]
             A == {i \in Nat : (i - sh) \in S}
             B == {i \in Nat : (i + sh) \in S}
  <2>1. DOMAIN f = Indices(n)
    BY DEF Stands, Bitsets
  <2>2. l \in Bitsets(n) /\ r \in Bitsets(n)
    BY <2>1 DEF Bitsets, ShiftedWord, UnshiftedWord, ShiftedUp, ShiftedDown
  <2>3. \A w \in Indices(n), b \in Word : W * w + b \in Nat
    <3>1. \A w \in Indices(n) : w \in Nat
      BY DEF Indices
    <3>2. QED
      BY <3>1, BitsetOpsAssumption DEF Word
  <2>4. Stands(l, n, A)
    <3>1. \A w \in Indices(n), b \in Word : b \in l[w] <=> (W * w + b) - sh \in S
      BY <2>1, ShiftedWordIs
    <3> HIDE DEF l
    <3>2. QED
      BY <2>2, <2>3, <3>1 DEF Stands
  <2>5. Stands(r, n, B)
    <3>1. \A w \in Indices(n), b \in Word : b \in r[w] <=> (W * w + b) + sh \in S
      BY <2>1, UnshiftedWordIs
    <3> HIDE DEF r
    <3>2. QED
      BY <2>2, <2>3, <3>1 DEF Stands
  <2> HIDE DEF l, r
  <2>6. {i \in A : i < n} = L
    <3>1. \A i \in S : i >= 0
      OBVIOUS
    <3>2. \A i \in Nat : i - sh >= 0 <=> i >= sh
      OBVIOUS
    <3>3. \A i \in Nat : i < n <=> i \in U
      OBVIOUS
    <3>4. U \subseteq Nat
      OBVIOUS
    <3> HIDE DEF U
    <3>5. QED
      BY <3>1, <3>2, <3>3, <3>4
  <2>7. {i \in B : i < n} = R
    <3>1. \A i \in Nat : i < n <=> i \in U
      OBVIOUS
    <3>2. U \subseteq Nat
      OBVIOUS
    <3> HIDE DEF U
    <3>3. QED
      BY <3>1, <3>2
  <2> HIDE DEF A, B, L, R
  <2>8. Stands(ClearPadding(l, n), n, L) /\ Stands(ClearPadding(r, n), n, R)
    BY <2>4, <2>5, <2>6, <2>7, PaddingIs
  <2>9. QED
    BY <1>3, <2>8 DEF ShiftLeftInto, ShiftRightInto, L, R, l, r
<1>4. QED
  BY <1>1, <1>2, <1>3

\* The loop of a shift in place, from the highest word down, and that of one from the
\* lowest word up: g[i] is the bitset once i is the next word, or was the last one.
DownLoop(f, n, sh, g) ==
  g = [i \in 0 .. Words(n) |->
         IF i = Words(n) THEN f
         ELSE [g[i + 1] EXCEPT ![i] = ShiftedWord(g[i + 1], i, sh \div W, sh % W)]]
UpLoop(f, n, sh, g) ==
  g = [i \in 0 .. Words(n) |->
         IF i = 0 THEN f
         ELSE [g[i - 1] EXCEPT ![i - 1] =
                 UnshiftedWord(g[i - 1], i - 1, sh \div W, sh % W, Words(n))]]

\* The loop down has shifted the words it has been at, which it made of words that it
\* had not been at.
DownTo(f, n, sh) ==
  [i \in 0 .. Words(n) |->
     [w \in Indices(n) |-> IF w >= i THEN ShiftedWord(f, w, sh \div W, sh % W) ELSE f[w]]]

\* That is what the loop down solves: no word it reads has been written before.
LEMMA DownLoopIs ==
  ASSUME NEW n \in Nat, NEW f \in Bitsets(n), NEW sh \in Nat
  PROVE  DownLoop(f, n, sh, DownTo(f, n, sh))
<1> DEFINE ws == sh \div W
           b == sh % W
           g == DownTo(f, n, sh)
           N == Words(n)
<1>1. ws \in Nat /\ N \in Nat /\ Indices(n) = 0 .. (N - 1)
  BY WordsIs DEF Indices
<1>2. \A i \in 0 .. N : g[i] = [w \in Indices(n) |-> IF w >= i THEN ShiftedWord(f, w, ws, b) ELSE f[w]]
  BY DEF DownTo
<1>3. f = [w \in Indices(n) |-> f[w]]
  BY DEF Bitsets
<1>4. g = [i \in 0 .. N |-> g[i]]
  BY DEF DownTo
<1> HIDE DEF g, ws, b, N
<1>5. g[N] = f
  <2>1. \A w \in Indices(n) : ~(w >= N)
    BY <1>1
  <2>2. N \in 0 .. N
    BY <1>1
  <2>3. QED
    BY <1>2, <1>3, <2>1, <2>2
<1>6. ASSUME NEW i \in 0 .. N, i # N
      PROVE  g[i] = [g[i + 1] EXCEPT ![i] = ShiftedWord(g[i + 1], i, ws, b)]
  <2>1. i \in Indices(n) /\ i + 1 \in 0 .. N
    BY <1>1, <1>6
  <2>2. \A w \in Indices(n) : w <= i => g[i + 1][w] = f[w]
    <3>1. \A w \in Indices(n) : w <= i => ~(w >= i + 1)
      BY <1>1
    <3>2. g[i + 1] = [w \in Indices(n) |-> IF w >= i + 1 THEN ShiftedWord(f, w, ws, b) ELSE f[w]]
      BY <1>2, <2>1
    <3>3. QED
      BY <3>1, <3>2
  <2>3. ShiftedWord(g[i + 1], i, ws, b) = ShiftedWord(f, i, ws, b)
    <3>1. ~(i < ws) => g[i + 1][i - ws] = f[i - ws]
      <4>1. ~(i < ws) => i - ws \in Indices(n) /\ i - ws <= i
        BY <1>1, <2>1
      <4>2. QED
        BY <2>2, <4>1
    <3>2. i - ws > 0 => g[i + 1][i - ws - 1] = f[i - ws - 1]
      <4>1. i - ws > 0 => i - ws - 1 \in Indices(n) /\ i - ws - 1 <= i
        BY <1>1, <2>1
      <4>2. QED
        BY <2>2, <4>1
    <3>3. QED
      BY <3>1, <3>2 DEF ShiftedWord
  <2>4. \A w \in Indices(n) : w # i => (w >= i <=> w >= i + 1)
    BY <1>1, <2>1
  <2>5. i >= i
    BY <1>1
  <2>6. \A w \in Indices(n) : g[i][w] = IF w = i THEN ShiftedWord(f, i, ws, b) ELSE g[i + 1][w]
    <3>1. g[i] = [w \in Indices(n) |-> IF w >= i THEN ShiftedWord(f, w, ws, b) ELSE f[w]]
      BY <1>2
    <3>2. g[i + 1] = [w \in Indices(n) |-> IF w >= i + 1 THEN ShiftedWord(f, w, ws, b) ELSE f[w]]
      BY <1>2, <2>1
    <3>3. QED
      BY <2>4, <2>5, <3>1, <3>2
  <2>7. DOMAIN g[i] = Indices(n) /\ DOMAIN g[i + 1] = Indices(n)
        /\ g[i] = [w \in Indices(n) |-> g[i][w]]
    BY <1>2, <2>1
  <2>8. QED
    BY <2>3, <2>6, <2>7
<1>7. g = [i \in 0 .. N |->
             IF i = N THEN f ELSE [g[i + 1] EXCEPT ![i] = ShiftedWord(g[i + 1], i, ws, b)]]
  BY <1>4, <1>5, <1>6
<1>8. QED
  BY <1>7 DEF DownLoop, g, ws, b, N

\* There is one such loop.
LEMMA OneDownLoop ==
  ASSUME NEW n \in Nat, NEW f, NEW sh \in Nat, NEW g, NEW h,
         DownLoop(f, n, sh, g), DownLoop(f, n, sh, h)
  PROVE  g = h
<1> DEFINE N == Words(n)
           Bad == {i \in 0 .. N : g[i] # h[i]}
<1>1. N \in Nat
  BY WordsIs
<1>2. ASSUME NEW i \in 0 .. N
      PROVE  /\ i = N => g[i] = h[i]
             /\ i # N /\ g[i + 1] = h[i + 1] => g[i] = h[i]
  <2>1. IF i = N THEN g[i] = f /\ h[i] = f
        ELSE /\ g[i] = [g[i + 1] EXCEPT ![i] = ShiftedWord(g[i + 1], i, sh \div W, sh % W)]
             /\ h[i] = [h[i + 1] EXCEPT ![i] = ShiftedWord(h[i + 1], i, sh \div W, sh % W)]
    BY DEF DownLoop
  <2>2. QED
    BY <2>1
<1> HIDE DEF N
<1>3. ASSUME Bad # {}
      PROVE  FALSE
  <2>1. PICK i \in Bad : \A j \in Bad : j <= i
    <3>1. Bad \subseteq Nat /\ \A j \in Bad : j <= N
      BY <1>1
    <3> HIDE DEF Bad
    <3>2. QED
      BY <1>1, <1>3, <3>1, GreatestExists
  <2>2. i \in 0 .. N /\ g[i] # h[i]
    BY <2>1
  <2>3. i # N
    BY <1>2, <2>2
  <2>4. i + 1 \in 0 .. N /\ ~(i + 1 <= i)
    BY <1>1, <2>2, <2>3
  <2>5. g[i + 1] = h[i + 1]
    BY <2>1, <2>4
  <2>6. QED
    BY <1>2, <2>2, <2>3, <2>5
<1>4. \A i \in 0 .. N : g[i] = h[i]
  BY <1>3
<1>5. g = [i \in 0 .. N |-> g[i]] /\ h = [i \in 0 .. N |-> h[i]]
  BY DEF DownLoop, N
<1>6. QED
  BY <1>4, <1>5

\* bitset_shift_left in place is the shift of another bitset.
LEMMA ShiftLeftIs ==
  ASSUME NEW n \in Nat, NEW f \in Bitsets(n), NEW sh \in Nat
  PROVE  ShiftLeft(f, n, sh) = ShiftLeftInto(f, n, sh)
<1> DEFINE h == CHOOSE g : DownLoop(f, n, sh, g)
<1>1. ShiftLeft(f, n, sh) = IF sh >= n THEN ClearAll(n)
                            ELSE IF sh = 0 THEN f ELSE ClearPadding(h[0], n)
  BY DEF ShiftLeft, DownLoop
<1>2. DownLoop(f, n, sh, h)
  BY DownLoopIs
<1> HIDE DEF h
<1>3. h = DownTo(f, n, sh)
  BY <1>2, DownLoopIs, OneDownLoop
<1>4. DownTo(f, n, sh)[0] = [w \in DOMAIN f |-> ShiftedWord(f, w, sh \div W, sh % W)]
  <2>1. DOMAIN f = Indices(n)
    BY DEF Bitsets
  <2>2. 0 \in 0 .. Words(n) /\ \A w \in Indices(n) : w >= 0
    <3>1. Words(n) \in Nat
      BY WordsIs
    <3>2. QED
      BY <3>1 DEF Indices
  <2>3. QED
    BY <2>1, <2>2 DEF DownTo
<1>5. QED
  BY <1>1, <1>3, <1>4 DEF ShiftLeftInto

\* The loop up likewise.
UpTo(f, n, sh) ==
  [i \in 0 .. Words(n) |->
     [w \in Indices(n) |-> IF w < i THEN UnshiftedWord(f, w, sh \div W, sh % W, Words(n))
                           ELSE f[w]]]

\* That is what the loop up solves.
LEMMA UpLoopIs ==
  ASSUME NEW n \in Nat, NEW f \in Bitsets(n), NEW sh \in Nat
  PROVE  UpLoop(f, n, sh, UpTo(f, n, sh))
<1> DEFINE ws == sh \div W
           b == sh % W
           g == UpTo(f, n, sh)
           N == Words(n)
<1>1. ws \in Nat /\ N \in Nat /\ Indices(n) = 0 .. (N - 1)
  BY WordsIs DEF Indices
<1>2. \A i \in 0 .. N : g[i] = [w \in Indices(n) |-> IF w < i THEN UnshiftedWord(f, w, ws, b, N)
                                                       ELSE f[w]]
  BY DEF UpTo
<1>3. f = [w \in Indices(n) |-> f[w]]
  BY DEF Bitsets
<1>4. g = [i \in 0 .. N |-> g[i]]
  BY DEF UpTo
<1> HIDE DEF g, ws, b, N
<1>5. g[0] = f
  <2>1. \A w \in Indices(n) : ~(w < 0)
    BY <1>1
  <2>2. 0 \in 0 .. N
    BY <1>1
  <2>3. QED
    BY <1>2, <1>3, <2>1, <2>2
<1>6. ASSUME NEW i \in 0 .. N, i # 0
      PROVE  g[i] = [g[i - 1] EXCEPT ![i - 1] = UnshiftedWord(g[i - 1], i - 1, ws, b, N)]
  <2>1. PICK j \in Indices(n) : j = i - 1
    BY <1>1, <1>6
  <2>2. j \in 0 .. N /\ j + 1 = i
    BY <1>1, <2>1
  <2>3. g[i] = [w \in Indices(n) |-> IF w < i THEN UnshiftedWord(f, w, ws, b, N) ELSE f[w]]
    BY <1>2
  <2>4. g[j] = [w \in Indices(n) |-> IF w < j THEN UnshiftedWord(f, w, ws, b, N) ELSE f[w]]
    BY <1>2, <2>2
  <2>5. \A w \in Indices(n) : w >= j => ~(w < j)
    BY <1>1
  <2>6. \A w \in Indices(n) : w >= j => g[j][w] = f[w]
    BY <2>4, <2>5
  <2>7. UnshiftedWord(g[j], j, ws, b, N) = UnshiftedWord(f, j, ws, b, N)
    <3>1. ~(j + ws >= N) => g[j][j + ws] = f[j + ws]
      <4>1. ~(j + ws >= N) => j + ws \in Indices(n) /\ j + ws >= j
        BY <1>1, <2>1
      <4>2. QED
        BY <2>6, <4>1
    <3>2. j + ws + 1 < N => g[j][j + ws + 1] = f[j + ws + 1]
      <4>1. j + ws + 1 < N => j + ws + 1 \in Indices(n) /\ j + ws + 1 >= j
        BY <1>1, <2>1
      <4>2. QED
        BY <2>6, <4>1
    <3>3. QED
      BY <3>1, <3>2 DEF UnshiftedWord
  <2>8. \A w \in Indices(n) : w # j => (w < i <=> w < j)
    BY <1>1, <2>2
  <2>9. j < i
    BY <1>1, <2>1
  <2>10. \A w \in Indices(n) : g[i][w] = IF w = j THEN UnshiftedWord(f, j, ws, b, N) ELSE g[j][w]
    BY <2>3, <2>4, <2>8, <2>9
  <2>11. g[i] = [w \in Indices(n) |-> g[i][w]] /\ DOMAIN g[j] = Indices(n)
    BY <2>3, <2>4
  <2>12. g[i] = [g[j] EXCEPT ![j] = UnshiftedWord(g[j], j, ws, b, N)]
    BY <2>7, <2>10, <2>11
  <2>13. QED
    BY <2>1, <2>12
<1>7. g = [i \in 0 .. N |->
             IF i = 0 THEN f
             ELSE [g[i - 1] EXCEPT ![i - 1] = UnshiftedWord(g[i - 1], i - 1, ws, b, N)]]
  BY <1>4, <1>5, <1>6
<1>8. QED
  BY <1>7 DEF UpLoop, g, ws, b, N

\* There is one such loop.
LEMMA OneUpLoop ==
  ASSUME NEW n \in Nat, NEW f, NEW sh \in Nat, NEW g, NEW h,
         UpLoop(f, n, sh, g), UpLoop(f, n, sh, h)
  PROVE  g = h
<1> DEFINE N == Words(n)
           Bad == {i \in 0 .. N : g[i] # h[i]}
<1>1. N \in Nat
  BY WordsIs
<1>2. ASSUME NEW i \in 0 .. N
      PROVE  /\ i = 0 => g[i] = h[i]
             /\ i # 0 /\ g[i - 1] = h[i - 1] => g[i] = h[i]
  <2>1. IF i = 0 THEN g[i] = f /\ h[i] = f
        ELSE /\ g[i] = [g[i - 1] EXCEPT ![i - 1] =
                          UnshiftedWord(g[i - 1], i - 1, sh \div W, sh % W, N)]
             /\ h[i] = [h[i - 1] EXCEPT ![i - 1] =
                          UnshiftedWord(h[i - 1], i - 1, sh \div W, sh % W, N)]
    BY DEF UpLoop
  <2>2. QED
    BY <2>1
<1> HIDE DEF N
<1>3. ASSUME Bad # {}
      PROVE  FALSE
  <2>1. PICK i \in Bad : \A j \in Bad : i <= j
    <3>1. Bad \subseteq Nat
      BY <1>1
    <3> HIDE DEF Bad
    <3>2. QED
      BY <1>3, <3>1, LeastExists
  <2>2. i \in 0 .. N /\ g[i] # h[i]
    BY <2>1
  <2>3. i # 0
    BY <1>2, <2>2
  <2>4. i - 1 \in 0 .. N /\ ~(i <= i - 1)
    BY <1>1, <2>2, <2>3
  <2>5. g[i - 1] = h[i - 1]
    BY <2>1, <2>4
  <2>6. QED
    BY <1>2, <2>2, <2>3, <2>5
<1>4. \A i \in 0 .. N : g[i] = h[i]
  BY <1>3
<1>5. g = [i \in 0 .. N |-> g[i]] /\ h = [i \in 0 .. N |-> h[i]]
  BY DEF UpLoop, N
<1>6. QED
  BY <1>4, <1>5

\* bitset_shift_right in place is the shift of another bitset.
LEMMA ShiftRightIs ==
  ASSUME NEW n \in Nat, NEW f \in Bitsets(n), NEW sh \in Nat
  PROVE  ShiftRight(f, n, sh) = ShiftRightInto(f, n, sh)
<1> DEFINE h == CHOOSE g : UpLoop(f, n, sh, g)
<1>1. ShiftRight(f, n, sh) = IF sh >= n THEN ClearAll(n)
                             ELSE IF sh = 0 THEN f ELSE ClearPadding(h[Words(n)], n)
  BY DEF ShiftRight, UpLoop
<1>2. UpLoop(f, n, sh, h)
  BY UpLoopIs
<1> HIDE DEF h
<1>3. h = UpTo(f, n, sh)
  BY <1>2, UpLoopIs, OneUpLoop
<1>4. UpTo(f, n, sh)[Words(n)]
        = [w \in DOMAIN f |-> UnshiftedWord(f, w, sh \div W, sh % W, Words(n))]
  <2>1. DOMAIN f = Indices(n)
    BY DEF Bitsets
  <2>2. Words(n) \in 0 .. Words(n) /\ \A w \in Indices(n) : w < Words(n)
    <3>1. Words(n) \in Nat
      BY WordsIs
    <3>2. QED
      BY <3>1 DEF Indices
  <2>3. QED
    BY <2>1, <2>2 DEF UpTo
<1>5. QED
  BY <1>1, <1>3, <1>4 DEF ShiftRightInto

\* What the loop of bitset_fromstr makes of some of the digits.
ReadsTo(digits, n, g) ==
  g = [s \in SUBSET (1 .. n) |->
         IF s = {} THEN ClearAll(n)
         ELSE IF digits[CHOOSE d \in s : TRUE] # 0
              THEN SetBit(g[s \ {CHOOSE d \in s : TRUE}], n - (CHOOSE d \in s : TRUE))
              ELSE ClearBit(g[s \ {CHOOSE d \in s : TRUE}], n - (CHOOSE d \in s : TRUE))]

BitsetFor(n, S) == [w \in Indices(n) |-> {b \in Word : W * w + b \in S}]
OnesIn(digits, n, s) == {n - d : d \in {e \in s : digits[e] # 0}}

\* One more digit.
LEMMA DigitIs ==
  ASSUME NEW n \in Nat, NEW digits, NEW s \in SUBSET (1 .. n), NEW c \in s,
         NEW f, Stands(f, n, OnesIn(digits, n, s \ {c}))
  PROVE  BitsetFor(n, OnesIn(digits, n, s))
           = IF digits[c] # 0 THEN SetBit(f, n - c) ELSE ClearBit(f, n - c)
<1> DEFINE T == OnesIn(digits, n, s \ {c})
           U == OnesIn(digits, n, s)
           h == IF digits[c] # 0 THEN SetBit(f, n - c) ELSE ClearBit(f, n - c)
<1>1. s \subseteq Int /\ c \in Int /\ n - c \in 0 .. (n - 1)
  BY DEF OnesIn
<1>2. \A d \in s : n - d \in 0 .. (n - 1) /\ (n - d = n - c => d = c)
  BY <1>1
<1>3. T \subseteq 0 .. (n - 1) /\ U \subseteq 0 .. (n - 1)
  BY <1>2 DEF OnesIn
<1>4. U = IF digits[c] # 0 THEN T \cup {n - c} ELSE T \ {n - c}
  BY <1>2 DEF OnesIn
<1>5. Stands(f, n, T)
  OBVIOUS
<1> HIDE DEF T, U
<1>6. f \in Bitsets(n) /\ BitsOf(f) = T
  <2>1. f \in Bitsets(n)
    BY <1>5 DEF Stands
  <2>2. QED
    BY <1>3, <1>5, <2>1, StandsIs
<1>7. h \in Bitsets(n) /\ BitsOf(h) = U
  <2>1. /\ SetBit(f, n - c) \in Bitsets(n) /\ BitsOf(SetBit(f, n - c)) = T \cup {n - c}
        /\ ClearBit(f, n - c) \in Bitsets(n) /\ BitsOf(ClearBit(f, n - c)) = T \ {n - c}
    BY <1>1, <1>6, SetBitIs, ClearBitIs
  <2>2. QED
    BY <1>4, <2>1
<1> HIDE DEF h
<1>8. Stands(h, n, U)
  BY <1>3, <1>7, StandsIs
<1>9. BitsetFor(n, U) = h
  <2>1. Stands(BitsetFor(n, U), n, U)
    BY DEF Stands, BitsetFor, Bitsets
  <2>2. QED
    BY <1>8, <2>1, StandsOne
<1>10. QED
  BY <1>9 DEF h, U

\* The bitsets of the digits read so far solve the loop of bitset_fromstr.
LEMMA ReadsToIs ==
  ASSUME NEW n \in Nat, NEW digits
  PROVE  ReadsTo(digits, n, [s \in SUBSET (1 .. n) |-> BitsetFor(n, OnesIn(digits, n, s))])
<1> DEFINE g == [s \in SUBSET (1 .. n) |-> BitsetFor(n, OnesIn(digits, n, s))]
<1>1. ASSUME NEW s \in SUBSET (1 .. n)
      PROVE  g[s] = IF s = {} THEN ClearAll(n)
                    ELSE IF digits[CHOOSE d \in s : TRUE] # 0
                         THEN SetBit(g[s \ {CHOOSE d \in s : TRUE}], n - (CHOOSE d \in s : TRUE))
                         ELSE ClearBit(g[s \ {CHOOSE d \in s : TRUE}], n - (CHOOSE d \in s : TRUE))
  <2>1. CASE s = {}
    <3>1. OnesIn(digits, n, s) = {}
      BY <2>1 DEF OnesIn
    <3>2. QED
      BY <2>1, <3>1 DEF BitsetFor, ClearAll
  <2>2. CASE s # {}
    <3> DEFINE c == CHOOSE d \in s : TRUE
    <3>1. c \in s
      BY <2>2
    <3>2. g[s \ {c}] = BitsetFor(n, OnesIn(digits, n, s \ {c})) /\ g[s] = BitsetFor(n, OnesIn(digits, n, s))
      OBVIOUS
    <3> HIDE DEF c, g
    <3>3. g[s] = IF digits[c] # 0 THEN SetBit(g[s \ {c}], n - c) ELSE ClearBit(g[s \ {c}], n - c)
      <4> DEFINE f == g[s \ {c}]
      <4>1. Stands(f, n, OnesIn(digits, n, s \ {c}))
        BY <3>2 DEF Stands, BitsetFor, Bitsets
      <4> HIDE DEF f
      <4>2. BitsetFor(n, OnesIn(digits, n, s))
              = IF digits[c] # 0 THEN SetBit(f, n - c) ELSE ClearBit(f, n - c)
        BY <3>1, <4>1, DigitIs
      <4>3. QED
        BY <3>2, <4>2 DEF f
    <3>4. QED
      BY <2>2, <3>3 DEF c
  <2>3. QED
    BY <2>1, <2>2
<1>2. g = [s \in SUBSET (1 .. n) |->
             IF s = {} THEN ClearAll(n)
             ELSE IF digits[CHOOSE d \in s : TRUE] # 0
                  THEN SetBit(g[s \ {CHOOSE d \in s : TRUE}], n - (CHOOSE d \in s : TRUE))
                  ELSE ClearBit(g[s \ {CHOOSE d \in s : TRUE}], n - (CHOOSE d \in s : TRUE))]
  BY <1>1
<1>3. QED
  BY <1>2 DEF ReadsTo

\* There is one such loop.
LEMMA OneReads ==
  ASSUME NEW n \in Nat, NEW digits, NEW f, NEW g, ReadsTo(digits, n, f), ReadsTo(digits, n, g)
  PROVE  f[1 .. n] = g[1 .. n]
<1> DEFINE S == SUBSET (1 .. n)
           Bad == {k \in Nat : \E s \in S : Cardinality(s) = k /\ f[s] # g[s]}
<1>1. ASSUME NEW s \in S
      PROVE  /\ s = {} => f[s] = g[s]
             /\ s # {} => \E d \in s : f[s \ {d}] = g[s \ {d}] => f[s] = g[s]
  <2> DEFINE c == CHOOSE d \in s : TRUE
  <2>1. s # {} => c \in s
    OBVIOUS
  <2>2. /\ f[s] = IF s = {} THEN ClearAll(n)
                  ELSE IF digits[c] # 0 THEN SetBit(f[s \ {c}], n - c) ELSE ClearBit(f[s \ {c}], n - c)
        /\ g[s] = IF s = {} THEN ClearAll(n)
                  ELSE IF digits[c] # 0 THEN SetBit(g[s \ {c}], n - c) ELSE ClearBit(g[s \ {c}], n - c)
    BY DEF ReadsTo
  <2> HIDE DEF c
  <2>3. QED
    BY <2>1, <2>2
<1>2. \A s \in S : IsFiniteSet(s) /\ Cardinality(s) \in Nat
  <2>1. IsFiniteSet(1 .. n)
    BY FS_Interval
  <2>2. QED
    BY <2>1, FS_Subset, FS_CardinalityType
<1>3. ASSUME Bad # {}
      PROVE  FALSE
  <2>1. PICK k \in Bad : \A e \in Bad : k <= e
    BY <1>3, LeastExists
  <2>2. PICK s \in S : Cardinality(s) = k /\ f[s] # g[s]
    BY <2>1
  <2> HIDE DEF S
  <2>3. s # {}
    BY <1>1, <2>2
  <2>4. PICK d \in s : f[s \ {d}] = g[s \ {d}] => f[s] = g[s]
    BY <1>1, <2>3
  <2>5. Cardinality(s \ {d}) = Cardinality(s) - 1
    BY <1>2, <2>4, FS_RemoveElement
  <2>6. s \ {d} \in S /\ f[s \ {d}] # g[s \ {d}]
    BY <2>2, <2>4 DEF S
  <2>7. Cardinality(s \ {d}) \in Bad /\ Cardinality(s \ {d}) < k /\ k \in Nat
    BY <1>2, <2>1, <2>2, <2>5, <2>6
  <2>8. QED
    BY <1>2, <2>1, <2>6, <2>7
<1>4. QED
  BY <1>2, <1>3

\* bitset_fromstr of as many digits as there are bits: the ones have their positions,
\* the last digit the first.
LEMMA FromStrIs ==
  ASSUME NEW n \in Nat, NEW S, S \subseteq 0 .. (n - 1)
  PROVE  Stands(FromStr([d \in 1 .. n |-> IF n - d \in S THEN 1 ELSE 0], n), n, S)
<1> DEFINE digits == [d \in 1 .. n |-> IF n - d \in S THEN 1 ELSE 0]
           h == CHOOSE g : ReadsTo(digits, n, g)
           x == [s \in SUBSET (1 .. n) |-> BitsetFor(n, OnesIn(digits, n, s))]
<1>1. OnesIn(digits, n, 1 .. n) = S
  <2>1. \A d \in 1 .. n : digits[d] # 0 <=> n - d \in S
    OBVIOUS
  <2> HIDE DEF digits
  <2>2. \A i \in S : n - i \in 1 .. n /\ n - (n - i) = i
    OBVIOUS
  <2>3. ASSUME NEW i \in S
        PROVE  i \in OnesIn(digits, n, 1 .. n)
    <3>1. PICK d \in 1 .. n : n - d = i
      BY <2>2
    <3>2. QED
      BY <2>1, <3>1 DEF OnesIn
  <2>4. QED
    BY <2>1, <2>3 DEF OnesIn
<1> HIDE DEF digits
<1>2. ReadsTo(digits, n, x)
  BY ReadsToIs
<1>3. x[1 .. n] = BitsetFor(n, S)
  BY <1>1
<1> HIDE DEF x
<1>4. ReadsTo(digits, n, h)
  BY <1>2
<1>5. FromStr(digits, n) = ClearPadding(h[1 .. n], n)
  BY DEF FromStr, FoldSet, MapThenFoldSet, ReadsTo
<1> HIDE DEF h
<1>6. h[1 .. n] = BitsetFor(n, S)
  BY <1>2, <1>3, <1>4, OneReads
<1>7. Stands(BitsetFor(n, S), n, S)
  BY DEF Stands, BitsetFor, Bitsets
<1>8. {i \in S : i < n} = S
  <2>1. \A i \in S : i < n
    OBVIOUS
  <2>2. QED
    BY <2>1
<1>9. Stands(ClearPadding(BitsetFor(n, S), n), n, S)
  <2>1. Stands(ClearPadding(BitsetFor(n, S), n), n, {i \in S : i < n})
    BY <1>7, PaddingIs
  <2>2. QED
    BY <1>8, <2>1
<1>10. QED
  BY <1>5, <1>6, <1>9 DEF digits

-----------------------------------------------------------------------------
(* The inductive invariant *)

\* The struct is that of a pool, and its bits are the elements the client holds.
PoolInv ==
  /\ pool \in [static : BOOLEAN, cap : Caps \cup {0}, data : Bitsets(pool.cap),
               els : [Slots -> Vals \cup {Junk}]]
  /\ DOMAIN held \subseteq Slots /\ BitsOf(pool.data) = DOMAIN held /\ ValuesKept

Here == {W * (iter.word - 1) + b : b \in iter.remaining}
Ahead == {i \in DOMAIN held : i \div W >= iter.word}

\* While a loop goes on, what is left of the word it has loaded are elements that
\* the client still holds.
IterInv ==
  /\ iter \in [on : BOOLEAN, word : 0 .. Words(pool.cap), remaining : SUBSET Word]
  /\ ~iter.on => iter = NoIter /\ start = {} /\ visited = {}
  /\ iter.remaining # {} => iter.word >= 1
  /\ iter.on => /\ Here \subseteq DOMAIN held
                /\ visited \cup Here \cup Ahead = start /\ visited \cap (Here \cup Ahead) = {}

IInv == PoolInv /\ IterInv

\* The parts of the invariant that the actions read.
LEMMA PoolIs ==
  ASSUME PoolInv
  PROVE  /\ pool.cap \in Nat /\ pool.cap \in Caps \cup {0} /\ pool.static \in BOOLEAN
         /\ pool.data \in Bitsets(pool.cap) /\ pool.els \in [Slots -> Vals \cup {Junk}]
         /\ Slots = 0 .. (pool.cap - 1) /\ DOMAIN held \subseteq Slots
<1>1. pool.cap \in Caps \cup {0} /\ Caps \subseteq Nat
  BY PoolAssumption DEF PoolInv
<1>2. /\ pool.static \in BOOLEAN /\ pool.data \in Bitsets(pool.cap)
      /\ pool.els \in [Slots -> Vals \cup {Junk}] /\ DOMAIN held \subseteq Slots
  BY DEF PoolInv
<1>3. pool.cap \in Nat
  <2>1. \A c \in Caps \cup {0} : c \in Nat
    BY <1>1
  <2>2. QED
    BY <1>1, <2>1
<1>4. Slots = 0 .. (pool.cap - 1)
  BY DEF Slots
<1>5. QED
  BY <1>1, <1>2, <1>3, <1>4

\* The pool p with the bits and the elements that the client then holds.
LEMMA PoolBecomes ==
  ASSUME NEW st \in BOOLEAN, NEW c \in Caps \cup {0}, NEW d \in Bitsets(c),
         NEW els \in [0 .. (c - 1) -> Vals \cup {Junk}],
         pool' = [static |-> st, cap |-> c, data |-> d, els |-> els],
         DOMAIN held' \subseteq 0 .. (c - 1), BitsOf(d) = DOMAIN held',
         \A s \in DOMAIN held' : els[s] = held'[s]
  PROVE  PoolInv'
BY DEF PoolInv, Slots, ValuesKept

\* The client asks only between loops.
LEMMA QuietKeeps ==
  ASSUME IterInv, Quiet, pool'.cap \in Nat
  PROVE  IterInv'
<1>1. /\ ~iter.on /\ iter = NoIter /\ start = {} /\ visited = {}
      /\ iter' = iter /\ start' = start /\ visited' = visited
  BY DEF IterInv, Quiet
<1>2. Words(pool.cap)' \in Nat
  <2>1. \A n \in Nat : Words(n) \in Nat
    BY WordsIs
  <2>2. Words(pool.cap)' = Words(pool'.cap)
    BY DEF Words
  <2>3. QED
    BY <2>1, <2>2
<1>3. NoIter \in [on : BOOLEAN, word : {0}, remaining : SUBSET Word]
      /\ NoIter.remaining = {} /\ NoIter.on = FALSE
  BY DEF NoIter
<1>4. NoIter \in [on : BOOLEAN, word : (0 .. Words(pool.cap))', remaining : SUBSET Word]
  BY <1>2, <1>3
<1>5. QED
  BY <1>1, <1>3, <1>4 DEF IterInv

\* A free slot is one that the client does not hold, and there is one unless the
\* client holds all.
LEMMA FreeSlotIs ==
  ASSUME PoolInv
  PROVE  /\ FreeSlot = 0 => DOMAIN held = Slots
         /\ FreeSlot # 0 => FreeSlot - 1 \in Slots \ DOMAIN held
<1> DEFINE n == pool.cap
           bs == pool.data
           f == FirstTrailingZero(bs, n)
<1>1. /\ n \in Nat /\ bs \in Bitsets(n) /\ Slots = 0 .. (n - 1) /\ DOMAIN held \subseteq Slots
      /\ BitsOf(bs) = DOMAIN held /\ FreeSlot = f
  BY PoolIs DEF PoolInv, FreeSlot
<1>2. /\ f = 0 => 0 .. (n - 1) \subseteq BitsOf(bs)
      /\ f # 0 => f - 1 \in 0 .. (n - 1) /\ f - 1 \notin BitsOf(bs)
  <2> HIDE DEF n, bs
  <2>1. QED
    BY <1>1, FirstZeroIs
<1>3. QED
  BY <1>1, <1>2

\* A new pool holds nothing.
LEMMA InitPoolKeeps ==
  ASSUME PoolInv, IterInv, NEW c \in Caps, NEW st \in BOOLEAN, InitPool(c, st)
  PROVE  PoolInv' /\ IterInv'
<1>1. c \in Nat /\ c \in Caps \cup {0}
  BY PoolAssumption
<1>2. DOMAIN held = {}
  <2>1. pool.cap = 0 /\ DOMAIN held \subseteq 0 .. (pool.cap - 1)
    BY PoolIs DEF InitPool, ZeroPool
  <2>2. QED
    BY <2>1
<1>3. ClearAll(c) \in Bitsets(c) /\ BitsOf(ClearAll(c)) = {}
  BY <1>1, ClearAllIs
<1> DEFINE els == [s \in 0 .. (c - 1) |-> Junk]
<1>4. els \in [0 .. (c - 1) -> Vals \cup {Junk}]
  OBVIOUS
<1>5. /\ pool' = [static |-> st, cap |-> c, data |-> ClearAll(c), els |-> els]
      /\ Quiet /\ held' = held
  BY DEF InitPool
<1>6. PoolInv'
  <2> HIDE DEF els
  <2>1. DOMAIN held' = {}
    BY <1>2, <1>5
  <2>2. QED
    BY <1>1, <1>3, <1>4, <1>5, <2>1, PoolBecomes
<1>7. IterInv'
  BY <1>1, <1>5, QuietKeeps
<1>8. QED
  BY <1>6, <1>7

\* Any request that takes the free slot and leaves content v in it.
LEMMA TakeKeeps ==
  ASSUME PoolInv, IterInv, Quiet, FreeSlot # 0, NEW v \in Vals \cup {Junk},
         pool' = [static |-> pool.static, cap |-> pool.cap,
                  data |-> SetBit(pool.data, FreeSlot - 1),
                  els |-> [pool.els EXCEPT ![FreeSlot - 1] = v]],
         held' = Given(FreeSlot - 1, v)
  PROVE  PoolInv' /\ IterInv'
<1> DEFINE s == FreeSlot - 1
           c == pool.cap
           d == SetBit(pool.data, s)
           els == [pool.els EXCEPT ![s] = v]
<1>1. /\ c \in Nat /\ c \in Caps \cup {0} /\ pool.static \in BOOLEAN
      /\ pool.data \in Bitsets(c) /\ pool.els \in [0 .. (c - 1) -> Vals \cup {Junk}]
      /\ Slots = 0 .. (c - 1) /\ DOMAIN held \subseteq Slots
      /\ BitsOf(pool.data) = DOMAIN held
  BY PoolIs DEF PoolInv
<1>2. s \in 0 .. (c - 1) /\ s \notin DOMAIN held
  BY <1>1, FreeSlotIs
<1>3. pool' = [static |-> pool.static, cap |-> c, data |-> d, els |-> els]
  OBVIOUS
<1> HIDE DEF s
<1>4. d \in Bitsets(c) /\ BitsOf(d) = DOMAIN held \cup {s}
  <2> HIDE DEF c
  <2>1. QED
    BY <1>1, <1>2, SetBitIs
<1>5. els \in [0 .. (c - 1) -> Vals \cup {Junk}] /\ els[s] = v
      /\ \A t \in DOMAIN held : els[t] = pool.els[t]
  BY <1>1, <1>2
<1>6. /\ DOMAIN held' = DOMAIN held \cup {s} /\ held'[s] = v
      /\ \A t \in DOMAIN held : held'[t] = held[t]
  BY <1>2 DEF Given, s
<1>7. \A t \in DOMAIN held' : els[t] = held'[t]
  BY <1>5, <1>6 DEF PoolInv, ValuesKept
<1>8. PoolInv'
  <2> HIDE DEF c, d, els
  <2>1. DOMAIN held' \subseteq 0 .. (c - 1)
    BY <1>1, <1>2, <1>6
  <2>2. /\ BitsOf(d) = DOMAIN held' /\ d \in Bitsets(c) /\ c \in Caps \cup {0}
        /\ pool.static \in BOOLEAN /\ els \in [0 .. (c - 1) -> Vals \cup {Junk}]
    BY <1>1, <1>4, <1>5, <1>6
  <2>3. QED
    BY <1>3, <1>7, <2>1, <2>2, PoolBecomes
<1>9. IterInv'
  BY <1>1, <1>3, QuietKeeps
<1>10. QED
  BY <1>8, <1>9

\* New takes a free slot and hands its old value out.
LEMMA NewKeeps ==
  ASSUME PoolInv, IterInv, New
  PROVE  PoolInv' /\ IterInv'
<1> DEFINE s == FreeSlot - 1
           v == pool.els[s]
<1>1. s \in Slots /\ Quiet /\ FreeSlot # 0
  BY FreeSlotIs DEF New
<1>2. v \in Vals \cup {Junk} /\ pool.els = [pool.els EXCEPT ![s] = v]
  BY <1>1, PoolIs
<1>3. pool' = [static |-> pool.static, cap |-> pool.cap, data |-> SetBit(pool.data, s),
               els |-> pool.els]
  BY DEF New, PoolInv
<1>4. held' = Given(s, v)
  BY DEF New
<1> DEFINE els == [pool.els EXCEPT ![s] = v]
<1>5. pool' = [static |-> pool.static, cap |-> pool.cap, data |-> SetBit(pool.data, s),
               els |-> els]
  <2> HIDE DEF els
  <2>1. els = pool.els
    BY <1>2 DEF els
  <2>2. QED
    BY <1>3, <2>1
<1> HIDE DEF v
<1>6. QED
  BY <1>1, <1>2, <1>4, <1>5, TakeKeeps

\* Put takes a free slot and writes it.
LEMMA PutKeeps ==
  ASSUME PoolInv, IterInv, NEW v \in Vals, Put(v)
  PROVE  PoolInv' /\ IterInv'
<1>1. /\ Quiet /\ FreeSlot # 0 /\ held' = Given(FreeSlot - 1, v)
      /\ pool' = [static |-> pool.static, cap |-> pool.cap,
                  data |-> SetBit(pool.data, FreeSlot - 1),
                  els |-> [pool.els EXCEPT ![FreeSlot - 1] = v]]
  BY DEF Put, PoolInv
<1>2. QED
  BY <1>1, TakeKeeps

\* The owner writes to a slot it holds.
LEMMA WriteKeeps ==
  ASSUME PoolInv, IterInv, NEW s \in DOMAIN held, NEW v \in Vals, Write(s, v)
  PROVE  PoolInv' /\ IterInv'
<1> DEFINE c == pool.cap
           els == [pool.els EXCEPT ![s] = v]
<1>1. /\ c \in Nat /\ c \in Caps \cup {0} /\ pool.static \in BOOLEAN
      /\ pool.data \in Bitsets(c) /\ pool.els \in [0 .. (c - 1) -> Vals \cup {Junk}]
      /\ DOMAIN held \subseteq 0 .. (c - 1) /\ BitsOf(pool.data) = DOMAIN held
  BY PoolIs DEF PoolInv
<1>2. pool' = [static |-> pool.static, cap |-> c, data |-> pool.data, els |-> els]
  BY DEF PoolInv, Write
<1>3. Quiet /\ held' = [held EXCEPT ![s] = v]
  BY DEF Write
<1>4. els \in [0 .. (c - 1) -> Vals \cup {Junk}] /\ \A t \in DOMAIN held' : els[t] = held'[t]
  BY <1>1, <1>3 DEF PoolInv, ValuesKept
<1>5. PoolInv'
  <2>1. DOMAIN held' = DOMAIN held
    BY <1>3
  <2> HIDE DEF c, els
  <2>2. QED
    BY <1>1, <1>2, <1>4, <2>1, PoolBecomes
<1>6. IterInv'
  BY <1>1, <1>2, <1>3, QuietKeeps
<1>7. QED
  BY <1>5, <1>6

\* A slot the client holds is freed.
LEMMA FreedKeeps ==
  ASSUME PoolInv, NEW s \in DOMAIN held, pool' = Freed(pool, s), held' = Without(s)
  PROVE  PoolInv' /\ pool'.cap = pool.cap /\ DOMAIN held' = DOMAIN held \ {s}
<1> DEFINE c == pool.cap
           d == ClearBit(pool.data, s)
<1>1. /\ c \in Nat /\ c \in Caps \cup {0} /\ pool.static \in BOOLEAN
      /\ pool.data \in Bitsets(c) /\ pool.els \in [0 .. (c - 1) -> Vals \cup {Junk}]
      /\ DOMAIN held \subseteq 0 .. (c - 1) /\ BitsOf(pool.data) = DOMAIN held
  BY PoolIs DEF PoolInv
<1>2. pool' = [static |-> pool.static, cap |-> c, data |-> d, els |-> pool.els]
  BY DEF PoolInv, Freed
<1>3. d \in Bitsets(c) /\ BitsOf(d) = DOMAIN held \ {s}
  <2>1. s \in 0 .. (c - 1)
    BY <1>1
  <2> HIDE DEF c
  <2>2. QED
    BY <1>1, <2>1, ClearBitIs
<1>4. DOMAIN held' = DOMAIN held \ {s} /\ \A t \in DOMAIN held' : held'[t] = held[t]
  BY DEF Without
<1>5. \A t \in DOMAIN held' : pool.els[t] = held'[t]
  BY <1>4 DEF PoolInv, ValuesKept
<1>6. PoolInv'
  <2>1. DOMAIN held' \subseteq 0 .. (c - 1)
    BY <1>1, <1>4
  <2> HIDE DEF c, d
  <2>2. QED
    BY <1>1, <1>2, <1>3, <1>4, <1>5, <2>1, PoolBecomes
<1>7. QED
  BY <1>2, <1>4, <1>6

\* Delete frees one slot outside of a loop.
LEMMA DeleteKeeps ==
  ASSUME PoolInv, IterInv, NEW s \in DOMAIN held, Delete(s)
  PROVE  PoolInv' /\ IterInv'
<1>1. Quiet /\ pool' = Freed(pool, s) /\ held' = Without(s)
  BY DEF Delete
<1>2. PoolInv' /\ pool'.cap = pool.cap
  BY <1>1, FreedKeeps
<1>3. QED
  BY <1>1, <1>2, PoolIs, QuietKeeps

\* The client holds nothing after pool_clear and pool_release.
LEMMA EmptiedKeeps ==
  ASSUME PoolInv, IterInv, Clear \/ Release
  PROVE  PoolInv' /\ IterInv'
<1> DEFINE c == pool.cap
           d == ClearAll(c)
<1>1. /\ c \in Nat /\ c \in Caps \cup {0} /\ pool.static \in BOOLEAN
      /\ pool.els \in [0 .. (c - 1) -> Vals \cup {Junk}]
  BY PoolIs
<1>2. d \in Bitsets(c) /\ BitsOf(d) = {}
  <2> HIDE DEF c
  <2>1. QED
    BY <1>1, ClearAllIs
<1>3. Quiet /\ held' = <<>> /\ DOMAIN held' = {}
  BY DEF Clear, Release
<1>4. CASE pool' = [pool EXCEPT !.data = d]
  <2>1. pool' = [static |-> pool.static, cap |-> c, data |-> d, els |-> pool.els]
    BY <1>4 DEF PoolInv
  <2>2. PoolInv'
    <3> HIDE DEF c, d
    <3>1. QED
      BY <1>1, <1>2, <1>3, <2>1, PoolBecomes
  <2>3. QED
    BY <1>1, <1>3, <2>1, <2>2, QuietKeeps
<1>5. CASE pool' = ZeroPool
  <2>1. pool' = [static |-> FALSE, cap |-> 0, data |-> <<>>, els |-> <<>>]
    BY <1>5 DEF ZeroPool
  <2>2. <<>> \in Bitsets(0) /\ BitsOf(<<>>) = {} /\ <<>> \in [0 .. (0 - 1) -> Vals \cup {Junk}]
    BY NoWords
  <2>3. PoolInv'
    BY <1>3, <2>1, <2>2, PoolBecomes
  <2>4. QED
    BY <1>3, <2>1, <2>3, QuietKeeps
<1>6. QED
  BY <1>4, <1>5 DEF Clear, Release

-----------------------------------------------------------------------------
(* The loop *)

\* The loop begins before the first word.
LEMMA EraseStartKeeps ==
  ASSUME PoolInv, IterInv, EraseStart
  PROVE  PoolInv' /\ IterInv'
<1>1. UNCHANGED <<pool, held>>
  BY DEF EraseStart
<1>2. PoolInv'
  BY <1>1 DEF PoolInv, Slots, ValuesKept
<1>3. /\ iter' = [on |-> TRUE, word |-> 0, remaining |-> {}]
      /\ start' = DOMAIN held /\ visited' = {}
  BY DEF EraseStart, NoIter
<1>4. Words(pool.cap) \in Nat
  <2>1. pool.cap \in Nat
    BY PoolIs
  <2>2. QED
    BY <2>1, WordsIs
<1>5. Words(pool.cap)' = Words(pool.cap)
  BY <1>1 DEF Words
<1>6. iter' \in [on : BOOLEAN, word : (0 .. Words(pool.cap))', remaining : SUBSET Word]
  BY <1>3, <1>4, <1>5
<1>7. \A i \in DOMAIN held : i \div W >= 0
  <2>1. SUFFICES ASSUME NEW i \in DOMAIN held
                 PROVE  i \div W >= 0
    OBVIOUS
  <2>2. i \in 0 .. (pool.cap - 1) /\ pool.cap \in Nat
    BY PoolIs
  <2>3. i \div W \in Indices(pool.cap)
    BY <2>2, PlaceIn
  <2>4. QED
    BY <1>4, <2>3 DEF Indices
<1>8. Ahead' = DOMAIN held
  BY <1>1, <1>3, <1>7 DEF Ahead
<1>9. Here' = {}
  BY <1>3 DEF Here
<1>10. QED
  BY <1>2, <1>3, <1>6, <1>8, <1>9 DEF IterInv

\* What was ahead of the loop is in the word that it loads, or still ahead.
LEMMA LoadWordKeeps ==
  ASSUME PoolInv, IterInv, LoadWord
  PROVE  PoolInv' /\ IterInv'
<1> DEFINE n == pool.cap
           w == iter.word
           rest == pool.data[w] \cap Valid(n, w)
<1>1. /\ UNCHANGED <<pool, held, start, visited>>
      /\ iter.on /\ iter.remaining = {} /\ w < Words(n)
  BY DEF LoadWord
<1>2. PoolInv'
  BY <1>1 DEF PoolInv, Slots, ValuesKept
<1>3. /\ n \in Nat /\ pool.data \in Bitsets(n) /\ DOMAIN held \subseteq 0 .. (n - 1)
      /\ BitsOf(pool.data) = DOMAIN held
  BY PoolIs DEF PoolInv
<1>4. Words(n) \in Nat
  BY <1>3, WordsIs
<1>5. w \in 0 .. Words(n)
  BY DEF IterInv
<1>6. w \in Indices(n) /\ w \in Nat
  BY <1>1, <1>4, <1>5 DEF Indices
<1>7. iter' = [on |-> TRUE, word |-> w + 1, remaining |-> rest]
  BY <1>1 DEF LoadWord, IterInv
<1>8. rest \subseteq Word
  BY <1>3, <1>6, ValidIs
<1>9. iter' \in [on : BOOLEAN, word : (0 .. Words(pool.cap))', remaining : SUBSET Word]
  <2>1. w + 1 \in 0 .. Words(n) /\ Words(pool.cap)' = Words(n)
    BY <1>1, <1>4, <1>6 DEF Words
  <2>2. QED
    BY <1>7, <1>8, <2>1
<1> DEFINE H == {W * w + b : b \in rest}
           A == {i \in DOMAIN held : i \div W >= w + 1}
<1>10. \A i \in DOMAIN held : i \in H <=> i \div W = w
  <2>1. SUFFICES ASSUME NEW i \in DOMAIN held
                 PROVE  i \in H <=> i \div W = w
    OBVIOUS
  <2>2. i \in Int /\ i < n /\ i \in BitsOf(pool.data)
    BY <1>3
  <2>3. i % W \in Word /\ i = W * (i \div W) + (i % W) /\ i % W \in pool.data[i \div W]
    BY <1>3, <2>2, PlaceOf, BitsOfIs
  <2>4. ASSUME NEW b \in rest, i = W * w + b
        PROVE  i \div W = w
    BY <1>6, <1>8, <2>4, Place
  <2>5. ASSUME i \div W = w
        PROVE  i % W \in rest /\ i = W * w + (i % W)
    BY <1>3, <1>6, <2>2, <2>3, <2>5, ValidIs
  <2>6. QED
    BY <2>4, <2>5
<1>11. H \subseteq DOMAIN held
  <2>1. SUFFICES ASSUME NEW b \in rest
                 PROVE  W * w + b \in BitsOf(pool.data)
    BY <1>3
  <2>2. (W * w + b) \div W = w /\ (W * w + b) % W = b /\ W * w + b \in Int
    BY <1>6, <1>8, Place
  <2>3. QED
    BY <1>3, <1>6, <2>2, BitsOfIs
<1>12. Here' = H /\ Ahead' = A
  <2>1. (w + 1) - 1 = w
    BY <1>6
  <2>2. Here' = H
    BY <1>7, <2>1 DEF Here
  <2>3. QED
    BY <1>1, <1>7, <2>2 DEF Ahead
<1>13. Here = {} /\ Ahead = H \cup A
  <2>1. \A i \in DOMAIN held : i \div W >= w <=> i \div W = w \/ i \div W >= w + 1
    <3>1. \A i \in DOMAIN held : i \div W \in Int
      BY <1>3, PlaceOf
    <3>2. QED
      BY <1>6, <3>1
  <2>2. QED
    BY <1>1, <1>10, <1>11, <2>1 DEF Here, Ahead
<1>14. /\ visited' \cup Here' \cup Ahead' = start' /\ visited' \cap (Here' \cup Ahead') = {}
       /\ Here' \subseteq DOMAIN held'
  <2> HIDE DEF H, A
  <2>1. QED
    BY <1>1, <1>11, <1>12, <1>13 DEF IterInv
<1>15. iter'.on /\ (iter'.remaining # {} => iter'.word >= 1)
  BY <1>6, <1>7
<1>16. QED
  BY <1>2, <1>9, <1>14, <1>15 DEF IterInv

\* The element that is visited is held, and no other that remains is freed with it.
LEMMA VisitKeeps ==
  ASSUME PoolInv, IterInv, NEW pred \in BOOLEAN, Visit(pred)
  PROVE  PoolInv' /\ IterInv'
<1> DEFINE n == pool.cap
           w == iter.word
           b == Min(iter.remaining)
           s == W * (w - 1) + b
           rest == iter.remaining \ {b}
<1>1. /\ iter.on /\ iter.remaining # {} /\ iter.remaining \subseteq Word
      /\ w \in 0 .. Words(n) /\ w >= 1
      /\ n \in Nat
  BY PoolIs DEF Visit, IterInv
<1>2. w \in Nat /\ W \in Nat /\ Words(n) \in Nat
  <2>1. Words(n) \in Nat
    BY <1>1, WordsIs
  <2>2. QED
    BY <1>1, <2>1, BitsetOpsAssumption
<1>3. b \in iter.remaining /\ b \in Word /\ b \in Nat
  <2>1. iter.remaining \subseteq Nat
    BY <1>1, <1>2 DEF Word
  <2>2. QED
    BY <1>1, <2>1, MinIs
<1> HIDE DEF b
<1>4. s \in Here /\ s \in DOMAIN held
  BY <1>1, <1>3 DEF IterInv, Here
<1>5. s = (w - 1) * W + b
  BY <1>2
<1>6. /\ iter' = [on |-> TRUE, word |-> w, remaining |-> rest]
      /\ visited' = visited \cup {s} /\ start' = start
      /\ pool' = (IF pred THEN Freed(pool, s) ELSE pool)
      /\ held' = (IF pred THEN Without(s) ELSE held)
  <2>1. iter' = [iter EXCEPT !.remaining = rest]
    BY DEF Visit, b
  <2>2. iter' = [on |-> TRUE, word |-> w, remaining |-> rest]
    BY <1>1, <2>1 DEF IterInv
  <2>3. QED
    BY <1>5, <2>2 DEF Visit, b
<1> HIDE DEF s
<1>7. PoolInv' /\ pool'.cap = n /\ DOMAIN held \ {s} \subseteq DOMAIN held'
      /\ DOMAIN held' \subseteq DOMAIN held
  <2>1. CASE pred
    BY <1>4, <1>6, <2>1, FreedKeeps
  <2>2. CASE ~pred
    BY <1>6, <2>2 DEF PoolInv, Slots, ValuesKept
  <2>3. QED
    BY <2>1, <2>2
<1>8. iter' \in [on : BOOLEAN, word : (0 .. Words(pool.cap))', remaining : SUBSET Word]
  <2>1. Words(pool.cap)' = Words(n)
    BY <1>7 DEF Words
  <2>2. QED
    BY <1>1, <1>6, <2>1
<1>9. \A c \in Word : (W * (w - 1) + c) \div W = w - 1 /\ (W * (w - 1) + c) % W = c
  <2>1. w - 1 \in Int
    BY <1>2
  <2>2. QED
    BY <2>1, Place
<1>10. Here' = Here \ {s}
  <2>1. Here' = {W * (w - 1) + c : c \in rest}
    BY <1>6 DEF Here
  <2>2. \A c \in iter.remaining : W * (w - 1) + c = s <=> c = b
    BY <1>1, <1>3, <1>9 DEF s
  <2>3. QED
    BY <2>1, <2>2 DEF Here
<1>11. Ahead' = Ahead
  <2>1. s \div W = w - 1 /\ ~ (w - 1 >= w)
    BY <1>2, <1>3, <1>9 DEF s
  <2>2. s \notin Ahead
    BY <2>1 DEF Ahead
  <2>3. Ahead' = {i \in DOMAIN held' : i \div W >= w}
    BY <1>6 DEF Ahead
  <2>4. QED
    BY <1>7, <2>2, <2>3 DEF Ahead
<1>12. s \notin Ahead
  <2>1. s \div W = w - 1 /\ ~ (w - 1 >= w)
    BY <1>2, <1>3, <1>9 DEF s
  <2>2. QED
    BY <2>1 DEF Ahead
<1>13. /\ visited' \cup Here' \cup Ahead' = start' /\ visited' \cap (Here' \cup Ahead') = {}
       /\ Here' \subseteq DOMAIN held'
  <2>1. /\ Here \subseteq DOMAIN held /\ visited \cup Here \cup Ahead = start
        /\ visited \cap (Here \cup Ahead) = {}
    BY <1>1 DEF IterInv
  <2>2. QED
    BY <1>4, <1>6, <1>7, <1>10, <1>11, <1>12, <2>1
<1>14. iter'.on /\ (iter'.remaining # {} => iter'.word >= 1)
  BY <1>1, <1>6
<1>15. QED
  BY <1>7, <1>8, <1>13, <1>14 DEF IterInv

\* The loop is over and forgets what it visited.
LEMMA EraseEndKeeps ==
  ASSUME PoolInv, IterInv, EraseEnd
  PROVE  PoolInv' /\ IterInv'
<1>1. UNCHANGED <<pool, held>> /\ iter' = NoIter /\ start' = {} /\ visited' = {}
  BY DEF EraseEnd
<1>2. PoolInv'
  BY <1>1 DEF PoolInv, Slots, ValuesKept
<1>3. Words(pool.cap) \in Nat
  <2>1. pool.cap \in Nat
    BY PoolIs
  <2>2. QED
    BY <2>1, WordsIs
<1>4. Words(pool.cap)' = Words(pool.cap)
  BY <1>1 DEF Words
<1>5. NoIter \in [on : BOOLEAN, word : (0 .. Words(pool.cap))', remaining : SUBSET Word]
      /\ NoIter.remaining = {} /\ NoIter.on = FALSE
  BY <1>3, <1>4 DEF NoIter
<1>6. QED
  BY <1>1, <1>2, <1>5 DEF IterInv

-----------------------------------------------------------------------------
\* The invariant holds at the start.
LEMMA InitKeeps == Init => IInv
<1>1. SUFFICES ASSUME Init
               PROVE  IInv
  OBVIOUS
<1>2. pool = [static |-> FALSE, cap |-> 0, data |-> <<>>, els |-> <<>>] /\ DOMAIN held = {}
  BY <1>1 DEF Init, ZeroPool
<1>3. Words(0) = 0 /\ <<>> \in Bitsets(0) /\ BitsOf(<<>>) = {}
  BY NoWords
<1>4. PoolInv
  <2>1. Slots = {} /\ <<>> \in [Slots -> Vals \cup {Junk}]
    BY <1>2 DEF Slots
  <2>2. QED
    BY <1>2, <1>3, <2>1 DEF PoolInv, ValuesKept
<1>5. NoIter \in [on : BOOLEAN, word : 0 .. Words(pool.cap), remaining : SUBSET Word]
      /\ NoIter.remaining = {} /\ NoIter.on = FALSE
  BY <1>2, <1>3 DEF NoIter
<1>6. IterInv
  BY <1>1, <1>5 DEF Init, IterInv
<1>7. QED
  BY <1>4, <1>6 DEF IInv

\* Every step keeps it.
LEMMA NextKeeps == IInv /\ [Next]_vars => IInv'
<1>1. SUFFICES ASSUME PoolInv, IterInv, [Next]_vars
               PROVE  PoolInv' /\ IterInv'
  BY DEF IInv
<1>2. ASSUME NEW c \in Caps, NEW st \in BOOLEAN, InitPool(c, st)
      PROVE  PoolInv' /\ IterInv'
  BY <1>1, <1>2, InitPoolKeeps
<1>3. CASE New
  BY <1>1, <1>3, NewKeeps
<1>4. ASSUME NEW v \in Vals, Put(v)
      PROVE  PoolInv' /\ IterInv'
  BY <1>1, <1>4, PutKeeps
<1>5. ASSUME NEW s \in DOMAIN held, NEW v \in Vals, Write(s, v)
      PROVE  PoolInv' /\ IterInv'
  BY <1>1, <1>5, WriteKeeps
<1>6. ASSUME NEW s \in DOMAIN held, Delete(s)
      PROVE  PoolInv' /\ IterInv'
  BY <1>1, <1>6, DeleteKeeps
<1>7. CASE Clear \/ Release
  BY <1>1, <1>7, EmptiedKeeps
<1>8. CASE EraseStart
  BY <1>1, <1>8, EraseStartKeeps
<1>9. CASE LoadWord
  BY <1>1, <1>9, LoadWordKeeps
<1>10. ASSUME NEW pred \in BOOLEAN, Visit(pred)
       PROVE  PoolInv' /\ IterInv'
  BY <1>1, <1>10, VisitKeeps
<1>11. CASE EraseEnd
  BY <1>1, <1>11, EraseEndKeeps
<1>12. CASE UNCHANGED vars
  BY <1>1, <1>12 DEF vars, PoolInv, Slots, ValuesKept, IterInv, Words, Here, Ahead
<1>13. QED
  BY <1>1, <1>2, <1>3, <1>4, <1>5, <1>6, <1>7, <1>8, <1>9, <1>10, <1>11, <1>12 DEF Next

\* The invariant implies what the runs check.
LEMMA HeldFollows == IInv => HeldExact
<1>1. SUFFICES ASSUME PoolInv, IterInv
               PROVE  HeldExact
  BY DEF IInv
<1>2. TypeOK
  <2>1. visited \subseteq start
    BY <1>1 DEF IterInv
  <2>2. /\ pool.cap \in Caps \cup {0} /\ pool.static \in BOOLEAN
        /\ pool.data \in Bitsets(pool.cap) /\ pool.els \in [Slots -> Vals \cup {Junk}]
        /\ DOMAIN held \subseteq Slots
    BY <1>1, PoolIs
  <2>3. iter.on \in BOOLEAN /\ iter.word \in 0 .. Words(pool.cap) /\ iter.remaining \subseteq Word
    BY <1>1 DEF IterInv
  <2>4. QED
    BY <2>1, <2>2, <2>3 DEF TypeOK
<1>3. CountOnes(pool.data) = Cardinality(DOMAIN held)
  <2>1. pool.cap \in Nat /\ pool.data \in Bitsets(pool.cap) /\ BitsOf(pool.data) = DOMAIN held
    BY <1>1, PoolIs DEF PoolInv
  <2>2. QED
    BY <2>1, CountIs
<1>4. (FreeSlot = 0) = (DOMAIN held = Slots)
  BY <1>1, FreeSlotIs
<1>5. QED
  BY <1>1, <1>2, <1>3, <1>4 DEF HeldExact, UsedExact, PoolInv

\* What the loop has visited and what lies ahead of it are what was held at its start.
LEMMA VisitsFollow == IInv => EraseVisitsAll
<1>1. SUFFICES ASSUME PoolInv, IterInv, iter.on
               PROVE  EraseVisitsAll
  BY DEF IInv, EraseVisitsAll
<1> DEFINE here  == {(iter.word - 1) * W + b : b \in iter.remaining}
           ahead == {i \in BitsOf(pool.data) : i \div W >= iter.word}
<1>2. here = Here
  <2>1. iter.word \in 0 .. Words(pool.cap) /\ pool.cap \in Nat
    BY <1>1, PoolIs DEF IterInv
  <2>2. iter.word \in Int
    BY <2>1, WordsIs
  <2>3. W * (iter.word - 1) = (iter.word - 1) * W
    BY <2>2, BitsetOpsAssumption
  <2>4. QED
    BY <2>3 DEF Here
<1>3. ahead = Ahead
  BY <1>1 DEF PoolInv, Ahead
<1>4. visited \cup Here \cup Ahead = start /\ visited \cap (Here \cup Ahead) = {}
  BY <1>1 DEF IterInv
<1>5. QED
  BY <1>1, <1>2, <1>3, <1>4 DEF EraseVisitsAll

\* UsedExact and ValuesKept: no element has two clients or is lost, and each keeps
\* what was stored in it, in the loop of pool_erase_if too.
THEOREM PoolHeldExact == Spec => []HeldExact
<1>1. Spec => []IInv
  BY InitKeeps, NextKeeps, PTL DEF Spec
<1>2. QED
  BY <1>1, HeldFollows, PTL

\* The iterator of pool_erase_if visits every element there was once, although bits
\* of the word it has loaded are cleared under it.
THEOREM PoolEraseVisitsAll == Spec => []EraseVisitsAll
<1>1. Spec => []IInv
  BY InitKeeps, NextKeeps, PTL DEF Spec
<1>2. QED
  BY <1>1, VisitsFollow, PTL

-----------------------------------------------------------------------------
(* The two bitsets of Bitset, of any names and any size *)

\* What the actions read of the invariant.
LEMMA RepresentsIs ==
  ASSUME Represents
  PROVE  /\ nbits \in Nat \ {0} /\ DOMAIN bits = Names /\ DOMAIN set = Names
         /\ \A x \in Names : /\ bits[x] \in Bitsets(nbits) /\ set[x] \subseteq 0 .. (nbits - 1)
                             /\ BitsOf(bits[x]) = set[x] /\ Stands(bits[x], nbits, set[x])
<1>1. /\ nbits \in Sizes /\ nbits \in Nat \ {0} /\ bits \in [Names -> Bitsets(nbits)]
      /\ set \in [Names -> SUBSET (0 .. (nbits - 1))]
      /\ \A x \in Names : BitsOf(bits[x]) = set[x]
  BY BitsetAssumption DEF Represents, BitsetTypeOK, Universe
<1>2. ASSUME NEW x \in Names
      PROVE  Stands(bits[x], nbits, set[x])
  BY <1>1, StandsIs
<1>3. QED
  BY <1>1, <1>2

\* It is kept when a bitset becomes one that stands for its new set.
LEMMA BecomesKeeps ==
  ASSUME Represents, NEW x \in Names, NEW f, NEW S, S \subseteq 0 .. (nbits - 1),
         Stands(f, nbits, S), Becomes(x, f, S)
  PROVE  Represents'
<1>1. /\ nbits \in Sizes /\ nbits \in Nat \ {0} /\ bits \in [Names -> Bitsets(nbits)]
      /\ set \in [Names -> SUBSET (0 .. (nbits - 1))]
      /\ \A y \in Names : BitsOf(bits[y]) = set[y]
  BY BitsetAssumption DEF Represents, BitsetTypeOK, Universe
<1>2. f \in Bitsets(nbits) /\ BitsOf(f) = S
  <2>1. f \in Bitsets(nbits)
    BY DEF Stands
  <2>2. QED
    BY <1>1, <2>1, StandsIs
<1>3. bits' = [bits EXCEPT ![x] = f] /\ set' = [set EXCEPT ![x] = S] /\ nbits' = nbits
  BY DEF Becomes
<1>4. /\ nbits' \in Sizes /\ bits' \in [Names -> Bitsets(nbits')]
      /\ set' \in [Names -> SUBSET (0 .. (nbits' - 1))]
      /\ \A y \in Names : BitsOf(bits'[y]) = set'[y]
  BY <1>1, <1>2, <1>3
<1>5. QED
  BY <1>4 DEF Represents, BitsetTypeOK, Universe

\* bitset_set, bitset_clear and bitset_flip keep what each bitset stands for exact.
LEMMA OneBitKeeps ==
  ASSUME Represents, NEW x \in Names, NEW i \in 0 .. (nbits - 1), OneBit(x, i)
  PROVE  Represents'
<1> DEFINE f == bits[x]
           S == set[x]
<1>1. nbits \in Nat /\ f \in Bitsets(nbits) /\ S \subseteq 0 .. (nbits - 1) /\ BitsOf(f) = S
  BY RepresentsIs
<1>2. \/ Becomes(x, SetBit(f, i), S \cup {i})
      \/ Becomes(x, ClearBit(f, i), S \ {i})
      \/ Becomes(x, FlipBit(f, i), Xor(S, {i}))
  BY DEF OneBit
<1> HIDE DEF f, S
<1>3. CASE Becomes(x, SetBit(f, i), S \cup {i})
  <2>1. SetBit(f, i) \in Bitsets(nbits) /\ BitsOf(SetBit(f, i)) = S \cup {i}
    BY <1>1, SetBitIs
  <2>2. S \cup {i} \subseteq 0 .. (nbits - 1)
    BY <1>1
  <2>3. Stands(SetBit(f, i), nbits, S \cup {i})
    BY <1>1, <2>1, <2>2, StandsIs
  <2>4. QED
    BY <1>3, <2>2, <2>3, BecomesKeeps
<1>4. CASE Becomes(x, ClearBit(f, i), S \ {i})
  <2>1. ClearBit(f, i) \in Bitsets(nbits) /\ BitsOf(ClearBit(f, i)) = S \ {i}
    BY <1>1, ClearBitIs
  <2>2. S \ {i} \subseteq 0 .. (nbits - 1)
    BY <1>1
  <2>3. Stands(ClearBit(f, i), nbits, S \ {i})
    BY <1>1, <2>1, <2>2, StandsIs
  <2>4. QED
    BY <1>4, <2>2, <2>3, BecomesKeeps
<1>5. CASE Becomes(x, FlipBit(f, i), Xor(S, {i}))
  <2>1. FlipBit(f, i) \in Bitsets(nbits) /\ BitsOf(FlipBit(f, i)) = Xor(S, {i})
    BY <1>1, FlipBitIs
  <2>2. Xor(S, {i}) \subseteq 0 .. (nbits - 1)
    BY <1>1 DEF Xor
  <2>3. Stands(FlipBit(f, i), nbits, Xor(S, {i}))
    BY <1>1, <2>1, <2>2, StandsIs
  <2>4. QED
    BY <1>5, <2>2, <2>3, BecomesKeeps
<1>6. QED
  BY <1>2, <1>3, <1>4, <1>5

\* So do the operations on ranges,
LEMMA BitRangeKeeps ==
  ASSUME Represents, NEW x \in Names, NEW s \in 0 .. nbits, NEW e \in 0 .. nbits, s <= e,
         BitRange(x, s, e)
  PROVE  Represents'
<1> DEFINE f == bits[x]
           S == set[x]
           R == s .. (e - 1)
<1>1. nbits \in Nat /\ S \subseteq 0 .. (nbits - 1) /\ Stands(f, nbits, S)
  BY RepresentsIs
<1>2. \/ Becomes(x, SetRange(f, s, e), S \cup R)
      \/ Becomes(x, ClearRange(f, s, e), S \ R)
      \/ Becomes(x, FlipRange(f, s, e), Xor(S, R))
  BY DEF BitRange
<1> HIDE DEF f, S
<1>3. /\ Stands(SetRange(f, s, e), nbits, S \cup R) /\ Stands(ClearRange(f, s, e), nbits, S \ R)
      /\ Stands(FlipRange(f, s, e), nbits, Xor(S, R))
  BY <1>1, RangeIs
<1>4. R \subseteq 0 .. (nbits - 1)
  BY <1>1
<1> HIDE DEF R
<1>5. /\ S \cup R \subseteq 0 .. (nbits - 1) /\ S \ R \subseteq 0 .. (nbits - 1)
      /\ Xor(S, R) \subseteq 0 .. (nbits - 1)
  BY <1>1, <1>4 DEF Xor
<1>6. QED
  BY <1>2, <1>3, <1>5, BecomesKeeps

\* the ones on all bits,
LEMMA WholeKeeps ==
  ASSUME Represents, NEW x \in Names, Whole(x)
  PROVE  Represents'
<1> DEFINE f == bits[x]
           S == set[x]
           U == 0 .. (nbits - 1)
<1>1. nbits \in Nat /\ S \subseteq U /\ Stands(f, nbits, S)
  BY RepresentsIs
<1>2. \/ Becomes(x, SetAll(nbits), U)
      \/ Becomes(x, ClearAll(nbits), {})
      \/ Becomes(x, FlipAll(f, nbits), U \ S)
  BY DEF Whole, Universe
<1> HIDE DEF f, S
<1>3. /\ Stands(SetAll(nbits), nbits, U) /\ Stands(ClearAll(nbits), nbits, {})
      /\ Stands(FlipAll(f, nbits), nbits, U \ S)
  BY <1>1, WholeIs
<1>4. U \subseteq U /\ {} \subseteq U /\ U \ S \subseteq U
  OBVIOUS
<1>5. QED
  BY <1>2, <1>3, <1>4, BecomesKeeps

\* BITSET_CLEAR_IF,
LEMMA ClearWhereKeeps ==
  ASSUME Represents, NEW x \in Names, NEW P, ClearWhere(x, P)
  PROVE  Represents'
<1>1. nbits \in Nat /\ set[x] \subseteq 0 .. (nbits - 1) /\ Stands(bits[x], nbits, set[x])
  BY RepresentsIs
<1>2. Becomes(x, ClearIf(bits[x], P), set[x] \ P)
  BY DEF ClearWhere
<1>3. Stands(ClearIf(bits[x], P), nbits, set[x] \ P) /\ set[x] \ P \subseteq 0 .. (nbits - 1)
  BY <1>1, ClearIfIs
<1>4. QED
  BY <1>2, <1>3, BecomesKeeps

\* bitset_fromstr,
LEMMA ReadTextKeeps ==
  ASSUME Represents, NEW x \in Names, NEW S \in SUBSET (0 .. (nbits - 1)), ReadText(x, S)
  PROVE  Represents'
<1> DEFINE digits == [d \in 1 .. nbits |-> IF nbits - d \in S THEN 1 ELSE 0]
<1>1. nbits \in Nat
  BY RepresentsIs
<1>2. Becomes(x, FromStr(digits, nbits), S)
  BY DEF ReadText
<1>3. Stands(FromStr(digits, nbits), nbits, S)
  BY <1>1, FromStrIs
<1> HIDE DEF digits
<1>4. QED
  BY <1>2, <1>3, BecomesKeeps

\* the operations with a second bitset, or with the same one,
LEMMA CombineKeeps ==
  ASSUME Represents, NEW x \in Names, NEW y \in Names, Combine(x, y)
  PROVE  Represents'
<1> DEFINE f == bits[x]
           g == bits[y]
           S == set[x]
           T == set[y]
           U == 0 .. (nbits - 1)
<1>1. /\ nbits \in Nat /\ S \subseteq U /\ T \subseteq U
      /\ Stands(f, nbits, S) /\ Stands(g, nbits, T)
  BY RepresentsIs
<1>2. \/ Becomes(x, Or(f, g), S \cup T)
      \/ Becomes(x, And(f, g), S \cap T)
      \/ Becomes(x, XorWith(f, g), Xor(S, T))
      \/ Becomes(x, Sub(f, g, nbits), S \ T)
      \/ Becomes(x, FlipAll(g, nbits), U \ T)
      \/ Becomes(x, g, T)
  BY DEF Combine, Universe
<1> HIDE DEF f, g, S, T
<1>3. /\ Stands(Or(f, g), nbits, S \cup T) /\ Stands(And(f, g), nbits, S \cap T)
      /\ Stands(XorWith(f, g), nbits, Xor(S, T))
  BY <1>1, CombinedIs
<1>4. Stands(Sub(f, g, nbits), nbits, S \ T)
  BY <1>1, SubIs
<1>5. Stands(FlipAll(g, nbits), nbits, U \ T)
  BY <1>1, WholeIs
<1> HIDE DEF U
<1>6. /\ S \cup T \subseteq U /\ S \cap T \subseteq U /\ Xor(S, T) \subseteq U
      /\ S \ T \subseteq U /\ U \ T \subseteq U
  BY <1>1 DEF Xor
<1>7. QED
  BY <1>1, <1>2, <1>3, <1>4, <1>5, <1>6, BecomesKeeps DEF U

\* and the shifts, in place or from another bitset.
LEMMA ShiftKeeps ==
  ASSUME Represents, NEW x \in Names, NEW y \in Names, NEW sh \in Nat, Shift(x, y, sh)
  PROVE  Represents'
<1> DEFINE g == bits[y]
           T == set[y]
           U == 0 .. (nbits - 1)
           L == {i \in U : i >= sh /\ (i - sh) \in T}
           R == {i \in U : (i + sh) \in T}
<1>1. nbits \in Nat /\ T \subseteq U /\ g \in Bitsets(nbits) /\ Stands(g, nbits, T)
  BY RepresentsIs
<1>2. \/ Becomes(x, IF x = y THEN ShiftLeft(g, nbits, sh) ELSE ShiftLeftInto(g, nbits, sh), L)
      \/ Becomes(x, IF x = y THEN ShiftRight(g, nbits, sh) ELSE ShiftRightInto(g, nbits, sh), R)
  BY DEF Shift, Universe
<1>3. L \subseteq U /\ R \subseteq U
  OBVIOUS
<1> HIDE DEF g, T
<1>4. Stands(ShiftLeftInto(g, nbits, sh), nbits, L) /\ Stands(ShiftRightInto(g, nbits, sh), nbits, R)
  BY <1>1, ShiftIntoIs
<1>5. /\ ShiftLeft(g, nbits, sh) = ShiftLeftInto(g, nbits, sh)
      /\ ShiftRight(g, nbits, sh) = ShiftRightInto(g, nbits, sh)
  BY <1>1, ShiftLeftIs, ShiftRightIs
<1> HIDE DEF L, R
<1>6. \/ Becomes(x, ShiftLeftInto(g, nbits, sh), L)
      \/ Becomes(x, ShiftRightInto(g, nbits, sh), R)
  BY <1>2, <1>5
<1>7. QED
  BY <1>3, <1>4, <1>6, BecomesKeeps

\* It holds of cleared bitsets,
LEMMA BitsetInitKeeps == BitsetInit => Represents
<1> SUFFICES ASSUME BitsetInit
             PROVE  Represents
  OBVIOUS
<1>1. nbits \in Sizes /\ nbits \in Nat \ {0} /\ bits = [x \in Names |-> ClearAll(nbits)] /\ set = [x \in Names |-> {}]
  BY BitsetAssumption DEF BitsetInit
<1>2. ClearAll(nbits) \in Bitsets(nbits) /\ BitsOf(ClearAll(nbits)) = {}
  BY <1>1, ClearAllIs
<1>3. /\ bits \in [Names -> Bitsets(nbits)] /\ set \in [Names -> SUBSET (0 .. (nbits - 1))]
      /\ \A x \in Names : BitsOf(bits[x]) = set[x]
  BY <1>1, <1>2
<1>4. QED
  BY <1>1, <1>3 DEF Represents, BitsetTypeOK, Universe

\* and every operation keeps it.
LEMMA BitsetNextKeeps == Represents /\ [BitsetNext]_(bitsetVars) => Represents'
<1> SUFFICES ASSUME Represents, [BitsetNext]_(bitsetVars)
             PROVE  Represents'
  OBVIOUS
<1>1. nbits \in Nat /\ Universe = 0 .. (nbits - 1)
  BY RepresentsIs DEF Universe
<1>2. ASSUME NEW x \in Names, NEW i \in Universe, OneBit(x, i)
      PROVE  Represents'
  BY <1>1, <1>2, OneBitKeeps
<1>3. ASSUME NEW x \in Names, NEW s \in 0 .. nbits, NEW e \in 0 .. nbits, s <= e, BitRange(x, s, e)
      PROVE  Represents'
  BY <1>3, BitRangeKeeps
<1>4. ASSUME NEW x \in Names, Whole(x)
      PROVE  Represents'
  BY <1>4, WholeKeeps
<1>5. ASSUME NEW x \in Names, NEW S \in SUBSET Universe, ClearWhere(x, S) \/ ReadText(x, S)
      PROVE  Represents'
  BY <1>1, <1>5, ClearWhereKeeps, ReadTextKeeps
<1>6. ASSUME NEW x \in Names, NEW y \in Names, Combine(x, y)
      PROVE  Represents'
  BY <1>6, CombineKeeps
<1>7. ASSUME NEW x \in Names, NEW y \in Names, NEW sh \in 0 .. (nbits + 1), Shift(x, y, sh)
      PROVE  Represents'
  <2>1. sh \in Nat
    BY <1>1
  <2>2. QED
    BY <1>7, <2>1, ShiftKeeps
<1>8. CASE UNCHANGED bitsetVars
  BY <1>8 DEF bitsetVars, Represents, BitsetTypeOK, Universe
<1>9. QED
  BY <1>2, <1>3, <1>4, <1>5, <1>6, <1>7, <1>8 DEF BitsetNext

\* Whatever operations are applied to bitsets of one size, each stands for the set that
\* the documentation says and no padding bit is set: for every word size, every size
\* and every number of bitsets, shifts in place or from another one included.
THEOREM BitsetRepresents == BitsetSpec => []Represents
<1>1. BitsetInit => Represents
  BY BitsetInitKeeps
<1>2. Represents /\ [BitsetNext]_(bitsetVars) => Represents'
  BY BitsetNextKeeps
<1>3. QED
  BY <1>1, <1>2, PTL DEF BitsetSpec

-----------------------------------------------------------------------------
(* What the queries answer *)

\* The greatest of some naturals that are not beyond all bounds.
LEMMA MaxIs ==
  ASSUME NEW S, S \subseteq Nat, S # {}, NEW c \in Nat, \A y \in S : y <= c
  PROVE  Max(S) \in S /\ \A x \in S : x <= Max(S)
<1>1. PICK m \in S : \A x \in S : x <= m
  BY GreatestExists
<1>2. \A x \in S : m >= x
  BY <1>1
<1>3. Max(S) \in S /\ \A x \in S : Max(S) >= x
  BY <1>2 DEF Max
<1>4. QED
  BY <1>3

\* There is one least of some naturals.
LEMMA MinOne ==
  ASSUME NEW S, S \subseteq Nat, NEW m \in S, \A x \in S : m <= x
  PROVE  Min(S) = m
<1>1. Min(S) \in S /\ Min(S) <= m /\ Min(S) \in Nat /\ m \in Nat
  BY MinIs
<1>2. m <= Min(S)
  BY <1>1
<1>3. QED
  BY <1>1, <1>2

\* The same of the greatest.
LEMMA MaxOne ==
  ASSUME NEW S, S \subseteq Nat, NEW m \in S, \A x \in S : x <= m
  PROVE  Max(S) = m
<1>1. Max(S) \in S /\ m <= Max(S) /\ Max(S) \in Nat /\ m \in Nat
  BY MaxIs
<1>2. Max(S) <= m
  BY <1>1
<1>3. QED
  BY <1>1, <1>2

\* The words of a bitset that have a bit.
Filled(f) == {w \in DOMAIN f : f[w] # {}}

\* Each position in a bitset is that of a place of one of these words.
LEMMA FilledIs ==
  ASSUME NEW n \in Nat, NEW f \in Bitsets(n)
  PROVE  /\ Filled(f) \subseteq Indices(n) /\ Filled(f) \subseteq Nat
         /\ Filled(f) = {} <=> BitsOf(f) = {}
         /\ BitsOf(f) \subseteq Nat
         /\ \A i \in BitsOf(f) : /\ i \div W \in Filled(f) /\ i % W \in f[i \div W]
                                 /\ i % W \in Word /\ i = W * (i \div W) + (i % W)
         /\ \A w \in Filled(f) : f[w] # {} /\ f[w] \subseteq Word /\ f[w] \subseteq Nat
                                 /\ \A b \in f[w] : b \in Word /\ W * w + b \in BitsOf(f)
<1>1. /\ DOMAIN f = Indices(n) /\ \A w \in Indices(n) : w \in Nat /\ f[w] \subseteq Word
      /\ BitsOf(f) \subseteq Nat
      /\ \A i \in Int : i \in BitsOf(f) <=> i \div W \in Indices(n) /\ i % W \in f[i \div W]
  BY BitsOfIs
<1>2. ASSUME NEW i \in BitsOf(f)
      PROVE  /\ i \div W \in Filled(f) /\ i % W \in f[i \div W] /\ i % W \in Word
             /\ i = W * (i \div W) + (i % W)
  <2>1. i \in Int
    BY <1>1
  <2>2. i \div W \in Indices(n) /\ i % W \in f[i \div W]
    BY <1>1, <2>1
  <2>3. i % W \in Word /\ i = W * (i \div W) + (i % W)
    BY <2>1, PlaceOf
  <2>4. QED
    BY <1>1, <2>2, <2>3 DEF Filled
<1>3. ASSUME NEW w \in Filled(f)
      PROVE  f[w] # {} /\ f[w] \subseteq Word /\ f[w] \subseteq Nat
             /\ \A b \in f[w] : b \in Word /\ W * w + b \in BitsOf(f)
  <2>1. w \in Indices(n) /\ w \in Int /\ f[w] # {} /\ f[w] \subseteq Word
    BY <1>1 DEF Filled
  <2>2. ASSUME NEW b \in f[w]
        PROVE  b \in Word /\ W * w + b \in BitsOf(f)
    <3>1. b \in Word
      BY <2>1
    <3>2. W * w + b \in Int /\ (W * w + b) \div W = w /\ (W * w + b) % W = b
      BY <2>1, <3>1, Place
    <3>3. QED
      BY <1>1, <2>1, <3>1, <3>2
  <2>3. Word \subseteq Nat
    BY DEF Word
  <2>4. QED
    BY <2>1, <2>2, <2>3
<1>4. Filled(f) = {} <=> BitsOf(f) = {}
  BY <1>2, <1>3
<1>5. Filled(f) \subseteq Indices(n) /\ Filled(f) \subseteq Nat
  BY <1>1 DEF Filled
<1>6. QED
  BY <1>1, <1>2, <1>3, <1>4, <1>5

\* The lowest bit is the lowest of the lowest word that has one.
LEMMA LowestIs ==
  ASSUME NEW n \in Nat, NEW f \in Bitsets(n), Filled(f) # {}
  PROVE  LET w == Min(Filled(f)) IN
         /\ w \in Filled(f) /\ w \in Nat /\ f[w] # {} /\ Min(f[w]) \in Word
         /\ Min(BitsOf(f)) = W * w + Min(f[w])
<1> DEFINE w == Min(Filled(f))
           b == Min(f[w])
<1>1. w \in Filled(f) /\ w \in Nat /\ \A v \in Filled(f) : w <= v
  <2>1. Filled(f) \subseteq Nat
    BY FilledIs
  <2>2. QED
    BY <2>1, MinIs
<1> HIDE DEF w
<1>2. f[w] # {} /\ f[w] \subseteq Nat /\ f[w] \subseteq Word
  BY <1>1, FilledIs
<1>3. b \in f[w] /\ \A c \in f[w] : b <= c
  BY <1>2, MinIs
<1> HIDE DEF b
<1>4. b \in Word /\ W * w + b \in BitsOf(f) /\ BitsOf(f) \subseteq Nat
  BY <1>1, <1>3, FilledIs
<1>5. ASSUME NEW i \in BitsOf(f)
      PROVE  W * w + b <= i
  <2>1. PICK v \in Filled(f) : \E c \in f[v] : i = W * v + c
    BY FilledIs
  <2>2. PICK c \in f[v] : i = W * v + c
    BY <2>1
  <2>3. v \in Int /\ w \in Int /\ c \in Word
    BY <1>1, <2>1, <2>2, FilledIs
  <2>4. w <= v /\ (w = v => b <= c)
    BY <1>1, <1>3, <2>1, <2>2
  <2>5. w < v \/ (w = v /\ b <= c)
    BY <2>3, <2>4
  <2>6. QED
    BY <1>4, <2>2, <2>3, <2>5, PlaceOrder
<1>6. Min(BitsOf(f)) = W * w + b
  BY <1>4, <1>5, MinOne
<1>7. QED
  BY <1>1, <1>2, <1>4, <1>6 DEF w, b

\* The highest bit is the highest of the highest word that has one.
LEMMA HighestIs ==
  ASSUME NEW n \in Nat, NEW f \in Bitsets(n), Filled(f) # {}
  PROVE  LET w == Max(Filled(f)) IN
         /\ w \in Filled(f) /\ w \in Nat /\ (\A v \in Filled(f) : v <= w)
         /\ f[w] # {} /\ Max(f[w]) \in Word /\ Max(f[w]) \in f[w]
         /\ (\A c \in f[w] : c <= Max(f[w]))
         /\ Max(BitsOf(f)) = W * w + Max(f[w])
<1> DEFINE w == Max(Filled(f))
           b == Max(f[w])
<1>1. w \in Filled(f) /\ w \in Nat /\ \A v \in Filled(f) : v <= w
  <2>1. Filled(f) \subseteq Nat /\ Filled(f) \subseteq Indices(n)
    BY FilledIs
  <2>2. Words(n) \in Nat
    BY WordsIs
  <2>3. \A v \in Filled(f) : v <= Words(n)
    BY <2>1, <2>2 DEF Indices
  <2>4. QED
    BY <2>1, <2>2, <2>3, MaxIs
<1> HIDE DEF w
<1>2. f[w] # {} /\ f[w] \subseteq Nat /\ f[w] \subseteq Word
  BY <1>1, FilledIs
<1>3. b \in f[w] /\ \A c \in f[w] : c <= b
  <2>1. W \in Nat /\ \A c \in f[w] : c <= W
    BY <1>2, BitsetOpsAssumption DEF Word
  <2>2. QED
    BY <1>2, <2>1, MaxIs
<1> HIDE DEF b
<1>4. b \in Word /\ W * w + b \in BitsOf(f) /\ BitsOf(f) \subseteq Nat
  BY <1>1, <1>3, FilledIs
<1>5. ASSUME NEW i \in BitsOf(f)
      PROVE  i <= W * w + b
  <2>1. PICK v \in Filled(f) : \E c \in f[v] : i = W * v + c
    BY FilledIs
  <2>2. PICK c \in f[v] : i = W * v + c
    BY <2>1
  <2>3. v \in Int /\ w \in Int /\ c \in Word
    BY <1>1, <2>1, <2>2, FilledIs
  <2>4. v <= w /\ (w = v => c <= b)
    BY <1>1, <1>3, <2>1, <2>2
  <2>5. v < w \/ (v = w /\ c <= b)
    BY <2>3, <2>4
  <2>6. QED
    BY <1>4, <2>2, <2>3, <2>5, PlaceOrder
<1>6. Max(BitsOf(f)) = W * w + b
  BY <1>4, <1>5, MaxOne
<1>7. QED
  BY <1>1, <1>2, <1>3, <1>4, <1>6 DEF w, b

\* The words that bitset_find_next_clear searches.
LEMMA ZerosIs ==
  ASSUME NEW n \in Nat, NEW S, S \subseteq 0 .. (n - 1), NEW f, Stands(f, n, S)
  PROVE  /\ Zeros(f, n) \in Bitsets(n) /\ Stands(Zeros(f, n), n, (0 .. (n - 1)) \ S)
         /\ BitsOf(Zeros(f, n)) = (0 .. (n - 1)) \ S
         /\ Zeros(f, n) = FlipAll(f, n)
<1>1. DOMAIN f = Indices(n) /\ \A w \in Indices(n) : f[w] \subseteq Word
  BY DEF Stands, Bitsets
<1>2. \A w \in Indices(n) : Valid(n, w) \subseteq Word
  BY ValidIs
<1>3. Zeros(f, n) = FlipAll(f, n)
  BY <1>1, <1>2 DEF Zeros, FlipAll, ClearPadding
<1>4. Stands(Zeros(f, n), n, (0 .. (n - 1)) \ S)
  BY <1>3, WholeIs
<1>5. Zeros(f, n) \in Bitsets(n)
  BY <1>4 DEF Stands
<1>6. BitsOf(Zeros(f, n)) = (0 .. (n - 1)) \ S
  <2>1. (0 .. (n - 1)) \ S \subseteq 0 .. (n - 1)
    OBVIOUS
  <2>2. QED
    BY <1>4, <1>5, <2>1, StandsIs
<1>7. QED
  BY <1>3, <1>4, <1>5, <1>6

\* bitset_first_trailing_one and bitset_first_trailing_zero
LEMMA FirstTrailingIs ==
  ASSUME NEW n \in Nat, NEW S, S \subseteq 0 .. (n - 1), NEW f, Stands(f, n, S)
  PROVE  LET Z == (0 .. (n - 1)) \ S IN
         /\ FirstTrailingOne(f, n) = IF S = {} THEN 0 ELSE Min(S) + 1
         /\ FirstTrailingZero(f, n) = IF Z = {} THEN 0 ELSE Min(Z) + 1
<1> DEFINE Z == (0 .. (n - 1)) \ S
           z == Zeros(f, n)
<1>1. ASSUME NEW g \in Bitsets(n)
      PROVE  (IF Filled(g) = {} THEN 0 ELSE TrailingOne(g[Min(Filled(g))]) + W * Min(Filled(g)))
               = IF BitsOf(g) = {} THEN 0 ELSE Min(BitsOf(g)) + 1
  <2>1. CASE Filled(g) = {}
    <3>1. BitsOf(g) = {}
      BY <2>1, FilledIs
    <3>2. QED
      BY <2>1, <3>1
  <2>2. CASE Filled(g) # {}
    <3> DEFINE w == Min(Filled(g))
               b == Min(g[w])
    <3>1. w \in Nat /\ g[w] # {} /\ b \in Word /\ Min(BitsOf(g)) = W * w + b /\ BitsOf(g) # {}
      BY <2>2, LowestIs, FilledIs
    <3>2. TrailingOne(g[w]) = b + 1
      BY <3>1 DEF TrailingOne
    <3>3. W * w \in Nat /\ b \in Nat
      BY <3>1, BitsetOpsAssumption DEF Word
    <3> HIDE DEF w, b
    <3>4. TrailingOne(g[w]) + W * w = Min(BitsOf(g)) + 1
      BY <3>1, <3>2, <3>3
    <3>5. QED
      BY <2>2, <3>1, <3>4 DEF w
  <2>3. QED
    BY <2>1, <2>2
<1>2. f \in Bitsets(n) /\ BitsOf(f) = S /\ DOMAIN f = Indices(n)
  <2>1. f \in Bitsets(n)
    BY DEF Stands
  <2>2. QED
    BY <2>1, StandsIs DEF Bitsets
<1>3. z \in Bitsets(n) /\ BitsOf(z) = Z
  BY ZerosIs
<1>4. {w \in Indices(n) : f[w] # {}} = Filled(f)
  BY <1>2 DEF Filled
<1>5. /\ {w \in Indices(n) : Valid(n, w) \ f[w] # {}} = Filled(z)
      /\ \A w \in Indices(n) : z[w] = Valid(n, w) \ f[w]
  BY <1>2 DEF Filled, Zeros
<1>6. FirstTrailingOne(f, n) = IF S = {} THEN 0 ELSE Min(S) + 1
  BY <1>1, <1>2, <1>4 DEF FirstTrailingOne
<1>7. FirstTrailingZero(f, n) = IF Z = {} THEN 0 ELSE Min(Z) + 1
  <2>1. Filled(z) # {} => Min(Filled(z)) \in Indices(n)
    BY <1>3, LowestIs, FilledIs
  <2>2. FirstTrailingZero(f, n) = IF Filled(z) = {} THEN 0
                                  ELSE TrailingOne(z[Min(Filled(z))]) + W * Min(Filled(z))
    BY <1>5, <2>1 DEF FirstTrailingZero
  <2> HIDE DEF z, Z
  <2>3. QED
    BY <1>1, <1>3, <2>2
<1>8. QED
  BY <1>6, <1>7

\* bitset_first_leading_one and bitset_first_leading_zero, which leave the padding of the
\* last word out by shifting it away.
LEMMA FirstLeadingIs ==
  ASSUME NEW n \in Nat \ {0}, NEW sought \in Bitsets(n), NEW T,
         T = BitsOf(ClearPadding(sought, n))
  PROVE  FirstLeading(sought, n) = IF T = {} THEN 0 ELSE n - Max(T)
<1> DEFINE m == ClearPadding(sought, n)
           rest == Rest(n)
           last == Words(n) - 1
           top == IF rest # 0 THEN last - 1 ELSE last
           high == ShiftedUp(sought[last], W - rest)
           found == {w \in Indices(n) : w <= top /\ sought[w] # {}}
<1>1. /\ W \in Nat \ {0} /\ rest \in 0 .. (W - 1) /\ last \in Nat /\ Indices(n) = 0 .. last
      /\ n = IF rest = 0 THEN W * (last + 1) ELSE W * last + rest
  <2> DEFINE q == n \div W
  <2>1. /\ q \in Nat /\ rest \in 0 .. (W - 1) /\ n = W * q + rest
        /\ Words(n) = IF rest = 0 THEN q ELSE q + 1
    BY WordsIs
  <2> HIDE DEF q, rest
  <2>2. W \in Nat \ {0}
    BY BitsetOpsAssumption
  <2>3. CASE rest = 0
    <3>1. q # 0
      BY <2>1, <2>2, <2>3
    <3>2. last = q - 1
      BY <2>1, <2>3
    <3>3. QED
      BY <2>1, <2>2, <2>3, <3>1, <3>2 DEF Indices
  <2>4. CASE rest # 0
    <3>1. last = q
      BY <2>1, <2>4
    <3>2. QED
      BY <2>1, <2>2, <2>4, <3>1 DEF Indices
  <2>5. QED
    BY <2>3, <2>4
<1>2. /\ DOMAIN sought = Indices(n) /\ \A w \in Indices(n) : sought[w] \subseteq Word
      /\ DOMAIN m = Indices(n)
  BY DEF Bitsets, ClearPadding
<1>3. /\ \A w \in Indices(n) : ~(rest # 0 /\ w = last) => m[w] = sought[w]
      /\ rest # 0 => m[last] = sought[last] \cap (0 .. (rest - 1))
  <2>1. last \in Indices(n)
    BY <1>1
  <2>2. \A w \in Indices(n) : m[w] = sought[w] \cap Valid(n, w)
    BY <1>2 DEF ClearPadding
  <2>3. \A w \in Indices(n) : ~(rest # 0 /\ w = last) => Valid(n, w) = Word
    BY DEF Valid
  <2>4. rest # 0 => Valid(n, last) = 0 .. (rest - 1)
    BY DEF Valid
  <2> HIDE DEF m, rest, last
  <2>5. QED
    BY <1>2, <2>1, <2>2, <2>3, <2>4
<1>4. m \in Bitsets(n)
  BY <1>2 DEF ClearPadding, Bitsets
<1>5. FirstLeading(sought, n) = IF rest # 0 /\ high # {} THEN LeadingOne(high)
                                ELSE IF found = {} THEN 0
                                ELSE LeadingOne(sought[Max(found)]) + rest + W * (top - Max(found))
  BY DEF FirstLeading
<1>6. T = BitsOf(m)
  OBVIOUS
<1> HIDE DEF m, rest, last
<1>7. CASE rest # 0 /\ m[last] # {}
  <2> DEFINE b == Max(m[last])
  <2>1. last \in Filled(m) /\ \A v \in Filled(m) : v <= last
    <3>1. Filled(m) \subseteq 0 .. last
      BY <1>1, <1>2 DEF Filled
    <3>2. last \in Filled(m)
      BY <1>1, <1>2, <1>7 DEF Filled
    <3>3. QED
      BY <1>1, <3>1, <3>2
  <2>2. Max(Filled(m)) = last
    BY <2>1, <1>4, FilledIs, MaxOne
  <2>3. /\ b \in Word /\ b \in m[last] /\ (\A c \in m[last] : c <= b) /\ Max(T) = W * last + b
        /\ T # {}
    BY <1>4, <1>6, <2>1, <2>2, HighestIs, FilledIs
  <2> HIDE DEF b
  <2>4. \A i : i \in high <=> i \in Word /\ i >= W - rest /\ i - (W - rest) \in sought[last]
    BY DEF ShiftedUp
  <2>5. b \in 0 .. (rest - 1) /\ b \in sought[last]
    BY <1>3, <1>7, <2>3
  <2>6. b + (W - rest) \in high
    <3>1. b + (W - rest) \in Word /\ b + (W - rest) >= W - rest /\ (b + (W - rest)) - (W - rest) = b
      BY <1>1, <2>5 DEF Word
    <3>2. QED
      BY <2>4, <2>5, <3>1
  <2>7. \A i \in high : i <= b + (W - rest)
    <3>1. ASSUME NEW i \in high
          PROVE  i <= b + (W - rest)
      <4>1. i \in 0 .. (W - 1) /\ i >= W - rest /\ i - (W - rest) \in sought[last]
        BY <2>4 DEF Word
      <4>2. i - (W - rest) \in 0 .. (rest - 1)
        BY <1>1, <4>1
      <4>3. i - (W - rest) \in m[last]
        BY <1>3, <1>7, <4>1, <4>2
      <4>4. i - (W - rest) <= b
        BY <2>3, <4>3
      <4>5. QED
        BY <1>1, <2>5, <4>1, <4>4
    <3>2. QED
      BY <3>1
  <2>8. Max(high) = b + (W - rest)
    <3>1. high \subseteq Nat
      BY <2>4 DEF Word
    <3>2. QED
      BY <2>6, <2>7, <3>1, MaxOne
  <2>9. LeadingOne(high) = W - (b + (W - rest))
    BY <2>6, <2>8 DEF LeadingOne
  <2>10. W * last \in Nat /\ n = W * last + rest
    BY <1>1, <1>7
  <2>11. W - (b + (W - rest)) = n - (W * last + b)
    BY <1>1, <2>5, <2>10
  <2>12. QED
    BY <1>5, <1>7, <2>3, <2>6, <2>9, <2>11
<1>8. CASE rest = 0 \/ m[last] = {}
  <2>1. ~(rest # 0 /\ high # {})
    <3>1. ASSUME rest # 0, NEW i \in high
          PROVE  FALSE
      <4>1. i \in 0 .. (W - 1) /\ i >= W - rest /\ i - (W - rest) \in sought[last]
        BY DEF ShiftedUp, Word
      <4>2. i - (W - rest) \in 0 .. (rest - 1)
        BY <1>1, <4>1
      <4>3. i - (W - rest) \in m[last]
        BY <1>3, <3>1, <4>1, <4>2
      <4>4. QED
        BY <1>8, <3>1, <4>3
    <3>2. QED
      BY <3>1
  <2>2. /\ found = Filled(m)
        /\ \A w \in found : m[w] = sought[w] /\ w <= top
    <3>1. \A w \in Indices(n) : w <= top <=> ~(rest # 0 /\ w = last)
      BY <1>1
    <3>2. ASSUME NEW w \in found
          PROVE  w \in Filled(m) /\ m[w] = sought[w] /\ w <= top
      <4>1. w \in Indices(n) /\ w <= top /\ sought[w] # {}
        OBVIOUS
      <4>2. m[w] = sought[w]
        BY <1>3, <3>1, <4>1
      <4>3. QED
        BY <1>2, <4>1, <4>2 DEF Filled
    <3>3. ASSUME NEW w \in Filled(m)
          PROVE  w \in found
      <4>1. w \in Indices(n) /\ m[w] # {}
        BY <1>2 DEF Filled
      <4>2. ~(rest # 0 /\ w = last)
        BY <1>8, <4>1
      <4>3. m[w] = sought[w] /\ w <= top
        BY <1>3, <3>1, <4>1, <4>2
      <4>4. QED
        BY <4>1, <4>3
    <3>4. QED
      BY <3>2, <3>3
  <2>3. top \in Int /\ n = W * (top + 1) + rest
    BY <1>1
  <2> HIDE DEF found, top, high
  <2>4. CASE found = {}
    <3>1. T = {}
      BY <1>4, <1>6, <2>2, <2>4, FilledIs
    <3>2. QED
      BY <1>5, <2>1, <2>4, <3>1
  <2>5. CASE found # {}
    <3> DEFINE w == Max(found)
               b == Max(m[w])
    <3>1. /\ w \in found /\ w \in Nat /\ m[w] # {} /\ b \in Word
          /\ Max(T) = W * w + b /\ T # {}
      BY <1>4, <1>6, <2>2, <2>5, HighestIs, FilledIs
    <3> HIDE DEF w
    <3>2. LeadingOne(sought[w]) = W - b
      BY <2>2, <3>1 DEF LeadingOne
    <3> HIDE DEF b
    <3>3. b \in Int
      BY <3>1 DEF Word
    <3>4. PICK x \in Int : x = W * top
      BY <1>1, <2>3
    <3>5. PICK y \in Int : y = W * w
      BY <1>1, <3>1
    <3>6. W * (top + 1) = x + W /\ W * (top - w) = x - y
      BY <1>1, <2>3, <3>1, <3>4, <3>5
    <3>7. W \in Int /\ rest \in Int /\ n = (x + W) + rest
      BY <1>1, <2>3, <3>6
    <3>8. (W - b) + rest + (x - y) = n - (y + b)
      BY <3>3, <3>4, <3>7
    <3>9. QED
      BY <1>5, <2>1, <2>5, <3>1, <3>2, <3>4, <3>6, <3>8, <3>5 DEF w
  <2>6. QED
    BY <2>4, <2>5
<1>9. QED
  BY <1>7, <1>8

\* bitset_find_next_set and bitset_find_next_clear, whose first word is masked.
LEMMA FindNextIs ==
  ASSUME NEW n \in Nat, NEW f \in Bitsets(n), BitsOf(f) \subseteq 0 .. (n - 1),
         NEW cur \in {NPOS} \cup 0 .. n
  PROVE  FindNext(f, n, cur) = After(BitsOf(f), cur)
<1> SUFFICES ASSUME NEW T, T = {i \in BitsOf(f) : i > cur}
             PROVE  FindNext(f, n, cur) = IF T = {} THEN NPOS ELSE Min(T)
  BY DEF After
<1> DEFINE from == cur + 1
           w0 == from \div W
           masked == [f EXCEPT ![w0] = @ \cap ((from % W) .. (W - 1))]
           found == {w \in DOMAIN f : w >= w0 /\ masked[w] # {}}
           m == [w \in Indices(n) |-> IF w < w0 THEN {} ELSE masked[w]]
<1>1. from \in Nat /\ cur \in Int /\ \A i \in Int : i > cur <=> from <= i
  BY DEF NPOS
<1>2. /\ DOMAIN f = Indices(n) /\ \A w \in Indices(n) : w \in Nat /\ f[w] \subseteq Word
      /\ BitsOf(f) \subseteq Nat
  BY BitsOfIs
<1>3. FindNext(f, n, cur) = IF from >= n \/ found = {} THEN NPOS
                            ELSE W * Min(found) + TrailingOne(masked[Min(found)]) - 1
  BY DEF FindNext
<1>4. CASE from >= n
  <2>1. T = {}
    <3>1. ASSUME NEW i \in BitsOf(f)
          PROVE  ~(i > cur)
      BY <1>1, <1>4
    <3>2. QED
      BY <3>1
  <2>2. QED
    BY <1>3, <1>4, <2>1
<1>5. CASE ~(from >= n)
  <2>1. w0 \in Indices(n) /\ from % W \in Word /\ from = W * w0 + (from % W) /\ w0 \in Int
    <3>1. from \in 0 .. (n - 1)
      BY <1>1, <1>5
    <3>2. QED
      BY <1>2, <3>1, PlaceIn
  <2> DEFINE b0 == from % W
  <2> HIDE DEF from, w0, b0
  <2>2. \A w \in Indices(n) : masked[w] = IF w = w0 THEN f[w0] \cap (b0 .. (W - 1)) ELSE f[w]
    BY <1>2, <2>1 DEF b0
  <2> HIDE DEF masked
  <2>3. m \in Bitsets(n)
    BY <1>2, <2>2 DEF Bitsets
  <2>4. \A w \in Indices(n) : m[w] = IF w < w0 THEN {} ELSE masked[w]
    OBVIOUS
  <2>5. found = Filled(m) /\ \A w \in found : m[w] = masked[w]
    <3>1. DOMAIN m = Indices(n)
      OBVIOUS
    <3>2. \A w \in Indices(n) : w >= w0 <=> ~(w < w0)
      BY <1>2, <2>1
    <3> HIDE DEF m
    <3>3. QED
      BY <1>2, <2>4, <3>1, <3>2 DEF Filled
  <2> HIDE DEF m
  <2>6. ASSUME NEW w \in Indices(n), NEW b \in Word
        PROVE  b \in m[w] <=> W * w + b \in T
    <3>1. w \in Int /\ W * w + b \in Int
      BY <1>2, Place
    <3>2. b0 \in Word /\ from = W * w0 + b0
      BY <2>1 DEF b0
    <3>3. from <= W * w + b <=> w0 < w \/ (w0 = w /\ b0 <= b)
      BY <2>1, <3>1, <3>2, PlaceOrder
    <3>4. b \in f[w] <=> W * w + b \in BitsOf(f)
      <4>1. (W * w + b) \div W = w /\ (W * w + b) % W = b
        BY <3>1, Place
      <4>2. QED
        BY <3>1, <4>1, BitsOfIs
    <3>5. b \in m[w] <=> b \in f[w] /\ (w0 < w \/ (w0 = w /\ b0 <= b))
      <4>1. b \in b0 .. (W - 1) <=> b0 <= b
        BY <3>2, BitsetOpsAssumption DEF Word
      <4>2. w < w0 \/ w = w0 \/ w0 < w
        BY <2>1, <3>1
      <4>3. w < w0 => ~(w0 < w) /\ w0 # w
        BY <2>1, <3>1
      <4>4. w = w0 => ~(w < w0) /\ ~(w0 < w)
        BY <2>1, <3>1
      <4>5. w0 < w => ~(w < w0) /\ w # w0
        BY <2>1, <3>1
      <4>6. QED
        BY <2>2, <2>4, <4>1, <4>2, <4>3, <4>4, <4>5
    <3>6. W * w + b \in T <=> W * w + b \in BitsOf(f) /\ from <= W * w + b
      BY <1>1, <3>1
    <3>7. QED
      BY <3>3, <3>4, <3>5, <3>6
  <2>7. BitsOf(m) = T
    <3>1. T \subseteq 0 .. (n - 1)
      OBVIOUS
    <3>2. Stands(m, n, T)
      BY <2>3, <2>6 DEF Stands
    <3>3. QED
      BY <2>3, <3>1, <3>2, StandsIs
  <2>8. FindNext(f, n, cur) = IF found = {} THEN NPOS
                              ELSE W * Min(found) + TrailingOne(m[Min(found)]) - 1
    <3>1. found # {} => Min(found) \in found
      BY <2>3, <2>5, LowestIs
    <3>2. QED
      BY <1>3, <1>5, <2>5, <3>1
  <2> HIDE DEF found
  <2>9. CASE found = {}
    BY <2>3, <2>5, <2>7, <2>8, <2>9, FilledIs
  <2>10. CASE found # {}
    <3> DEFINE w == Min(found)
               b == Min(m[w])
    <3>1. w \in Nat /\ m[w] # {} /\ b \in Word /\ Min(T) = W * w + b /\ T # {}
      BY <2>3, <2>5, <2>7, <2>10, LowestIs, FilledIs
    <3> HIDE DEF w
    <3>2. TrailingOne(m[w]) = b + 1
      BY <3>1 DEF TrailingOne
    <3> HIDE DEF b
    <3>3. PICK x \in Nat : x = W * w
      BY <3>1, BitsetOpsAssumption
    <3>4. x + (b + 1) - 1 = x + b
      BY <3>1 DEF Word
    <3>5. QED
      BY <2>8, <2>10, <3>1, <3>2, <3>3, <3>4 DEF w
  <2>11. QED
    BY <2>9, <2>10
<1>6. QED
  BY <1>4, <1>5

\* bitset_find_prev_set and bitset_find_prev_clear
LEMMA FindPrevIs ==
  ASSUME NEW n \in Nat, NEW f \in Bitsets(n), BitsOf(f) \subseteq 0 .. (n - 1),
         NEW cur \in 0 .. n
  PROVE  FindPrev(f, cur) = Before(BitsOf(f), cur)
<1> SUFFICES ASSUME NEW T, T = {i \in BitsOf(f) : i < cur}
             PROVE  FindPrev(f, cur) = IF T = {} THEN NPOS ELSE Max(T)
  BY DEF Before
<1> DEFINE from == cur - 1
           w0 == from \div W
           masked == [f EXCEPT ![w0] = @ \cap (0 .. (from % W))]
           found == {w \in DOMAIN f : w <= w0 /\ masked[w] # {}}
           m == [w \in Indices(n) |-> IF w0 < w THEN {} ELSE masked[w]]
<1>1. from \in Int /\ cur \in Int /\ \A i \in Int : i < cur <=> i <= from
  OBVIOUS
<1>2. /\ DOMAIN f = Indices(n) /\ \A w \in Indices(n) : w \in Nat /\ f[w] \subseteq Word
      /\ BitsOf(f) \subseteq Nat
  BY BitsOfIs
<1>3. FindPrev(f, cur) = IF cur = 0 \/ found = {} THEN NPOS
                         ELSE W * Max(found) + W - LeadingOne(masked[Max(found)])
  BY DEF FindPrev
<1>4. CASE cur = 0
  <2>1. T = {}
    BY <1>2, <1>4
  <2>2. QED
    BY <1>3, <1>4, <2>1
<1>5. CASE cur # 0
  <2>1. w0 \in Indices(n) /\ from % W \in Word /\ from = W * w0 + (from % W) /\ w0 \in Int
    <3>1. from \in 0 .. (n - 1)
      BY <1>5
    <3>2. QED
      BY <1>2, <3>1, PlaceIn
  <2> DEFINE b0 == from % W
  <2> HIDE DEF from, w0, b0
  <2>2. \A w \in Indices(n) : masked[w] = IF w = w0 THEN f[w0] \cap (0 .. b0) ELSE f[w]
    BY <1>2, <2>1 DEF b0
  <2> HIDE DEF masked
  <2>3. m \in Bitsets(n)
    BY <1>2, <2>2 DEF Bitsets
  <2>4. \A w \in Indices(n) : m[w] = IF w0 < w THEN {} ELSE masked[w]
    OBVIOUS
  <2>5. found = Filled(m) /\ \A w \in found : m[w] = masked[w]
    <3>1. DOMAIN m = Indices(n)
      OBVIOUS
    <3>2. \A w \in Indices(n) : w <= w0 <=> ~(w0 < w)
      BY <1>2, <2>1
    <3> HIDE DEF m
    <3>3. QED
      BY <1>2, <2>4, <3>1, <3>2 DEF Filled
  <2> HIDE DEF m
  <2>6. ASSUME NEW w \in Indices(n), NEW b \in Word
        PROVE  b \in m[w] <=> W * w + b \in T
    <3>1. w \in Int /\ W * w + b \in Int
      BY <1>2, Place
    <3>2. b0 \in Word /\ from = W * w0 + b0
      BY <2>1 DEF b0
    <3>3. W * w + b <= from <=> w < w0 \/ (w = w0 /\ b <= b0)
      BY <2>1, <3>1, <3>2, PlaceOrder
    <3>4. b \in f[w] <=> W * w + b \in BitsOf(f)
      <4>1. (W * w + b) \div W = w /\ (W * w + b) % W = b
        BY <3>1, Place
      <4>2. QED
        BY <3>1, <4>1, BitsOfIs
    <3>5. b \in m[w] <=> b \in f[w] /\ (w < w0 \/ (w = w0 /\ b <= b0))
      <4>1. b \in 0 .. b0 <=> b <= b0
        BY <3>2, BitsetOpsAssumption DEF Word
      <4>2. w < w0 \/ w = w0 \/ w0 < w
        BY <2>1, <3>1
      <4>3. w < w0 => ~(w0 < w) /\ w0 # w
        BY <2>1, <3>1
      <4>4. w = w0 => ~(w < w0) /\ ~(w0 < w)
        BY <2>1, <3>1
      <4>5. w0 < w => ~(w < w0) /\ w # w0
        BY <2>1, <3>1
      <4>6. QED
        BY <2>2, <2>4, <4>1, <4>2, <4>3, <4>4, <4>5
    <3>6. W * w + b \in T <=> W * w + b \in BitsOf(f) /\ W * w + b <= from
      BY <1>1, <3>1
    <3>7. QED
      BY <3>3, <3>4, <3>5, <3>6
  <2>7. BitsOf(m) = T
    <3>1. T \subseteq 0 .. (n - 1)
      OBVIOUS
    <3>2. Stands(m, n, T)
      BY <2>3, <2>6 DEF Stands
    <3>3. QED
      BY <2>3, <3>1, <3>2, StandsIs
  <2>8. FindPrev(f, cur) = IF found = {} THEN NPOS
                           ELSE W * Max(found) + W - LeadingOne(m[Max(found)])
    <3>1. found # {} => Max(found) \in found
      BY <2>3, <2>5, HighestIs
    <3>2. QED
      BY <1>3, <1>5, <2>5, <3>1
  <2> HIDE DEF found
  <2>9. CASE found = {}
    BY <2>3, <2>5, <2>7, <2>8, <2>9, FilledIs
  <2>10. CASE found # {}
    <3> DEFINE w == Max(found)
               b == Max(m[w])
    <3>1. w \in Nat /\ m[w] # {} /\ b \in Word /\ Max(T) = W * w + b /\ T # {}
      BY <2>3, <2>5, <2>7, <2>10, HighestIs, FilledIs
    <3> HIDE DEF w
    <3>2. LeadingOne(m[w]) = W - b
      BY <3>1 DEF LeadingOne
    <3> HIDE DEF b
    <3>3. PICK x \in Nat : x = W * w
      BY <3>1, BitsetOpsAssumption
    <3>4. x + W - (W - b) = x + b
      BY <3>1, BitsetOpsAssumption DEF Word
    <3>5. QED
      BY <2>8, <2>10, <3>1, <3>2, <3>3, <3>4 DEF w
  <2>11. QED
    BY <2>9, <2>10
<1>6. QED
  BY <1>4, <1>5

\* How many positions lie below the first, or above the last, of some.
LEMMA RunLengths ==
  ASSUME NEW n \in Nat, NEW T, T \subseteq 0 .. (n - 1)
  PROVE  /\ Cardinality({i \in 0 .. (n - 1) : T \cap (0 .. i) = {}}) = IF T = {} THEN n ELSE Min(T)
         /\ Cardinality({i \in 0 .. (n - 1) : T \cap (i .. n) = {}})
              = IF T = {} THEN n ELSE n - 1 - Max(T)
<1> DEFINE A == {i \in 0 .. (n - 1) : T \cap (0 .. i) = {}}
           B == {i \in 0 .. (n - 1) : T \cap (i .. n) = {}}
<1>1. CASE T = {}
  <2>1. A = 0 .. (n - 1) /\ B = 0 .. (n - 1)
    BY <1>1
  <2>2. Cardinality(0 .. (n - 1)) = IF 0 > n - 1 THEN 0 ELSE (n - 1) - 0 + 1
    BY FS_Interval
  <2> HIDE DEF A, B
  <2>3. Cardinality(A) = n /\ Cardinality(B) = n
    BY <2>1, <2>2
  <2>4. QED
    BY <1>1, <2>3 DEF A, B
<1>2. CASE T # {}
  <2> DEFINE lo == Min(T)
             hi == Max(T)
  <2>1. T \subseteq Nat /\ \A x \in T : x <= n
    OBVIOUS
  <2>2. lo \in T /\ \A x \in T : lo <= x
    BY <1>2, <2>1, MinIs
  <2>3. hi \in T /\ \A x \in T : x <= hi
    BY <1>2, <2>1, MaxIs
  <2> HIDE DEF lo, hi
  <2>4. A = 0 .. (lo - 1)
    <3>1. ASSUME NEW i \in 0 .. (n - 1)
          PROVE  T \cap (0 .. i) = {} <=> i < lo
      <4>1. i < lo => \A x \in T : ~(x <= i)
        BY <2>2
      <4>2. ~(i < lo) => lo \in 0 .. i
        BY <2>2
      <4>3. QED
        BY <2>2, <4>1, <4>2
    <3>2. lo \in 0 .. (n - 1)
      BY <2>2
    <3>3. QED
      BY <3>1, <3>2
  <2>5. B = (hi + 1) .. (n - 1)
    <3>1. ASSUME NEW i \in 0 .. (n - 1)
          PROVE  T \cap (i .. n) = {} <=> hi < i
      <4>1. hi < i => \A x \in T : ~(i <= x)
        BY <2>3
      <4>2. ~(hi < i) => hi \in i .. n
        BY <2>3
      <4>3. QED
        BY <2>3, <4>1, <4>2
    <3>2. hi \in 0 .. (n - 1)
      BY <2>3
    <3>3. QED
      BY <3>1, <3>2
  <2> HIDE DEF A, B
  <2>6. lo \in 0 .. (n - 1) /\ hi \in 0 .. (n - 1)
    BY <2>2, <2>3
  <2>7. /\ Cardinality(0 .. (lo - 1)) = IF 0 > lo - 1 THEN 0 ELSE (lo - 1) - 0 + 1
        /\ Cardinality((hi + 1) .. (n - 1)) = IF hi + 1 > n - 1 THEN 0 ELSE (n - 1) - (hi + 1) + 1
    BY <2>6, FS_Interval
  <2>8. Cardinality(A) = lo /\ Cardinality(B) = n - 1 - hi
    BY <2>4, <2>5, <2>6, <2>7
  <2>9. QED
    BY <1>2, <2>8 DEF A, B, lo, hi
<1>3. QED
  BY <1>1, <1>2

\* bitset_count_ones, bitset_count_zeros, bitset_any, bitset_all and bitset_has_single_bit
LEMMA CountsAre ==
  ASSUME NEW n \in Nat, NEW S, S \subseteq 0 .. (n - 1), NEW f, Stands(f, n, S)
  PROVE  LET Z == (0 .. (n - 1)) \ S IN
         /\ CountOnes(f) = Cardinality(S) /\ CountZeros(f, n) = Cardinality(Z)
         /\ Any(f) <=> S # {}
         /\ All(f, n) <=> Z = {}
         /\ HasSingleBit(f) <=> Cardinality(S) = 1
<1> DEFINE Z == (0 .. (n - 1)) \ S
           z == Zeros(f, n)
<1>1. f \in Bitsets(n) /\ BitsOf(f) = S /\ DOMAIN f = Indices(n)
  <2>1. f \in Bitsets(n)
    BY DEF Stands
  <2>2. QED
    BY <2>1, StandsIs DEF Bitsets
<1>2. CountOnes(f) = Cardinality(S)
  BY <1>1, CountIs
<1>3. CountZeros(f, n) = Cardinality(Z)
  <2>1. IsFiniteSet(0 .. (n - 1)) /\ Cardinality(0 .. (n - 1)) = n
    <3>1. /\ IsFiniteSet(0 .. (n - 1))
          /\ Cardinality(0 .. (n - 1)) = IF 0 > n - 1 THEN 0 ELSE (n - 1) - 0 + 1
      BY FS_Interval
    <3>2. QED
      BY <3>1
  <2>2. Cardinality(Z) = Cardinality(0 .. (n - 1)) - Cardinality((0 .. (n - 1)) \cap S)
    BY <2>1, FS_Difference
  <2>3. (0 .. (n - 1)) \cap S = S
    OBVIOUS
  <2>4. QED
    BY <1>2, <2>1, <2>2, <2>3 DEF CountZeros
<1>4. Any(f) <=> S # {}
  <2>1. Any(f) <=> Filled(f) # {}
    BY DEF Any, Filled
  <2>2. QED
    BY <1>1, <2>1, FilledIs
<1>5. All(f, n) <=> Z = {}
  <2>1. \A w \in Indices(n) : f[w] \subseteq Valid(n, w) /\ z[w] = Valid(n, w) \ f[w]
    <3>1. ASSUME NEW w \in Indices(n), NEW b \in f[w]
          PROVE  b \in Valid(n, w)
      <4>1. b \in Word
        BY <1>1 DEF Bitsets
      <4>2. W * w + b \in S
        BY <4>1 DEF Stands
      <4>3. W * w + b < n
        BY <4>2
      <4>4. QED
        BY <4>1, <4>3, ValidIs
    <3>2. \A w \in Indices(n) : z[w] = Valid(n, w) \ f[w]
      BY <1>1 DEF Zeros
    <3>3. QED
      BY <3>1, <3>2
  <2>2. z \in Bitsets(n) /\ BitsOf(z) = Z
    BY ZerosIs
  <2>3. DOMAIN z = Indices(n)
    BY <1>1 DEF Zeros
  <2> HIDE DEF z, Z
  <2>4. All(f, n) <=> Filled(z) = {}
    BY <1>1, <2>1, <2>3 DEF All, Filled
  <2>5. QED
    BY <2>2, <2>4, FilledIs
<1>6. QED
  BY <1>2, <1>3, <1>4, <1>5 DEF HasSingleBit

\* The leading ones and zeros of a bitset.
LEMMA LeadingAre ==
  ASSUME NEW n \in Nat \ {0}, NEW S, S \subseteq 0 .. (n - 1), NEW f, Stands(f, n, S)
  PROVE  LET Z == (0 .. (n - 1)) \ S IN
         /\ FirstLeadingOne(f, n) = IF S = {} THEN 0 ELSE n - Max(S)
         /\ FirstLeadingZero(f, n) = IF Z = {} THEN 0 ELSE n - Max(Z)
<1> DEFINE Z == (0 .. (n - 1)) \ S
           g == [w \in DOMAIN f |-> Word \ f[w]]
<1>1. f \in Bitsets(n) /\ BitsOf(f) = S
  <2>1. f \in Bitsets(n)
    BY DEF Stands
  <2>2. QED
    BY <2>1, StandsIs
<1>2. S = BitsOf(ClearPadding(f, n))
  <2>1. {i \in S : i < n} = S
    <3>1. \A i \in S : i < n
      OBVIOUS
    <3>2. QED
      BY <3>1
  <2>2. Stands(ClearPadding(f, n), n, S)
    <3>1. Stands(ClearPadding(f, n), n, {i \in S : i < n})
      BY PaddingIs
    <3>2. QED
      BY <2>1, <3>1
  <2>3. ClearPadding(f, n) = f
    BY <2>2, StandsOne
  <2>4. QED
    BY <1>1, <2>3
<1>3. FirstLeadingOne(f, n) = IF S = {} THEN 0 ELSE n - Max(S)
  BY <1>1, <1>2, FirstLeadingIs DEF FirstLeadingOne
<1>4. g \in Bitsets(n) /\ Z = BitsOf(ClearPadding(g, n))
  <2>1. g \in Bitsets(n)
    BY <1>1 DEF Bitsets
  <2>2. ClearPadding(g, n) = FlipAll(f, n)
    BY DEF FlipAll
  <2>3. n \in Nat
    OBVIOUS
  <2>4. FlipAll(f, n) = Zeros(f, n) /\ BitsOf(Zeros(f, n)) = Z
    BY <2>3, ZerosIs
  <2>5. QED
    BY <2>1, <2>2, <2>4
<1>5. FirstLeadingZero(f, n) = IF Z = {} THEN 0 ELSE n - Max(Z)
  <2>1. FirstLeadingZero(f, n) = FirstLeading(g, n)
    BY DEF FirstLeadingZero
  <2> HIDE DEF g, Z
  <2>2. QED
    BY <1>4, <2>1, FirstLeadingIs
<1>6. QED
  BY <1>3, <1>5

\* What the queries answer about a bitset that stands for its set.
LEMMA FirstFollows == Represents => FirstExact
<1> SUFFICES ASSUME Represents, NEW x \in Names
             PROVE  LET S == set[x] Z == Universe \ set[x] IN
                    /\ CountOnes(bits[x]) = Cardinality(S)
                    /\ CountZeros(bits[x], nbits) = Cardinality(Z)
                    /\ Any(bits[x]) = (S # {}) /\ All(bits[x], nbits) = (Z = {})
                    /\ HasSingleBit(bits[x]) = (Cardinality(S) = 1)
                    /\ FirstTrailingOne(bits[x], nbits) = FirstOf(S)
                    /\ FirstTrailingZero(bits[x], nbits) = FirstOf(Z)
                    /\ FirstLeadingOne(bits[x], nbits) = FirstFromTop(S)
                    /\ FirstLeadingZero(bits[x], nbits) = FirstFromTop(Z)
                    /\ TrailingZeros(bits[x], nbits)
                         = Cardinality({i \in Universe : S \cap 0 .. i = {}})
                    /\ TrailingOnes(bits[x], nbits)
                         = Cardinality({i \in Universe : 0 .. i \subseteq S})
                    /\ LeadingZeros(bits[x], nbits)
                         = Cardinality({i \in Universe : S \cap i .. nbits = {}})
                    /\ LeadingOnes(bits[x], nbits)
                         = Cardinality({i \in Universe : i .. nbits - 1 \subseteq S})
  BY DEF FirstExact
<1> DEFINE f == bits[x]
           S == set[x]
           n == nbits
           U == 0 .. (nbits - 1)
           Z == U \ S
<1>1. n \in Nat \ {0} /\ S \subseteq U /\ Stands(f, n, S) /\ Universe = U
  BY RepresentsIs DEF Universe
<1> HIDE DEF f, S, n
<1>2. /\ CountOnes(f) = Cardinality(S) /\ CountZeros(f, n) = Cardinality(Z)
      /\ Any(f) = (S # {}) /\ All(f, n) = (Z = {}) /\ HasSingleBit(f) = (Cardinality(S) = 1)
  <2>1. /\ CountOnes(f) = Cardinality(S) /\ CountZeros(f, n) = Cardinality(Z)
        /\ Any(f) <=> S # {}
        /\ All(f, n) <=> Z = {}
        /\ HasSingleBit(f) <=> Cardinality(S) = 1
    BY <1>1, CountsAre DEF n
  <2>2. QED
    BY <2>1 DEF Any, All, HasSingleBit
<1>3. FirstTrailingOne(f, n) = FirstOf(S) /\ FirstTrailingZero(f, n) = FirstOf(Z)
  BY <1>1, FirstTrailingIs DEF FirstOf, n
<1>4. FirstLeadingOne(f, n) = FirstFromTop(S) /\ FirstLeadingZero(f, n) = FirstFromTop(Z)
  BY <1>1, LeadingAre DEF FirstFromTop, n
<1>5. ASSUME NEW T, T \subseteq U
      PROVE  /\ RunBefore(FirstOf(T), n) = Cardinality({i \in U : T \cap (0 .. i) = {}})
             /\ RunBefore(FirstFromTop(T), n) = Cardinality({i \in U : T \cap (i .. n) = {}})
  <2>1. /\ Cardinality({i \in U : T \cap (0 .. i) = {}}) = IF T = {} THEN n ELSE Min(T)
        /\ Cardinality({i \in U : T \cap (i .. n) = {}}) = IF T = {} THEN n ELSE n - 1 - Max(T)
    BY <1>1, <1>5, RunLengths DEF n
  <2>2. T # {} => Min(T) \in Nat /\ Max(T) \in 0 .. (n - 1)
    <3>1. T \subseteq Nat /\ \A y \in T : y <= n
      BY <1>1, <1>5 DEF n
    <3>2. T # {} => Min(T) \in T /\ Max(T) \in T
      BY <1>1, <3>1, MinIs, MaxIs
    <3>3. QED
      BY <1>5, <3>1, <3>2 DEF n
  <2>3. /\ RunBefore(FirstOf(T), n) = IF T = {} THEN n ELSE Min(T)
        /\ RunBefore(FirstFromTop(T), n) = IF T = {} THEN n ELSE n - 1 - Max(T)
    <3>1. CASE T = {}
      BY <3>1 DEF RunBefore, FirstOf, FirstFromTop
    <3>2. CASE T # {}
      <4>1. FirstOf(T) = Min(T) + 1 /\ FirstFromTop(T) = n - Max(T)
        BY <3>2 DEF FirstOf, FirstFromTop, n
      <4>2. Min(T) + 1 # 0 /\ (Min(T) + 1) - 1 = Min(T) /\ n - Max(T) # 0
            /\ (n - Max(T)) - 1 = n - 1 - Max(T)
        BY <1>1, <2>2, <3>2
      <4>3. QED
        BY <3>2, <4>1, <4>2 DEF RunBefore
    <3>3. QED
      BY <3>1, <3>2
  <2>4. QED
    BY <2>1, <2>3
<1>6. /\ {i \in U : 0 .. i \subseteq S} = {i \in U : Z \cap (0 .. i) = {}}
      /\ {i \in U : i .. (n - 1) \subseteq S} = {i \in U : Z \cap (i .. n) = {}}
  <2>1. \A i \in U : 0 .. i \subseteq U
    BY <1>1 DEF n
  <2>2. \A i \in U : i .. (n - 1) = (i .. n) \cap U
    BY <1>1 DEF n
  <2> HIDE DEF U
  <2>3. QED
    BY <1>1, <2>1, <2>2
<1>7. /\ TrailingZeros(f, n) = Cardinality({i \in U : S \cap (0 .. i) = {}})
      /\ TrailingOnes(f, n) = Cardinality({i \in U : 0 .. i \subseteq S})
      /\ LeadingZeros(f, n) = Cardinality({i \in U : S \cap (i .. n) = {}})
      /\ LeadingOnes(f, n) = Cardinality({i \in U : i .. (n - 1) \subseteq S})
  <2>1. S \subseteq U /\ Z \subseteq U
    BY <1>1
  <2> HIDE DEF Z, U
  <2>2. /\ RunBefore(FirstOf(S), n) = Cardinality({i \in U : S \cap (0 .. i) = {}})
        /\ RunBefore(FirstFromTop(S), n) = Cardinality({i \in U : S \cap (i .. n) = {}})
        /\ RunBefore(FirstOf(Z), n) = Cardinality({i \in U : Z \cap (0 .. i) = {}})
        /\ RunBefore(FirstFromTop(Z), n) = Cardinality({i \in U : Z \cap (i .. n) = {}})
    BY <1>5, <2>1
  <2>3. QED
    BY <1>3, <1>4, <1>6, <2>2 DEF TrailingZeros, TrailingOnes, LeadingZeros, LeadingOnes
<1>8. QED
  BY <1>1, <1>2, <1>3, <1>4, <1>7 DEF f, S, n

\* The searches from any position, forward and backward, and the first and the last
\* of them, for set bits and for clear ones.
LEMMA FindFollows == Represents => FindExact
<1> SUFFICES ASSUME Represents, NEW x \in Names, NEW cur \in {NPOS} \cup 0 .. nbits
             PROVE  LET S == set[x]
                        Z == Universe \ set[x]
                        zeros == Zeros(bits[x], nbits) IN
                    /\ FindNext(bits[x], nbits, cur) = After(S, cur)
                    /\ FindNext(zeros, nbits, cur) = After(Z, cur)
                    /\ cur # NPOS => /\ FindPrev(bits[x], cur) = Before(S, cur)
                                     /\ FindPrev(zeros, cur) = Before(Z, cur)
                    /\ FindFirst(bits[x], nbits) = After(S, NPOS)
                    /\ FindLast(bits[x], nbits) = Before(S, nbits)
                    /\ FindFirst(zeros, nbits) = After(Z, NPOS)
                    /\ FindLast(zeros, nbits) = Before(Z, nbits)
  BY DEF FindExact
<1> DEFINE f == bits[x]
           S == set[x]
           Z == Universe \ S
           z == Zeros(f, nbits)
<1>1. /\ nbits \in Nat /\ S \subseteq 0 .. (nbits - 1) /\ Stands(f, nbits, S)
      /\ Universe = 0 .. (nbits - 1) /\ f \in Bitsets(nbits) /\ BitsOf(f) = S
  BY RepresentsIs DEF Universe
<1>2. z \in Bitsets(nbits) /\ BitsOf(z) = Z /\ Z \subseteq 0 .. (nbits - 1)
  BY <1>1, ZerosIs
<1> HIDE DEF f, S, z, Z
<1>3. ASSUME NEW g \in Bitsets(nbits), BitsOf(g) \subseteq 0 .. (nbits - 1)
      PROVE  /\ \A c \in {NPOS} \cup 0 .. nbits : FindNext(g, nbits, c) = After(BitsOf(g), c)
             /\ \A c \in 0 .. nbits : FindPrev(g, c) = Before(BitsOf(g), c)
  <2>1. ASSUME NEW c \in {NPOS} \cup 0 .. nbits
        PROVE  FindNext(g, nbits, c) = After(BitsOf(g), c)
    BY <1>1, <1>3, FindNextIs
  <2>2. ASSUME NEW c \in 0 .. nbits
        PROVE  FindPrev(g, c) = Before(BitsOf(g), c)
    BY <1>1, <1>3, FindPrevIs
  <2>3. QED
    BY <2>1, <2>2
<1>4. /\ FindNext(f, nbits, cur) = After(S, cur) /\ FindNext(z, nbits, cur) = After(Z, cur)
      /\ FindNext(f, nbits, NPOS) = After(S, NPOS) /\ FindNext(z, nbits, NPOS) = After(Z, NPOS)
  BY <1>1, <1>2, <1>3
<1>5. /\ cur # NPOS => FindPrev(f, cur) = Before(S, cur) /\ FindPrev(z, cur) = Before(Z, cur)
      /\ FindPrev(f, nbits) = Before(S, nbits) /\ FindPrev(z, nbits) = Before(Z, nbits)
  <2>1. nbits \in 0 .. nbits /\ (cur # NPOS => cur \in 0 .. nbits)
    BY <1>1
  <2>2. QED
    BY <1>1, <1>2, <1>3, <2>1
<1>6. QED
  BY <1>4, <1>5 DEF FindFirst, FindLast, f, S, z, Z

\* The text has one character per index, the last index first.
LEMMA TextFollows == Represents => TextExact
<1> SUFFICES ASSUME Represents, NEW x \in Names, NEW i \in Universe
             PROVE  ToStr(bits[x], nbits)[nbits - i] = IF i \in set[x] THEN 1 ELSE 0
  BY DEF TextExact
<1>1. /\ nbits \in Nat /\ i \in 0 .. (nbits - 1) /\ bits[x] \in Bitsets(nbits)
      /\ BitsOf(bits[x]) = set[x]
  BY RepresentsIs DEF Universe
<1>2. nbits - i \in 1 .. nbits /\ nbits - (nbits - i) = i /\ i \in Int
  BY <1>1
<1>3. ToStr(bits[x], nbits)[nbits - i] = IF Test(bits[x], i) THEN 1 ELSE 0
  BY <1>2 DEF ToStr
<1>4. Test(bits[x], i) <=> i \in set[x]
  <2>1. i \in set[x] <=> i \div W \in Indices(nbits) /\ i % W \in bits[x][i \div W]
    BY <1>1, <1>2, BitsOfIs
  <2>2. i \div W \in Indices(nbits)
    BY <1>1, PlaceIn
  <2>3. QED
    BY <2>1, <2>2 DEF Test
<1>5. QED
  BY <1>3, <1>4

\* Whatever was done to bitsets of any size, each query, search, traversal and conversion
\* to text answers for the set that the bitset stands for.
THEOREM BitsetQueriesExact == BitsetSpec => []QueriesExact
<1>1. Represents => QueriesExact
  <2>1. ASSUME Represents, NEW x \in Names, NEW y \in Names
        PROVE  bits[x] = bits[y] <=> set[x] = set[y]
    <3>1. /\ nbits \in Nat /\ Stands(bits[x], nbits, set[x]) /\ Stands(bits[y], nbits, set[y])
          /\ BitsOf(bits[x]) = set[x] /\ BitsOf(bits[y]) = set[y]
      BY <2>1, RepresentsIs
    <3>2. QED
      BY <3>1, StandsOne
  <2>2. QED
    BY <2>1, FirstFollows, FindFollows, TextFollows DEF QueriesExact
<1>2. QED
  BY <1>1, BitsetRepresents, PTL
=============================================================================
