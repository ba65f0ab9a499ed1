------------------------------ MODULE NatFacts ------------------------------
(***************************************************************************)
(* Facts about natural numbers that the proofs about several components    *)
(* need: bounded sets of naturals have a least and a greatest element, and *)
(* a quotient and a remainder are unique.                                  *)
(***************************************************************************)
EXTENDS Integers, PowersOfTwo, FiniteSetTheorems, TLAPS

\* The least-number principle, from the well-foundedness of strict inclusion
\* between finite sets: x is less than y if 0 .. x is a strict subset of 0 .. y.
LEMMA LeastExists ==
  ASSUME NEW S, S \subseteq Nat, S # {}
  PROVE  \E x \in S : \A y \in S : x <= y
<1> DEFINE T == {0 .. x : x \in S}
<1>1. T \subseteq FiniteSubsetsOf(Nat) /\ T # {}
  <2>1. ASSUME NEW x \in S
        PROVE  0 .. x \in FiniteSubsetsOf(Nat)
    <3>1. IsFiniteSet(0 .. x)
      BY FS_Interval
    <3>2. QED
      BY <3>1 DEF FiniteSubsetsOf
  <2>2. QED
    BY <2>1
<1>2. IsWellFoundedOn(StrictSubsetOrdering(Nat), FiniteSubsetsOf(Nat))
  BY FS_StrictSubsetOrderingWellFounded
<1>3. PICK t \in T : \A u \in T : <<u, t>> \notin StrictSubsetOrdering(Nat)
  <2> HIDE DEF T
  <2>1. QED
    BY <1>1, <1>2, WFMin
<1>4. PICK x \in S : t = 0 .. x
  OBVIOUS
<1>5. ASSUME NEW y \in S, y < x
      PROVE  FALSE
  <2>1. 0 .. y \subseteq 0 .. x /\ 0 .. y # 0 .. x
    BY <1>5
  <2>2. <<0 .. y, t>> \in StrictSubsetOrdering(Nat)
    BY <1>4, <2>1 DEF StrictSubsetOrdering
  <2>3. QED
    BY <1>3, <2>2
<1>6. QED
  BY <1>5

\* A set of naturals that is not empty and has a bound has a greatest element.
LEMMA GreatestExists ==
  ASSUME NEW S, S \subseteq Nat, S # {}, NEW b \in Nat, \A y \in S : y <= b
  PROVE  \E x \in S : \A y \in S : y <= x
<1> DEFINE T == {b - y : y \in S}
<1>1. T \subseteq Nat /\ T # {}
  <2>1. \A y \in S : b - y \in Nat
    OBVIOUS
  <2>2. QED
    BY <2>1
<1>2. PICK t \in T : \A u \in T : t <= u
  <2> HIDE DEF T
  <2>1. QED
    BY <1>1, LeastExists
<1>3. PICK x \in S : t = b - x
  OBVIOUS
<1>4. ASSUME NEW y \in S
      PROVE  y <= x
  <2>1. b - y \in T
    OBVIOUS
  <2>2. b - x <= b - y
    BY <1>2, <1>3, <2>1
  <2>3. x \in Nat /\ y \in Nat
    OBVIOUS
  <2>4. QED
    BY <2>2, <2>3
<1>5. QED
  BY <1>4

-----------------------------------------------------------------------------
\* A number is the only one that has its quotient and its remainder.
LEMMA DivMod ==
  ASSUME NEW a \in Int, NEW c \in Nat \ {0}
  PROVE  /\ a \div c \in Int
         /\ a % c \in 0 .. (c - 1)
         /\ a = c * (a \div c) + (a % c)
OBVIOUS

(* Quotient and remainder are determined by the number they make up.          *)
LEMMA QuotientUnique ==
  ASSUME NEW c \in Nat \ {0}, NEW q \in Int, NEW r \in 0 .. (c - 1)
  PROVE  (c * q + r) % c = r /\ (c * q + r) \div c = q
<1> DEFINE a == c * q + r
           p == a \div c
           s == a % c
<1>1. a \in Int /\ p \in Int /\ s \in 0 .. (c - 1) /\ a = c * p + s
  BY DivMod
<1>2. c * (q - p) = s - r
  BY <1>1
<1>3. q = p
  <2>1. ASSUME q - p >= 1
        PROVE  FALSE
    <3>1. c * (q - p) >= c * 1
      BY <1>1, <2>1
    <3>2. QED
      BY <1>1, <1>2, <3>1
  <2>2. ASSUME q - p <= -1
        PROVE  FALSE
    <3>1. c * (q - p) <= c * (-1)
      BY <1>1, <2>2
    <3>2. QED
      BY <1>1, <1>2, <3>1
  <2>3. QED
    BY <1>1, <2>1, <2>2
<1>4. s = r
  BY <1>1, <1>2, <1>3
<1>5. QED
  BY <1>3, <1>4

\* Remainders of numbers that differ by a multiple agree.
LEMMA ModShift ==
  ASSUME NEW a \in Int, NEW c \in Nat \ {0}, NEW k \in Int
  PROVE  (a + c * k) % c = a % c
<1> DEFINE q == a \div c
           r == a % c
<1>1. q \in Int /\ r \in 0 .. (c - 1) /\ a = c * q + r
  BY DivMod
<1> HIDE DEF q, r
<1>2. q + k \in Int /\ a + c * k = c * (q + k) + r
  BY <1>1
<1>3. (c * (q + k) + r) % c = r
  BY <1>1, <1>2, QuotientUnique
<1>4. QED
  BY <1>2, <1>3 DEF r

\* A remainder of a number below twice the divisor.
LEMMA ModOnce ==
  ASSUME NEW c \in Nat \ {0}, NEW a \in 0 .. (2 * c - 1)
  PROVE  a % c = IF a < c THEN a ELSE a - c
<1>1. CASE a < c
  <2>1. a \in 0 .. (c - 1) /\ 0 \in Int /\ a = c * 0 + a
    BY <1>1
  <2>2. (c * 0 + a) % c = a
    BY <2>1, QuotientUnique
  <2>3. QED
    BY <1>1, <2>1, <2>2
<1>2. CASE ~ (a < c)
  <2> DEFINE r == a - c
  <2>1. r \in 0 .. (c - 1) /\ 1 \in Int /\ a = c * 1 + r
    BY <1>2
  <2> HIDE DEF r
  <2>2. (c * 1 + r) % c = r
    BY <2>1, QuotientUnique
  <2>3. QED
    BY <1>2, <2>1, <2>2 DEF r
<1>3. QED
  BY <1>1, <1>2

-----------------------------------------------------------------------------
\* Half of a power of two is one, but for 1.
LEMMA PowerHalves ==
  ASSUME NEW p \in Nat, IsPowerOfTwo(p), p >= 2
  PROVE  \E h \in Nat \ {0} : p = 2 * h /\ IsPowerOfTwo(h)
<1>1. p % p = 0
  <2>1. p \in Nat \ {0} /\ p \in 0 .. (2 * p - 1)
    OBVIOUS
  <2>2. QED
    BY <2>1, ModOnce
<1>2. p % 2 = 0
  BY <1>1 DEF IsPowerOfTwo
<1> DEFINE h == p \div 2
<1>3. h \in Nat \ {0} /\ p = 2 * h
  BY <1>2
<1> HIDE DEF h
<1>4. ASSUME NEW d \in 2 .. h, h % d = 0
      PROVE  d % 2 = 0
  <2> DEFINE q == h \div d
             q2 == 2 * q
  <2>1. d \in Nat \ {0} /\ h \in Int
    BY <1>3
  <2>2. q \in Int /\ h = d * q + (h % d)
    BY <2>1, DivMod
  <2> HIDE DEF q
  <2>3. q2 \in Int /\ p = d * q2 + 0 /\ 0 \in 0 .. (d - 1)
    <3>1. d * (2 * q) = 2 * (d * q)
      BY <2>1, <2>2
    <3>2. h = d * q
      BY <1>4, <2>1, <2>2
    <3>3. QED
      BY <1>3, <2>1, <2>2, <3>1, <3>2
  <2> HIDE DEF q2
  <2>4. (d * q2 + 0) % d = 0
    BY <2>1, <2>3, QuotientUnique
  <2>5. p % d = 0 /\ d \in 2 .. p
    BY <1>3, <2>3, <2>4
  <2>6. QED
    BY <2>5 DEF IsPowerOfTwo
<1>5. QED
  BY <1>3, <1>4 DEF IsPowerOfTwo

\* There is no power of two between one and its double.
LEMMA PowerGap ==
  ASSUME NEW p \in Nat, NEW q \in Nat, IsPowerOfTwo(p), IsPowerOfTwo(q), p < q
  PROVE  2 * p <= q
<1> DEFINE S == {y \in Nat : IsPowerOfTwo(y)
                             /\ \E x \in Nat : IsPowerOfTwo(x) /\ x < y /\ y < 2 * x}
<1>1. SUFFICES ASSUME S # {}
               PROVE  FALSE
  OBVIOUS
<1>2. PICK y \in S : \A z \in S : y <= z
  <2>1. S \subseteq Nat
    OBVIOUS
  <2> HIDE DEF S
  <2>2. QED
    BY <1>1, <2>1, LeastExists
<1>3. PICK x \in Nat : IsPowerOfTwo(x) /\ x < y /\ y < 2 * x
  BY <1>2
<1>4. y \in Nat /\ IsPowerOfTwo(y) /\ y >= 2 /\ x >= 2
  BY <1>3 DEF IsPowerOfTwo
<1>5. PICK g \in Nat \ {0} : y = 2 * g /\ IsPowerOfTwo(g)
  BY <1>4, PowerHalves
<1>6. PICK h \in Nat \ {0} : x = 2 * h /\ IsPowerOfTwo(h)
  BY <1>3, <1>4, PowerHalves
<1>7. g \in S /\ g < y
  BY <1>3, <1>5, <1>6
<1>8. QED
  BY <1>2, <1>5, <1>7

\* The double of a power of two is one.
LEMMA PowerDoubles ==
  ASSUME NEW p \in Nat, IsPowerOfTwo(p)
  PROVE  IsPowerOfTwo(2 * p)
<1>1. p >= 1
  BY DEF IsPowerOfTwo
<1>2. ASSUME NEW d \in 2 .. (2 * p), (2 * p) % d = 0, d % 2 # 0
      PROVE  FALSE
  <2> DEFINE q == (2 * p) \div d
             e == d \div 2
  <2>1. d \in Nat \ {0} /\ 2 * p \in Int
    OBVIOUS
  <2>2. q \in Int /\ 2 * p = d * q + ((2 * p) % d)
    BY <2>1, DivMod
  <2>3. e \in Int /\ d = 2 * e + 1
    BY <1>2, <2>1
  <2> HIDE DEF q, e
  <2>4. 2 * p = d * q /\ q \in Nat \ {0}
    <3>1. 2 * p = d * q
      BY <1>2, <2>1, <2>2
    <3>2. ASSUME q <= 0
          PROVE  FALSE
      <4>1. d * q <= d * 0
        BY <2>1, <2>2, <3>2
      <4>2. QED
        BY <1>1, <2>1, <3>1, <4>1
    <3>3. QED
      BY <2>2, <3>1, <3>2
  <2>5. q % 2 = 0
    <3>1. d * q = 2 * (e * q) + q
      BY <2>1, <2>2, <2>3
    <3>2. e * q \in Int
      BY <2>2, <2>3
    <3>3. QED
      BY <2>4, <3>1, <3>2
  <2> DEFINE k == q \div 2
  <2>6. k \in Nat \ {0} /\ q = 2 * k
    BY <2>4, <2>5
  <2> HIDE DEF k
  <2>7. p = d * k
    <3>1. d * (2 * k) = 2 * (d * k) /\ d * k \in Int
      BY <2>1, <2>6
    <3>2. QED
      BY <2>4, <2>6, <3>1
  <2>8. p % d = 0
    <3>1. 0 \in 0 .. (d - 1) /\ k \in Int /\ p = d * k + 0
      BY <2>1, <2>6, <2>7
    <3>2. (d * k + 0) % d = 0
      BY <2>1, <3>1, QuotientUnique
    <3>3. QED
      BY <3>1, <3>2
  <2>9. d \in 2 .. p
    <3>1. d * k >= d * 1
      BY <2>1, <2>6
    <3>2. QED
      BY <2>1, <2>7, <3>1
  <2>10. QED
    BY <1>2, <2>8, <2>9 DEF IsPowerOfTwo
<1>3. QED
  BY <1>1, <1>2 DEF IsPowerOfTwo

\* Every number has a power of two at or above it, and one at most its double.
LEMMA PowerAbove ==
  ASSUME NEW n \in Nat
  PROVE  \E p \in PowersUpTo(2 * n + 1) : n <= p
<1>1. IsPowerOfTwo(1)
  BY DEF IsPowerOfTwo
<1>2. CASE n = 0
  BY <1>1, <1>2 DEF PowersUpTo
<1>3. CASE n # 0
  <2> DEFINE S == PowersUpTo(n)
  <2>1. S \subseteq Nat /\ 1 \in S /\ \A y \in S : y <= n
    BY <1>1, <1>3 DEF PowersUpTo
  <2>2. PICK x \in S : \A y \in S : y <= x
    <3> HIDE DEF S
    <3>1. S # {}
      BY <2>1
    <3>2. QED
      BY <2>1, <3>1, GreatestExists
  <2>3. x \in Nat /\ x >= 1 /\ x <= n /\ IsPowerOfTwo(x)
    BY DEF PowersUpTo
  <2>4. IsPowerOfTwo(2 * x)
    BY <2>3, PowerDoubles
  <2>5. ~ (2 * x <= n)
    <3>1. SUFFICES ASSUME 2 * x <= n
                   PROVE  FALSE
      OBVIOUS
    <3>2. 2 * x \in S
      BY <2>3, <2>4, <3>1 DEF PowersUpTo
    <3>3. QED
      BY <2>2, <2>3, <3>2
  <2>6. 2 * x \in PowersUpTo(2 * n + 1) /\ n <= 2 * x
    BY <2>3, <2>4, <2>5 DEF PowersUpTo
  <2>7. QED
    BY <2>6
<1>4. QED
  BY <1>2, <1>3

\* Rounding an address up to a multiple adds less than the multiple.
LEMMA PadTo ==
  ASSUME NEW p \in Nat, NEW c \in Nat \ {0}
  PROVE  (-p) % c \in 0 .. (c - 1) /\ (p + ((-p) % c)) % c = 0
<1> DEFINE q == (-p) \div c
           r == (-p) % c
<1>1. -p \in Int
  OBVIOUS
<1>2. -p = c * q + r /\ q \in Int /\ r \in 0 .. (c - 1)
  BY <1>1, DivMod
<1> HIDE DEF q, r
<1>3. -q \in Int /\ 0 \in 0 .. (c - 1) /\ p + r = c * (-q) + 0
  BY <1>2
<1>4. (c * (-q) + 0) % c = 0
  BY <1>3, QuotientUnique
<1>5. (p + r) % c = 0
  BY <1>3, <1>4
<1>6. QED
  BY <1>2, <1>5 DEF r
=============================================================================
