------------------------------- MODULE Bitset -------------------------------
(***************************************************************************)
(* A client of rk_bitset.h that applies its operations to two bitsets of   *)
(* the same size.  `set` is a ghost: the sets of indices that the bitsets  *)
(* stand for according to the documentation of the operations.             *)
(***************************************************************************)
EXTENDS BitsetOps

CONSTANTS Names,  \* the bitsets
          Sizes   \* sizes in bits

ASSUME BitsetAssumption == Sizes \subseteq Nat \ {0}

VARIABLES nbits, bits, set

bitsetVars == <<nbits, bits, set>>

Universe == 0 .. (nbits - 1)

BitsetInit == /\ nbits \in Sizes
              /\ bits = [x \in Names |-> ClearAll(nbits)]
              /\ set = [x \in Names |-> {}]

Becomes(x, bs, S) == /\ bits' = [bits EXCEPT ![x] = bs]
                     /\ set' = [set EXCEPT ![x] = S]
                     /\ UNCHANGED nbits

OneBit(x, i) == \/ Becomes(x, SetBit(bits[x], i), set[x] \cup {i})
                \/ Becomes(x, ClearBit(bits[x], i), set[x] \ {i})
                \/ Becomes(x, FlipBit(bits[x], i), Xor(set[x], {i}))

BitRange(x, s, e) ==
  \/ Becomes(x, SetRange(bits[x], s, e), set[x] \cup (s .. (e - 1)))
  \/ Becomes(x, ClearRange(bits[x], s, e), set[x] \ (s .. (e - 1)))
  \/ Becomes(x, FlipRange(bits[x], s, e), Xor(set[x], s .. (e - 1)))

Whole(x) == \/ Becomes(x, SetAll(nbits), Universe)
            \/ Becomes(x, ClearAll(nbits), {})
            \/ Becomes(x, FlipAll(bits[x], nbits), Universe \ set[x])

\* BITSET_CLEAR_IF with a predicate that is true of the indices in P.
ClearWhere(x, P) == Becomes(x, ClearIf(bits[x], P), set[x] \ P)

\* bitset_fromstr of a text that stands for the set S.
ReadText(x, S) ==
  Becomes(x, FromStr([d \in 1 .. nbits |-> IF nbits - d \in S THEN 1 ELSE 0], nbits), S)

\* The second operand is the other bitset, or the same one.
Combine(x, y) ==
  \/ Becomes(x, Or(bits[x], bits[y]), set[x] \cup set[y])
  \/ Becomes(x, And(bits[x], bits[y]), set[x] \cap set[y])
  \/ Becomes(x, XorWith(bits[x], bits[y]), Xor(set[x], set[y]))
  \/ Becomes(x, Sub(bits[x], bits[y], nbits), set[x] \ set[y])
  \/ Becomes(x, FlipAll(bits[y], nbits), Universe \ set[y])
  \/ Becomes(x, bits[y], set[y])

\* A shift in place, or one whose source is another bitset.
Shift(x, y, sh) ==
  LET src == bits[y] IN
  \/ Becomes(x, IF x = y THEN ShiftLeft(src, nbits, sh) ELSE ShiftLeftInto(src, nbits, sh),
             {i \in Universe : i >= sh /\ (i - sh) \in set[y]})
  \/ Becomes(x, IF x = y THEN ShiftRight(src, nbits, sh) ELSE ShiftRightInto(src, nbits, sh),
             {i \in Universe : (i + sh) \in set[y]})

BitsetNext == \/ \E x \in Names, i \in Universe : OneBit(x, i)
              \/ \E x \in Names, s, e \in 0 .. nbits : s <= e /\ BitRange(x, s, e)
              \/ \E x \in Names : Whole(x)
              \/ \E x \in Names, S \in SUBSET Universe : ClearWhere(x, S) \/ ReadText(x, S)
              \/ \E x, y \in Names : Combine(x, y)
              \/ \E x, y \in Names, sh \in 0 .. (nbits + 1) : Shift(x, y, sh)

BitsetSpec == BitsetInit /\ [][BitsetNext]_bitsetVars

-----------------------------------------------------------------------------
\* The words hold no position beyond a word, and the ghosts no index beyond nbits.
BitsetTypeOK == /\ nbits \in Sizes
                /\ bits \in [Names -> Bitsets(nbits)]
                /\ set \in [Names -> SUBSET Universe]

\* Every operation does what its documentation says, at any position relative to
\* word boundaries, and all padding bits are zero after it.
Represents == BitsetTypeOK /\ \A x \in Names : BitsOf(bits[x]) = set[x]

\* Positions of the first ones and zeros, one-based from either end, 0 if none.
FirstOf(S)     == IF S = {} THEN 0 ELSE Min(S) + 1
FirstFromTop(S) == IF S = {} THEN 0 ELSE nbits - Max(S)

\* The counts, tests, one-based searches and run lengths answer for the set.
FirstExact ==
  \A x \in Names : LET S == set[x] Z == Universe \ set[x] IN
    /\ CountOnes(bits[x]) = Cardinality(S)
    /\ CountZeros(bits[x], nbits) = Cardinality(Z)
    /\ Any(bits[x]) = (S # {}) /\ All(bits[x], nbits) = (Z = {})
    /\ HasSingleBit(bits[x]) = (Cardinality(S) = 1)
    /\ FirstTrailingOne(bits[x], nbits) = FirstOf(S)
    /\ FirstTrailingZero(bits[x], nbits) = FirstOf(Z)
    /\ FirstLeadingOne(bits[x], nbits) = FirstFromTop(S)
    /\ FirstLeadingZero(bits[x], nbits) = FirstFromTop(Z)
    /\ TrailingZeros(bits[x], nbits) = Cardinality({i \in Universe : S \cap 0 .. i = {}})
    /\ TrailingOnes(bits[x], nbits) = Cardinality({i \in Universe : 0 .. i \subseteq S})
    /\ LeadingZeros(bits[x], nbits) = Cardinality({i \in Universe : S \cap i .. nbits = {}})
    /\ LeadingOnes(bits[x], nbits) = Cardinality({i \in Universe : i .. nbits - 1 \subseteq S})

After(S, cur)  == LET T == {i \in S : i > cur} IN IF T = {} THEN NPOS ELSE Min(T)
Before(S, cur) == LET T == {i \in S : i < cur} IN IF T = {} THEN NPOS ELSE Max(T)

\* A traversal with the find functions, from any position in either direction,
\* misses no index and visits none that is not in the set.
FindExact ==
  \A x \in Names, cur \in {NPOS} \cup 0 .. nbits :
    LET S == set[x]
        Z == Universe \ set[x]
        zeros == Zeros(bits[x], nbits) IN
    /\ FindNext(bits[x], nbits, cur) = After(S, cur)
    /\ FindNext(zeros, nbits, cur) = After(Z, cur)
    /\ cur # NPOS => /\ FindPrev(bits[x], cur) = Before(S, cur)
                     /\ FindPrev(zeros, cur) = Before(Z, cur)
    /\ FindFirst(bits[x], nbits) = After(S, NPOS) /\ FindLast(bits[x], nbits) = Before(S, nbits)
    /\ FindFirst(zeros, nbits) = After(Z, NPOS) /\ FindLast(zeros, nbits) = Before(Z, nbits)

\* The text of a bitset has the digit of index i at the i-th place from its end.
TextExact == \A x \in Names, i \in Universe :
               ToStr(bits[x], nbits)[nbits - i] = IF i \in set[x] THEN 1 ELSE 0

\* Whatever was done to the bitsets, each question about one is answered for the
\* set of indices that it stands for, and two compare equal when their sets do.
QueriesExact == /\ FirstExact /\ FindExact /\ TextExact
                /\ \A x, y \in Names : (bits[x] = bits[y]) <=> (set[x] = set[y])

-----------------------------------------------------------------------------
Num == INSTANCE Bits

\* The two bitsets read as numbers of nbits bits, and one of them as a signed one.
Value(S)  == SumSet({2^i : i \in S})
Signed(S) == Value(S) - (IF nbits - 1 \in S THEN 2^nbits ELSE 0)

Between(lo, v, hi) == IF v < lo THEN lo ELSE IF v > hi THEN hi ELSE v

\* The bit functions, whose fallbacks are loops, answer for the bits of the number.
BitFunctionsExact(S, v) ==
  LET Z == Universe \ S IN
  /\ Num!CountOnes(nbits, v) = Cardinality(S) /\ Num!CountZeros(nbits, v) = Cardinality(Z)
  /\ Num!FirstTrailingOne(nbits, v) = FirstOf(S) /\ Num!FirstTrailingZero(nbits, v) = FirstOf(Z)
  /\ Num!FirstLeadingOne(nbits, v) = FirstFromTop(S)
  /\ Num!FirstLeadingZero(nbits, v) = FirstFromTop(Z)
  /\ Num!TrailingZeros(nbits, v) = Cardinality({i \in Universe : S \cap 0 .. i = {}})
  /\ Num!LeadingZeros(nbits, v) = Cardinality({i \in Universe : S \cap i .. nbits = {}})
  /\ Num!TrailingOnes(nbits, v) = Cardinality({i \in Universe : 0 .. i \subseteq S})
  /\ Num!LeadingOnes(nbits, v) = Cardinality({i \in Universe : i .. nbits - 1 \subseteq S})
  /\ Num!HasSingleBit(nbits, v) = (Cardinality(S) = 1)
  /\ 2^Num!BitWidth(nbits, v) > v
  /\ v # 0 => 2^(Num!BitWidth(nbits, v) - 1) <= v
  /\ v # 0 => Num!BitFloor(nbits, v) = 2^Max(S)
  /\ LET P == {p \in {2^i : i \in Universe} : p >= v}
     IN  Num!BitCeil(nbits, v) = IF P = {} THEN 0 ELSE Min(P)

\* Rounding to an alignment does not wrap where it is allowed.  An arena grants a pad
\* and a request exactly when they fit in what is left of it.  The chunk that an
\* ArenaStack obtains serves a request wherever it lies, unless the request is so
\* large that its size or the rounding wraps: then it serves it nowhere, and the
\* allocation aborts instead of returning too small a block.
AlignmentExact(v, arenaSize) ==
  \A align \in {2^i : i \in Universe} :
    /\ Num!CanAlignUp(nbits, v, align) =>
         LET up == Num!AlignUp(nbits, v, align)
         IN  up \in v .. v + align - 1 /\ up % align = 0
    /\ LET pad == Num!AlignPad(nbits, v, align)
       IN  pad < align /\ (v + pad) % align = 0
    /\ \A pad \in 0 .. align - 1 : Num!Serves(nbits, arenaSize, pad, v) <=> pad + v <= arenaSize
    /\ arenaSize <= 2^(nbits - 1) =>
         LET chunk == Num!ChunkFor(nbits, v, align, arenaSize)
         IN  \A pad \in 0 .. align - 1 :
               Num!Serves(nbits, chunk, pad, v) <=> v + align - 1 <= 2^(nbits - 1)

\* Saturating operations give the nearest number that there is.
SaturationExact(v, u, s, t) ==
  LET top == 2^nbits - 1  max == 2^(nbits - 1) - 1  min == -(2^(nbits - 1)) IN
  /\ Num!SatAddU(nbits, v, u) = Between(0, v + u, top)
  /\ Num!SatSubU(nbits, v, u) = Between(0, v - u, top)
  /\ Num!SatMulU(nbits, v, u) = Between(0, v * u, top)
  /\ Num!CanMultiply(nbits, v, u) <=> v * u <= top
  /\ Num!SatAddS(nbits, s, t) = Between(min, s + t, max)
  /\ Num!SatSubS(nbits, s, t) = Between(min, s - t, max)
  /\ Num!SatMulS(nbits, s, t) = Between(min, s * t, max)

\* The bits that two bitsets hold also make two numbers of nbits bits: for all of
\* them, the arithmetic of rk_defs.h is what its documentation says.
BitOpsExact ==
  \A x, z \in Names :
    /\ BitFunctionsExact(set[x], Value(set[x]))
    /\ AlignmentExact(Value(set[x]), Value(set[z]))
    /\ SaturationExact(Value(set[x]), Value(set[z]), Signed(set[x]), Signed(set[z]))
=============================================================================
