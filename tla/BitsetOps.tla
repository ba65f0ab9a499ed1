----------------------------- MODULE BitsetOps ------------------------------
(***************************************************************************)
(* rk_bitset.h: the functions on bitset words.  A word is the set of the   *)
(* positions of its one bits, a bitset a function from word indices to     *)
(* words; the bits of the last word at or beyond nbits are its padding.    *)
(* Loops over words are written as the choice of the word they end at.     *)
(***************************************************************************)
EXTENDS Integers, FiniteSets, FiniteSetsExt

CONSTANT W  \* bitset_word_bits

ASSUME BitsetOpsAssumption == W \in Nat \ {0}

NPOS == -1  \* BITSET_NPOS is SIZE_MAX, whose successor is 0

Word == 0 .. (W - 1)            \* the positions in a word; as a word, all ones

Words(nbits) == (nbits + W - 1) \div W
Rest(nbits)  == nbits % W
Indices(nbits) == 0 .. (Words(nbits) - 1)
Bitsets(nbits) == [Indices(nbits) -> SUBSET Word]

\* The set of indices that a bitset stands for, its padding included.
BitsOf(bs) == UNION {{W * w + b : b \in bs[w]} : w \in DOMAIN bs}

\* The bits of word w that are not padding.
Valid(nbits, w) == IF Rest(nbits) # 0 /\ w = Words(nbits) - 1 THEN 0 .. (Rest(nbits) - 1) ELSE Word

Xor(s, t) == (s \ t) \cup (t \ s)
ShiftedUp(word, n)   == {i \in Word : i >= n /\ (i - n) \in word}
ShiftedDown(word, n) == {i \in Word : (i + n) \in word}

-----------------------------------------------------------------------------
\* bitset_clear_padding
ClearPadding(bs, nbits) == [w \in DOMAIN bs |-> bs[w] \cap Valid(nbits, w)]

\* bitset_set, bitset_clear, bitset_flip; bitset_write is one of the first two.
SetBit(bs, i)   == [bs EXCEPT ![i \div W] = @ \cup {i % W}]
ClearBit(bs, i) == [bs EXCEPT ![i \div W] = @ \ {i % W}]
FlipBit(bs, i)  == [bs EXCEPT ![i \div W] = Xor(@, {i % W})]
Test(bs, i)     == (i % W) \in bs[i \div W]

\* BITSET_CLEAR_IF: the iterator has loaded a word before the predicate, true of
\* the indices in P, has bits of it cleared.
ClearIf(bs, P) == [w \in DOMAIN bs |-> {b \in bs[w] : (W * w + b) \notin P}]

\* The mask that rki_bitset_range_op applies to word w.
RangeMask(start, end, w) ==
  IF start = end \/ w < start \div W \/ w > (end - 1) \div W THEN {}
  ELSE (IF w = start \div W THEN (start % W) .. (W - 1) ELSE Word)
       \cap (IF w = (end - 1) \div W THEN 0 .. ((end - 1) % W) ELSE Word)

SetRange(bs, s, e)   == [w \in DOMAIN bs |-> bs[w] \cup RangeMask(s, e, w)]
ClearRange(bs, s, e) == [w \in DOMAIN bs |-> bs[w] \ RangeMask(s, e, w)]
FlipRange(bs, s, e)  == [w \in DOMAIN bs |-> Xor(bs[w], RangeMask(s, e, w))]

ClearAll(nbits)    == [w \in Indices(nbits) |-> {}]
SetAll(nbits)      == ClearPadding([w \in Indices(nbits) |-> Word], nbits)
FlipAll(bs, nbits) == ClearPadding([w \in DOMAIN bs |-> Word \ bs[w]], nbits)

Or(dst, src)  == [w \in DOMAIN dst |-> dst[w] \cup src[w]]
And(dst, src) == [w \in DOMAIN dst |-> dst[w] \cap src[w]]
XorWith(dst, src) == [w \in DOMAIN dst |-> Xor(dst[w], src[w])]
Sub(dst, src, nbits) == ClearPadding([w \in DOMAIN dst |-> dst[w] \ src[w]], nbits)

\* One iteration of the loops of the shifts: a word takes its bits from two.
ShiftedWord(bs, i, ws, b) ==
  IF i < ws THEN {}
  ELSE ShiftedUp(bs[i - ws], b)
       \cup (IF b # 0 /\ i - ws > 0 THEN ShiftedDown(bs[i - ws - 1], W - b) ELSE {})
UnshiftedWord(bs, i, ws, b, words) ==
  IF i + ws >= words THEN {}
  ELSE ShiftedDown(bs[i + ws], b)
       \cup (IF b # 0 /\ i + ws + 1 < words THEN ShiftedUp(bs[i + ws + 1], W - b) ELSE {})

\* Seeded fault of ShiftLeft: its loop runs upwards, over words already shifted.
ShiftLeftUpwards(bs, nbits, sh) ==
  LET loop[i \in 0 .. Words(nbits)] ==
        IF i = 0 THEN bs
        ELSE [loop[i - 1] EXCEPT ![i - 1] = ShiftedWord(loop[i - 1], i - 1, sh \div W, sh % W)]
  IN IF sh >= nbits THEN ClearAll(nbits) ELSE ClearPadding(loop[Words(nbits)], nbits)

\* bitset_shift_left: in place, from the highest word down to the lowest.
ShiftLeft(bs, nbits, sh) ==
  LET loop[i \in 0 .. Words(nbits)] ==
        IF i = Words(nbits) THEN bs
        ELSE [loop[i + 1] EXCEPT ![i] = ShiftedWord(loop[i + 1], i, sh \div W, sh % W)]
  IN IF sh >= nbits THEN ClearAll(nbits)
     ELSE IF sh = 0 THEN bs ELSE ClearPadding(loop[0], nbits)

\* bitset_shift_right: in place, from the lowest word up to the highest.
ShiftRight(bs, nbits, sh) ==
  LET words == Words(nbits)
      loop[i \in 0 .. words] ==
        IF i = 0 THEN bs
        ELSE [loop[i - 1] EXCEPT ![i - 1] =
                UnshiftedWord(loop[i - 1], i - 1, sh \div W, sh % W, words)]
  IN IF sh >= nbits THEN ClearAll(nbits)
     ELSE IF sh = 0 THEN bs ELSE ClearPadding(loop[words], nbits)

\* The same loops when the source is another bitset.
ShiftLeftInto(src, nbits, sh) ==
  IF sh >= nbits THEN ClearAll(nbits) ELSE IF sh = 0 THEN src
  ELSE ClearPadding([i \in DOMAIN src |-> ShiftedWord(src, i, sh \div W, sh % W)], nbits)
ShiftRightInto(src, nbits, sh) ==
  IF sh >= nbits THEN ClearAll(nbits) ELSE IF sh = 0 THEN src
  ELSE ClearPadding([i \in DOMAIN src |->
                       UnshiftedWord(src, i, sh \div W, sh % W, Words(nbits))], nbits)

-----------------------------------------------------------------------------
\* stdc_first_trailing_one and stdc_first_leading_one of a word: one-based, or 0.
TrailingOne(word) == IF word = {} THEN 0 ELSE Min(word) + 1
LeadingOne(word)  == IF word = {} THEN 0 ELSE W - Max(word)

\* The four bitset_first_* functions: one-based positions, from the low or the
\* high end; 0 if there is no such bit.
FirstTrailingOne(bs, nbits) ==
  LET found == {w \in Indices(nbits) : bs[w] # {}}
  IN IF found = {} THEN 0 ELSE TrailingOne(bs[Min(found)]) + W * Min(found)

\* Seeded fault of FirstTrailingZero: padding counts as zero bits.
TrailingZeroInPadding(bs, nbits) ==
  LET found == {w \in Indices(nbits) : Word \ bs[w] # {}}
  IN IF found = {} THEN 0 ELSE TrailingOne(Word \ bs[Min(found)]) + W * Min(found)

FirstTrailingZero(bs, nbits) ==
  LET found == {w \in Indices(nbits) : Valid(nbits, w) \ bs[w] # {}}
  IN IF found = {} THEN 0
     ELSE TrailingOne(Valid(nbits, Min(found)) \ bs[Min(found)]) + W * Min(found)

\* From the high end: the last word, shifted until its padding is gone, then the
\* full words below it.
FirstLeading(sought, nbits) ==
  LET rest  == Rest(nbits)
      last  == Words(nbits) - 1
      top   == IF rest # 0 THEN last - 1 ELSE last
      high  == ShiftedUp(sought[last], W - rest)
      found == {w \in Indices(nbits) : w <= top /\ sought[w] # {}}
  IN IF rest # 0 /\ high # {} THEN LeadingOne(high)
     ELSE IF found = {} THEN 0
     ELSE LeadingOne(sought[Max(found)]) + rest + W * (top - Max(found))

FirstLeadingOne(bs, nbits)  == FirstLeading(bs, nbits)
FirstLeadingZero(bs, nbits) == FirstLeading([w \in DOMAIN bs |-> Word \ bs[w]], nbits)

\* The lengths of the runs at either end, from the one-based position after the run.
RunBefore(pos, nbits) == IF pos # 0 THEN pos - 1 ELSE nbits
LeadingZeros(bs, nbits)  == RunBefore(FirstLeadingOne(bs, nbits), nbits)
LeadingOnes(bs, nbits)   == RunBefore(FirstLeadingZero(bs, nbits), nbits)
TrailingZeros(bs, nbits) == RunBefore(FirstTrailingOne(bs, nbits), nbits)
TrailingOnes(bs, nbits)  == RunBefore(FirstTrailingZero(bs, nbits), nbits)

CountOnes(bs) == MapThenSumSet(LAMBDA w : Cardinality(bs[w]), DOMAIN bs)
CountZeros(bs, nbits) == nbits - CountOnes(bs)
Any(bs) == \E w \in DOMAIN bs : bs[w] # {}
All(bs, nbits) == \A w \in DOMAIN bs : bs[w] = Valid(nbits, w)
HasSingleBit(bs) == CountOnes(bs) = 1

\* bitset_find_next_set and bitset_find_next_clear (for which the words sought
\* are the complements of the valid bits): the first one after `cur`, whose
\* word is entered with the bits up to `cur` masked out.
FindNext(sought, nbits, cur) ==
  LET from == cur + 1
      w0   == from \div W
      masked == [sought EXCEPT ![w0] = @ \cap ((from % W) .. (W - 1))]
      found == {w \in DOMAIN sought : w >= w0 /\ masked[w] # {}}
  IN IF from >= nbits \/ found = {} THEN NPOS
     ELSE W * Min(found) + TrailingOne(masked[Min(found)]) - 1

\* bitset_find_prev_set and bitset_find_prev_clear: the last one before `cur`.
FindPrev(sought, cur) ==
  LET w0 == (cur - 1) \div W
      masked == [sought EXCEPT ![w0] = @ \cap (0 .. ((cur - 1) % W))]
      found == {w \in DOMAIN sought : w <= w0 /\ masked[w] # {}}
  IN IF cur = 0 \/ found = {} THEN NPOS
     ELSE W * Max(found) + W - LeadingOne(masked[Max(found)])

\* The words that bitset_find_next_clear and bitset_find_prev_clear search.
Zeros(bs, nbits) == [w \in DOMAIN bs |-> Valid(nbits, w) \ bs[w]]

\* bitset_find_first_* and bitset_find_last_* of the words sought.
FindFirst(sought, nbits) == FindNext(sought, nbits, NPOS)
FindLast(sought, nbits)  == FindPrev(sought, nbits)

\* bitset_tostr: the digits, the highest index first.  bitset_fromstr clears the
\* bitset and writes one bit per digit.
ToStr(bs, nbits) == [d \in 1 .. nbits |-> IF Test(bs, nbits - d) THEN 1 ELSE 0]
FromStr(digits, len) ==
  ClearPadding(FoldSet(LAMBDA d, bs : IF digits[d] # 0 THEN SetBit(bs, len - d)
                                      ELSE ClearBit(bs, len - d),
                       ClearAll(len), 1 .. len), len)
=============================================================================
