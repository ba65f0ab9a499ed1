-------------------------------- MODULE Bits --------------------------------
(***************************************************************************)
(* The arithmetic of rk_defs.h on integers of w bits: the bit functions of *)
(* C23 as the fallbacks compute them, rounding to an alignment, and the    *)
(* saturating operations in their portable form.  An unsigned number is in *)
(* 0 .. 2^w - 1 and wraps; a signed one is in two's complement.            *)
(***************************************************************************)
EXTENDS Integers

Unsigned(w) == 0 .. 2^w - 1

UMax(w) == 2^w - 1
SMax(w) == 2^(w - 1) - 1
SMin(w) == -(2^(w - 1))

Wrap(w, x)   == x % 2^w
Not(w, x)    == UMax(w) - x

And(w, x, y) ==
  LET and[p, q \in Unsigned(w)] ==
        IF p = 0 THEN 0 ELSE 2 * and[p \div 2, q \div 2] + (p % 2) * (q % 2)
  IN  and[x, y]

\* Division of C, which rounds towards zero.
Magnitude(x) == IF x < 0 THEN -x ELSE x
Quotient(x, y) ==
  LET q == Magnitude(x) \div Magnitude(y) IN IF (x < 0) = (y < 0) THEN q ELSE -q

-----------------------------------------------------------------------------
\* The loop that shifts the number up until its top bit is set.
LeadingZeros(w, v) ==
  LET lz[x \in Unsigned(w)] == IF x >= 2^(w - 1) THEN 0 ELSE 1 + lz[2 * x]
  IN  IF v = 0 THEN w ELSE lz[v]

TrailingZeros(w, v) ==
  LET tz[x \in Unsigned(w)] == IF x % 2 = 1 THEN 0 ELSE 1 + tz[x \div 2]
  IN  IF v = 0 THEN w ELSE tz[v]

\* The loop that takes the lowest one away in every turn.
CountOnes(w, v) ==
  LET ones[x \in Unsigned(w)] == IF x = 0 THEN 0 ELSE 1 + ones[And(w, x, x - 1)]
  IN  ones[v]

CountZeros(w, v) == w - CountOnes(w, v)

LeadingOnes(w, v)  == LeadingZeros(w, Not(w, v))
TrailingOnes(w, v) == TrailingZeros(w, Not(w, v))

FirstLeadingOne(w, v)   == IF v # 0 THEN LeadingZeros(w, v) + 1 ELSE 0
FirstTrailingOne(w, v)  == IF v # 0 THEN TrailingZeros(w, v) + 1 ELSE 0
FirstLeadingZero(w, v)  == IF v = Not(w, 0) THEN 0 ELSE LeadingZeros(w, Not(w, v)) + 1
FirstTrailingZero(w, v) == IF v = Not(w, 0) THEN 0 ELSE TrailingZeros(w, Not(w, v)) + 1

HasSingleBit(w, v) == CountOnes(w, v) = 1
BitWidth(w, v)     == w - LeadingZeros(w, v)
BitFloor(w, v)     == IF v # 0 THEN 2^(BitWidth(w, v) - 1) ELSE 0

\* Seeded fault of BitCeil: the width of the number, not of its predecessor.
BitCeilByWidth(w, v) == IF v = 0 THEN 1 ELSE Wrap(w, 2^BitWidth(w, v))

\* 1 for 0, and 0 where the power does not fit.
BitCeil(w, v) ==
  LET shift == w - LeadingZeros(w, v - 1)
  IN  IF v = 0 THEN 1 ELSE IF shift < w THEN 2^shift ELSE 0

-----------------------------------------------------------------------------
\* rk_align_up, which aborts where the sum would wrap, and rk_align_pad.
CanAlignUp(w, size, align) == size <= UMax(w) - (align - 1)
AlignUp(w, size, align)    == And(w, size + (align - 1), Not(w, align - 1))
AlignPad(w, ptr, align)    == And(w, Wrap(w, -ptr), align - 1)

\* sizeof_n where it is checked: the product, unless it overflows.
CanMultiply(w, x, y) == x = 0 \/ y <= UMax(w) \div x

\* The chunk that an ArenaStack requests for nbytes at an alignment: the sum and
\* the rounding wrap.
ChunkFor(w, nbytes, align, arenaSize) ==
  LET needed == Wrap(w, nbytes + (align - 1))
  IN  BitCeil(w, IF needed > arenaSize THEN needed ELSE arenaSize)

\* Seeded fault: compares the sum, which wraps, with what is left.
ServesBySum(w, avail, pad, nbytes) == Wrap(w, pad + nbytes) <= avail

\* The test of arena_try_allocate: a pad and the bytes are served from what is left.
Serves(w, avail, pad, nbytes) == pad <= avail /\ nbytes <= Wrap(w, avail - pad)

-----------------------------------------------------------------------------
\* Saturation of unsigned numbers.
SatAddU(w, a, b) == LET sum == Wrap(w, a + b) IN IF sum >= a THEN sum ELSE UMax(w)
SatSubU(w, a, b) == IF a < b THEN 0 ELSE a - b
SatMulU(w, a, b) == IF b # 0 /\ a > UMax(w) \div b THEN UMax(w) ELSE Wrap(w, a * b)

\* Saturation of signed numbers without the builtins of the compiler.
SatAddS(w, a, b) ==
  IF b > 0 /\ a > SMax(w) - b THEN SMax(w)
  ELSE IF b < 0 /\ a < SMin(w) - b THEN SMin(w) ELSE a + b

SatSubS(w, a, b) ==
  IF b > 0 /\ a < SMin(w) + b THEN SMin(w)
  ELSE IF b < 0 /\ a > SMax(w) + b THEN SMax(w) ELSE a - b

SatMulS(w, a, b) ==
  IF a = 0 \/ b = 0 THEN 0
  ELSE IF a = -1 THEN IF b = SMin(w) THEN SMax(w) ELSE -b
  ELSE IF b = -1 THEN IF a = SMin(w) THEN SMax(w) ELSE -a
  ELSE IF a > 0 THEN
         IF b > 0 THEN IF a > Quotient(SMax(w), b) THEN SMax(w) ELSE a * b
         ELSE IF b < Quotient(SMin(w), a) THEN SMin(w) ELSE a * b
  ELSE IF b > 0 THEN IF a < Quotient(SMin(w), b) THEN SMin(w) ELSE a * b
       ELSE IF b < Quotient(SMax(w), a) THEN SMax(w) ELSE a * b
=============================================================================
