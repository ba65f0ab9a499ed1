-------------------------- MODULE ArenaStackProofs --------------------------
(***************************************************************************)
(* For every address space, every behaviour of the backing allocator and   *)
(* all request sizes and alignments, an arena stack never hands out a byte *)
(* twice, never aborts, keeps every buffer it obtained until it is         *)
(* released, and implements the Allocator interface.                       *)
(*                                                                         *)
(* LiveConsumed is not inductive.  The invariant SInv adds what it rests   *)
(* on: buffers are not empty and share no byte, blocks are disjoint and    *)
(* aligned, and a valid mark lies in the consumed range of its own arena,  *)
(* which is in use.                                                        *)
(***************************************************************************)
EXTENDS ArenaStack, NatFacts, SequenceTheorems

USE DEF NULL

-----------------------------------------------------------------------------
\* A descriptor of a buffer that holds at least one byte.
ArenaOK(a) == /\ a \in ArenaRec
              /\ a.beg # NULL /\ a.beg < a.end
              /\ a.beg <= a.cur /\ a.cur <= a.end

Apart(a, b) == a.end <= b.beg \/ b.end <= a.beg

ArenasOK(as) == /\ as \in Seq(ArenaRec)
                /\ \A i \in 1 .. Len(as) : ArenaOK(as[i])
                /\ \A i, j \in 1 .. Len(as) : i # j => Apart(as[i], as[j])

StackShape(s) == s = [arena_size |-> s.arena_size, arenas |-> s.arenas, cur |-> s.cur]

StackOK(s) == /\ StackShape(s)
              /\ s.arena_size \in Nat /\ s.cur \in Nat
              /\ ArenasOK(s.arenas)
              /\ s.arena_size = 0 => s = ZeroStack
              /\ s.arena_size # 0 => s.cur < Len(s.arenas)

\* The arena at index i holds the block: its bytes, if any, are below the cursor
\* of an arena in use.
Holds(s, i, b) == /\ s.arenas[i].beg = b.buf /\ s.arenas[i].beg <= b.ptr
                  /\ b.ptr + b.size <= s.arenas[i].end
                  /\ b.size > 0 => i <= s.cur + 1 /\ b.ptr + b.size <= s.arenas[i].cur

BlockIn(s, b) == \E i \in 1 .. Len(s.arenas) : Holds(s, i, b)

BlockShape(b) ==
  /\ b = [ptr |-> b.ptr, size |-> b.size, align |-> b.align, buf |-> b.buf]
  /\ b.ptr \in Nat /\ b.size \in Sizes /\ b.align \in Aligns
  /\ b.ptr % b.align = 0

BlocksOK(s, L) == /\ \A b \in L : BlockShape(b) /\ BlockIn(s, b)
                  /\ \A b, c \in L : b # c => Contract!Disjoint(b, c)

MarkIn(s, m) == \/ m.pos = NULL
                \/ /\ m.pos \in Nat /\ m.idx \in Nat
                   /\ s.arena_size # 0 /\ m.idx <= s.cur
                   /\ s.arenas[m.idx + 1].beg <= m.pos
                   /\ m.pos <= s.arenas[m.idx + 1].cur

MarksOK(s, M) == \A m \in M : MarkIn(s, m)

SInv == /\ StackOK(stack)
        /\ BlocksOK(stack, live)
        /\ MarksOK(stack, marks)
        /\ failed = FALSE

-----------------------------------------------------------------------------
\* What the operators on numbers return.

\* stdc_bit_ceil: a power of two that is not below n.
LEMMA BitCeilIs ==
  ASSUME NEW n \in Nat
  PROVE  BitCeil(n) \in Nat \ {0} /\ n <= BitCeil(n)
<1> DEFINE P == PowersUpTo(2 * n + 1)
           S == {p \in P : n <= p}
<1>1. P \subseteq 1 .. (2 * n + 1)
  BY DEF PowersUpTo
<1>2. S # {}
  BY PowerAbove
<1>3. P \subseteq Nat /\ S \subseteq Nat
  <2>1. \A p \in 1 .. (2 * n + 1) : p \in Nat \ {0}
    OBVIOUS
  <2>2. QED
    BY <1>1, <2>1
<1>4. 0 \notin P
  BY <1>1
<1> HIDE DEF P
<1>5. PICK x \in S : \A y \in S : x <= y
  <2> HIDE DEF S
  <2>1. QED
    BY <1>2, <1>3, LeastExists
<1>6. /\ x \in P /\ n <= x
      /\ \A q \in P : n <= q => x <= q
  BY <1>5
<1>7. BitCeil(n) \in P /\ n <= BitCeil(n)
  BY <1>6 DEF BitCeil, P
<1>8. QED
  BY <1>3, <1>4, <1>7

\* The greater of two numbers.
LEMMA MaxOfTwo ==
  ASSUME NEW x \in Nat, NEW y \in Nat
  PROVE  Max({x, y}) \in {x, y} /\ x <= Max({x, y}) /\ y <= Max({x, y})
<1>1. \E z \in {x, y} : \A w \in {x, y} : z >= w
  BY x >= y \/ y >= x
<1>2. QED
  BY <1>1 DEF Max

\* The greatest and the least element of a set of naturals.
LEMMA MaxIs ==
  ASSUME NEW b \in Nat, NEW S \in SUBSET (0 .. b), S # {}
  PROVE  Max(S) \in S /\ \A x \in S : x <= Max(S)
<1>1. PICK z \in S : \A y \in S : y <= z
  <2>1. S \subseteq Nat /\ \A y \in S : y <= b
    OBVIOUS
  <2>2. QED
    BY <2>1, GreatestExists
<1>2. \A y \in S : z >= y
  BY <1>1
<1>3. Max(S) \in S /\ \A y \in S : Max(S) >= y
  BY <1>2 DEF Max
<1>4. QED
  BY <1>3

(* The least element of a non-empty set of naturals is one of its elements.   *)
LEMMA MinIn ==
  ASSUME NEW S \in SUBSET Nat, S # {}
  PROVE  Min(S) \in S
<1>1. PICK z \in S : \A y \in S : z <= y
  BY LeastExists
<1>2. QED
  BY <1>1 DEF Min

\* rk_align_pad: less than the alignment, and enough to reach a multiple of it.
LEMMA PadIs ==
  ASSUME NEW p \in Nat, NEW al \in Nat \ {0}
  PROVE  /\ AlignPad(p, al) \in Nat /\ AlignPad(p, al) <= al - 1
         /\ (p + AlignPad(p, al)) % al = 0
<1>1. AlignPad(p, al) = (-p) % al
  BY DEF AlignPad
<1>2. AlignPad(p, al) \in 0 .. (al - 1) /\ (p + AlignPad(p, al)) % al = 0
  BY <1>1, PadTo
<1>3. QED
  BY <1>2

-----------------------------------------------------------------------------
\* Vectors: one element more at the end, and one element overwritten.
Extended(as, a, bs) == /\ Len(bs) = Len(as) + 1
                       /\ \A i \in 1 .. Len(as) : bs[i] = as[i]
                       /\ bs[Len(as) + 1] = a

Written(as, k, a, bs) == /\ Len(bs) = Len(as)
                         /\ \A i \in 1 .. Len(as) : bs[i] = IF i = k THEN a ELSE as[i]

(* Appending an arena keeps the ones before it at their index.                *)
LEMMA AppendIs ==
  ASSUME NEW R, NEW as \in Seq(R), NEW a \in R
  PROVE  Append(as, a) \in Seq(R) /\ Extended(as, a, Append(as, a))
<1>1. Append(as, a) \in Seq(R)
  BY AppendProperties, Zenon
<1>2. Len(Append(as, a)) = Len(as) + 1
  BY AppendProperties, Zenon
<1>3. \A i \in 1 .. Len(as) : Append(as, a)[i] = as[i]
  OBVIOUS
<1>4. Append(as, a)[Len(as) + 1] = a
  BY AppendProperties, Zenon
<1>5. QED
  BY <1>1, <1>2, <1>3, <1>4 DEF Extended

\* An interval that begins at 1 has one end only.
LEMMA SameTop ==
  ASSUME NEW m \in Nat, NEW n \in Nat, 1 .. m = 1 .. n
  PROVE  m = n
<1>1. \A x \in Nat : x # 0 => x \in 1 .. x
  OBVIOUS
<1>2. m # 0 => m \in 1 .. n
  BY <1>1
<1>3. n # 0 => n \in 1 .. m
  BY <1>1
<1>4. QED
  BY <1>2, <1>3

(* Writing one arena of the list leaves the others as they were.              *)
LEMMA WriteIs ==
  ASSUME NEW R, NEW as \in Seq(R), NEW k \in 1 .. Len(as), NEW a \in R
  PROVE  [as EXCEPT ![k] = a] \in Seq(R) /\ Written(as, k, a, [as EXCEPT ![k] = a])
<1> DEFINE bs == [as EXCEPT ![k] = a]
<1>1. bs \in Seq(R)
  BY ExceptSeq, Zenon
<1>2. DOMAIN as = 1 .. Len(as) /\ Len(as) \in Nat
  BY LenProperties
<1>3. \A i \in 1 .. Len(as) : bs[i] = IF i = k THEN a ELSE as[i]
  BY <1>2
<1>4. DOMAIN bs = 1 .. Len(as)
  BY <1>2
<1> HIDE DEF bs
<1>5. DOMAIN bs = 1 .. Len(bs) /\ Len(bs) \in Nat
  BY <1>1, LenProperties
<1>6. 1 .. Len(bs) = 1 .. Len(as)
  BY <1>4, <1>5, Zenon
<1>7. Len(bs) = Len(as)
  BY <1>2, <1>5, <1>6, SameTop, Zenon
<1>8. QED
  BY <1>1, <1>3, <1>7 DEF bs, Written

-----------------------------------------------------------------------------
\* One arena: the block that fits starts at an aligned address at or above the
\* cursor, and the new cursor is its end.
LEMMA BumpIs ==
  ASSUME NEW a, ArenaOK(a), NEW n \in Nat, NEW al \in Nat \ {0}, Fits(a, n, al)
  PROVE  /\ Placed(a, al) \in Nat /\ Placed(a, al) % al = 0
         /\ a.cur <= Placed(a, al) /\ Placed(a, al) + n <= a.end
         /\ ArenaOK(Bumped(a, n, al))
         /\ Bumped(a, n, al).beg = a.beg /\ Bumped(a, n, al).end = a.end
         /\ Bumped(a, n, al).cur = Placed(a, al) + n
<1>1. a.beg \in Nat /\ a.cur \in Nat /\ a.end \in Nat /\ a \in ArenaRec /\ a.beg # 0
  BY DEF ArenaOK, ArenaRec
<1> DEFINE pad == AlignPad(a.cur, al)
<1>2. pad \in Nat /\ (a.cur + pad) % al = 0
  BY <1>1, PadIs
<1>3. n <= a.end - a.cur - pad
  BY <1>1, <1>2 DEF Fits, Remaining
<1>4. Placed(a, al) = a.cur + pad
  BY DEF Placed
<1> HIDE DEF pad
<1>5. /\ Placed(a, al) \in Nat /\ Placed(a, al) % al = 0
      /\ a.cur <= Placed(a, al) /\ Placed(a, al) + n <= a.end
  BY <1>1, <1>2, <1>3, <1>4
<1> DEFINE p == Placed(a, al)
<1>6. Bumped(a, n, al) = [a EXCEPT !.cur = p + n] /\ p + n \in Nat
  BY <1>5 DEF Bumped
<1> HIDE DEF p
<1>7. QED
  BY <1>1, <1>5, <1>6 DEF ArenaOK, ArenaRec, p

\* An empty arena that has the slack serves the request at any alignment.
LEMMA SlackFits ==
  ASSUME NEW a, ArenaOK(a), a.cur = a.beg, NEW n \in Nat, NEW al \in Nat \ {0},
         Needed(n, al) <= Capacity(a)
  PROVE  Fits(a, n, al)
<1>1. a.beg \in Nat /\ a.cur \in Nat /\ a.end \in Nat /\ a.beg # 0
  BY DEF ArenaOK, ArenaRec
<1>2. AlignPad(a.cur, al) \in Nat /\ AlignPad(a.cur, al) <= al - 1
  BY <1>1, PadIs
<1>3. n + (al - 1) <= a.end - a.cur /\ Remaining(a) = a.end - a.cur
  BY <1>1 DEF Needed, Capacity, Remaining
<1>4. QED
  BY <1>1, <1>2, <1>3 DEF Fits

\* A new arena on a free chunk.
LEMMA NewArenaOK ==
  ASSUME NEW p \in Nat \ {0}, NEW n \in Nat \ {0}
  PROVE  /\ ArenaOK(ArenaInit(p, n)) /\ Capacity(ArenaInit(p, n)) = n
         /\ ArenaInit(p, n).beg = p /\ ArenaInit(p, n).cur = p
         /\ ArenaInit(p, n).end = p + n
BY DEF ArenaInit, ArenaOK, ArenaRec, Capacity

\* A cursor may move to any place in the buffer, its beginning for one.
LEMMA CursorAt ==
  ASSUME NEW a, ArenaOK(a), NEW p \in Nat, a.beg <= p, p <= a.end
  PROVE  /\ ArenaOK([a EXCEPT !.cur = p])
         /\ [a EXCEPT !.cur = p].beg = a.beg /\ [a EXCEPT !.cur = p].end = a.end
         /\ [a EXCEPT !.cur = p].cur = p
BY DEF ArenaOK, ArenaRec

(* An arena with its cursor back at its beginning is still well formed, with  *)
(* the same buffer.                                                           *)
LEMMA ClearedOK ==
  ASSUME NEW a, ArenaOK(a)
  PROVE  /\ ArenaOK(Cleared(a)) /\ Cleared(a).beg = a.beg /\ Cleared(a).end = a.end
         /\ Cleared(a).cur = a.beg
<1>1. a.beg \in Nat /\ a.end \in Nat /\ a.beg <= a.beg /\ a.beg <= a.end
  BY DEF ArenaOK, ArenaRec
<1>2. QED
  BY <1>1, CursorAt DEF Cleared

\* Descriptors that keep their buffers keep the vector in order.
LEMMA SameBuffersOK ==
  ASSUME NEW as, ArenasOK(as), NEW bs, bs \in Seq(ArenaRec), Len(bs) = Len(as),
         \A i \in 1 .. Len(as) : /\ bs[i].beg = as[i].beg /\ bs[i].end = as[i].end
                                 /\ ArenaOK(bs[i])
  PROVE  ArenasOK(bs)
BY DEF ArenasOK, Apart

\* The address a buffer begins at names it.
LEMMA BufferNamed ==
  ASSUME NEW as, ArenasOK(as), NEW i \in 1 .. Len(as), NEW j \in 1 .. Len(as),
         as[i].beg = as[j].beg
  PROVE  i = j
<1>1. ArenaOK(as[i]) /\ ArenaOK(as[j])
  BY DEF ArenasOK
<1>2. /\ as[i].beg \in Nat /\ as[i].end \in Nat /\ as[i].beg < as[i].end
      /\ as[j].beg \in Nat /\ as[j].end \in Nat /\ as[j].beg < as[j].end
  BY <1>1 DEF ArenaOK, ArenaRec
<1>3. ~ Apart(as[i], as[j])
  <2>1. as[i].beg < as[j].end /\ as[j].beg < as[i].end
    BY <1>2
  <2>2. \A x, y \in Nat : x < y => ~ (y <= x)
    OBVIOUS
  <2>3. ~ (as[i].end <= as[j].beg) /\ ~ (as[j].end <= as[i].beg)
    BY <1>2, <2>1, <2>2, Zenon
  <2>4. QED
    BY <2>3 DEF Apart
<1>4. QED
  BY <1>3 DEF ArenasOK

\* The active arena of a stack that has been initialised.
LEMMA ActiveIs ==
  ASSUME NEW s, StackOK(s), s.arena_size # 0
  PROVE  /\ s.cur \in Nat /\ s.cur + 1 \in 1 .. Len(s.arenas) /\ Len(s.arenas) \in Nat
         /\ ActiveOf(s) = s.arenas[s.cur + 1] /\ ArenaOK(ActiveOf(s))
         /\ ActiveOf(s).beg \in Nat /\ ActiveOf(s).cur \in Nat /\ ActiveOf(s).end \in Nat
<1>1. s.cur \in Nat /\ s.cur < Len(s.arenas) /\ s.arenas \in Seq(ArenaRec)
  BY DEF StackOK, ArenasOK
<1>2. Len(s.arenas) \in Nat
  BY <1>1, LenProperties
<1>3. s.cur + 1 \in 1 .. Len(s.arenas)
  BY <1>1, <1>2
<1>4. ArenaOK(s.arenas[s.cur + 1])
  BY <1>3 DEF StackOK, ArenasOK
<1>5. QED
  BY <1>1, <1>2, <1>3, <1>4 DEF ActiveOf, ArenaOK, ArenaRec

\* A stack whose cursors have moved inside their buffers, in any way.
Recursored(s, t) ==
  /\ StackShape(t) /\ t.arena_size = s.arena_size /\ t.arena_size # 0
  /\ t.arenas \in Seq(ArenaRec) /\ Len(t.arenas) = Len(s.arenas)
  /\ \A i \in 1 .. Len(s.arenas) : /\ t.arenas[i].beg = s.arenas[i].beg
                                   /\ t.arenas[i].end = s.arenas[i].end
                                   /\ ArenaOK(t.arenas[i])
  /\ t.cur \in Nat /\ t.cur <= s.cur

(* A stack whose arenas differ from a well-formed one only in lawful cursors  *)
(* is well formed.                                                            *)
LEMMA RecursoredOK ==
  ASSUME NEW s, StackOK(s), NEW t, Recursored(s, t)
  PROVE  StackOK(t)
<1>1. ArenasOK(t.arenas)
  BY SameBuffersOK DEF StackOK, Recursored
<1>2. t.cur < Len(t.arenas)
  <2>1. s.cur < Len(s.arenas) /\ s.cur \in Nat /\ t.cur \in Nat /\ t.cur <= s.cur
    BY DEF StackOK, Recursored
  <2>2. Len(s.arenas) \in Nat /\ Len(t.arenas) = Len(s.arenas)
    BY LenProperties DEF StackOK, ArenasOK, Recursored
  <2>3. QED
    BY <2>1, <2>2
<1>3. QED
  BY <1>1, <1>2 DEF StackOK, Recursored

\* Writing the active arena changes its descriptor and no other.
ActiveBecomes(s, a, u) ==
  /\ Recursored(s, u) /\ u.cur = s.cur /\ ActiveOf(u) = a
  /\ \A i \in 1 .. Len(s.arenas) : u.arenas[i] = IF i = s.cur + 1 THEN a ELSE s.arenas[i]

(* Replacing the active arena by one over the same buffer moves that one      *)
(* cursor and nothing else.                                                   *)
LEMMA SetActiveIs ==
  ASSUME NEW s, StackOK(s), s.arena_size # 0,
         NEW a, ArenaOK(a), a.beg = ActiveOf(s).beg, a.end = ActiveOf(s).end
  PROVE  ActiveBecomes(s, a, SetActive(s, a))
<1> DEFINE as == s.arenas
           c == s.cur + 1
           bs == [as EXCEPT ![c] = a]
           t == SetActive(s, a)
<1>1. /\ c \in 1 .. Len(as) /\ Len(as) \in Nat /\ s.cur \in Nat
      /\ as \in Seq(ArenaRec) /\ a \in ArenaRec /\ StackShape(s)
      /\ ActiveOf(s) = as[c]
  BY ActiveIs DEF StackOK, ArenasOK, ArenaOK
<1>2. /\ bs \in Seq(ArenaRec) /\ Len(bs) = Len(as)
      /\ \A i \in 1 .. Len(as) : bs[i] = IF i = c THEN a ELSE as[i]
  BY <1>1, ExceptSeq
<1>3. t = [s EXCEPT !.arenas = bs]
  BY <1>1 DEF SetActive, StackShape
<1> HIDE DEF bs
<1>4. /\ t = [arena_size |-> s.arena_size, arenas |-> bs, cur |-> s.cur]
  BY <1>1, <1>3 DEF StackShape
<1> HIDE DEF t
<1>5. t.arena_size = s.arena_size /\ t.arenas = bs /\ t.cur = s.cur /\ StackShape(t)
  BY <1>4 DEF StackShape
<1>6. \A i \in 1 .. Len(as) : ArenaOK(as[i])
  BY DEF StackOK, ArenasOK
<1>7. \A i \in 1 .. Len(as) : bs[i].beg = as[i].beg /\ bs[i].end = as[i].end /\ ArenaOK(bs[i])
  BY <1>1, <1>2, <1>6
<1>8. s.cur <= s.cur
  BY <1>1
<1>9. Recursored(s, t)
  BY <1>1, <1>2, <1>5, <1>7, <1>8 DEF Recursored
<1>10. ActiveOf(t) = a
  BY <1>1, <1>2, <1>5 DEF ActiveOf
<1>11. QED
  BY <1>2, <1>5, <1>9, <1>10 DEF t, ActiveBecomes

\* Emptying a range of arenas leaves the others, and all buffers, as they are.
LEMMA ClearRangeIs ==
  ASSUME NEW s, StackOK(s), s.arena_size # 0, NEW lo \in Nat, NEW hi \in Nat
  PROVE  /\ Recursored(s, ClearRange(s, lo, hi)) /\ ClearRange(s, lo, hi).cur = s.cur
         /\ \A i \in 1 .. Len(s.arenas) :
              i - 1 \notin lo .. hi => ClearRange(s, lo, hi).arenas[i] = s.arenas[i]
<1> DEFINE as == s.arenas
           bs == [i \in DOMAIN as |-> IF i - 1 \in lo .. hi THEN Cleared(as[i]) ELSE as[i]]
           t == ClearRange(s, lo, hi)
<1>1. /\ as \in Seq(ArenaRec) /\ StackShape(s) /\ s.cur \in Nat
      /\ \A i \in 1 .. Len(as) : ArenaOK(as[i])
  BY DEF StackOK, ArenasOK
<1>2. DOMAIN as = 1 .. Len(as) /\ Len(as) \in Nat
  BY <1>1, LenProperties
<1>3. \A i \in 1 .. Len(as) : /\ Cleared(as[i]).beg = as[i].beg
                              /\ Cleared(as[i]).end = as[i].end
                              /\ ArenaOK(Cleared(as[i])) /\ Cleared(as[i]) \in ArenaRec
  BY <1>1, ClearedOK DEF ArenaOK
<1>4. \A i \in 1 .. Len(as) : /\ bs[i].beg = as[i].beg /\ bs[i].end = as[i].end
                              /\ ArenaOK(bs[i]) /\ bs[i] \in ArenaRec
                              /\ i - 1 \notin lo .. hi => bs[i] = as[i]
  BY <1>1, <1>2, <1>3 DEF ArenaOK
<1>5. t = [s EXCEPT !.arenas = bs]
  BY DEF ClearRange
<1>6. bs = [i \in 1 .. Len(as) |-> bs[i]]
  BY <1>2
<1> HIDE DEF bs
<1>7. bs \in Seq(ArenaRec) /\ Len(bs) = Len(as)
  BY <1>2, <1>4, <1>6, IsASeq, LenProperties
<1>8. t = [arena_size |-> s.arena_size, arenas |-> bs, cur |-> s.cur]
  BY <1>1, <1>5 DEF StackShape
<1> HIDE DEF t
<1>9. t.arena_size = s.arena_size /\ t.arenas = bs /\ t.cur = s.cur /\ StackShape(t)
  BY <1>8 DEF StackShape
<1>10. Recursored(s, t)
  BY <1>1, <1>4, <1>7, <1>9 DEF Recursored
<1>11. QED
  BY <1>4, <1>9, <1>10 DEF t

\* Leaving the emptied arena for an earlier one changes only the index.
LEMMA SetCurIs ==
  ASSUME NEW s, NEW t, Recursored(s, t), NEW c \in Nat, c <= s.cur
  PROVE  /\ Recursored(s, [t EXCEPT !.cur = c])
         /\ [t EXCEPT !.cur = c].cur = c /\ [t EXCEPT !.cur = c].arenas = t.arenas
<1> DEFINE u == [t EXCEPT !.cur = c]
<1>1. u = [arena_size |-> t.arena_size, arenas |-> t.arenas, cur |-> c]
  BY DEF Recursored, StackShape
<1> HIDE DEF u
<1>2. u.arena_size = t.arena_size /\ u.arenas = t.arenas /\ u.cur = c /\ StackShape(u)
  BY <1>1 DEF StackShape
<1>3. Recursored(s, u)
  BY <1>2 DEF Recursored
<1>4. QED
  BY <1>2, <1>3 DEF u

-----------------------------------------------------------------------------
\* t serves what s served: every buffer is retained, and the arenas in use are
\* where they were, with at least as much consumed.
Retains(as, bs) ==
  \A i \in 1 .. Len(as) : \E j \in 1 .. Len(bs) :
    bs[j].beg = as[i].beg /\ bs[j].end = as[i].end

Continues(s, t) ==
  /\ t.arena_size # 0 /\ Retains(s.arenas, t.arenas)
  /\ s.arena_size # 0 => /\ s.cur <= t.cur
                         /\ s.cur + 1 <= Len(t.arenas)
                         /\ \A i \in 1 .. (s.cur + 1) :
                              /\ t.arenas[i].beg = s.arenas[i].beg
                              /\ t.arenas[i].end = s.arenas[i].end
                              /\ s.arenas[i].cur <= t.arenas[i].cur

(* A block that lies in the used part of an arena still does after the stack  *)
(* moved on.                                                                  *)
LEMMA ContinuesBlocks ==
  ASSUME NEW s, StackOK(s), NEW t, StackOK(t), Continues(s, t),
         NEW b, BlockShape(b), BlockIn(s, b)
  PROVE  BlockIn(t, b)
<1>1. PICK i \in 1 .. Len(s.arenas) : Holds(s, i, b)
  BY DEF BlockIn
<1>2. s.arena_size # 0
  BY LenProperties DEF StackOK, ZeroStack
<1>3. b.ptr \in Nat /\ b.size \in Nat
  BY StackAssumption DEF BlockShape
<1>4. CASE b.size = 0
  <2>1. PICK j \in 1 .. Len(t.arenas) :
            t.arenas[j].beg = s.arenas[i].beg /\ t.arenas[j].end = s.arenas[i].end
    BY DEF Continues, Retains
  <2>2. Holds(t, j, b)
    BY <1>1, <1>4, <2>1 DEF Holds
  <2>3. QED
    BY <2>2 DEF BlockIn
<1>5. CASE b.size # 0
  <2>1. b.size > 0
    BY <1>3, <1>5
  <2>2. /\ s.cur \in Nat /\ t.cur \in Nat /\ s.cur <= t.cur
        /\ Len(t.arenas) \in Nat /\ s.cur + 1 <= Len(t.arenas)
    BY <1>2, LenProperties DEF StackOK, ArenasOK, Continues
  <2>3. i <= s.cur + 1 /\ i \in Nat /\ i >= 1
    BY <1>1, <2>1 DEF Holds
  <2>4. i \in 1 .. (s.cur + 1) /\ i \in 1 .. Len(t.arenas) /\ i <= t.cur + 1
    BY <2>2, <2>3
  <2>5. /\ t.arenas[i].beg = s.arenas[i].beg /\ t.arenas[i].end = s.arenas[i].end
        /\ s.arenas[i].cur <= t.arenas[i].cur
    BY <1>2, <2>4 DEF Continues
  <2>6. ArenaOK(s.arenas[i]) /\ ArenaOK(t.arenas[i])
    BY <2>4 DEF StackOK, ArenasOK
  <2>7. s.arenas[i].cur \in Nat /\ t.arenas[i].cur \in Nat
    BY <2>6 DEF ArenaOK, ArenaRec
  <2>8. b.ptr + b.size <= s.arenas[i].cur /\ b.ptr + b.size <= t.arenas[i].cur
    <3>1. b.ptr + b.size <= s.arenas[i].cur /\ b.ptr + b.size \in Nat
      BY <1>1, <1>3, <2>1 DEF Holds
    <3>2. QED
      BY <2>5, <2>7, <3>1
  <2>9. Holds(t, i, b)
    BY <1>1, <2>4, <2>5, <2>8 DEF Holds
  <2>10. QED
    BY <2>4, <2>9 DEF BlockIn
<1>6. QED
  BY <1>4, <1>5

(* A marker that can be restored can still be restored after the stack moved  *)
(* on.                                                                        *)
LEMMA ContinuesMarks ==
  ASSUME NEW s, StackOK(s), NEW t, StackOK(t), Continues(s, t), NEW m, MarkIn(s, m)
  PROVE  MarkIn(t, m)
<1>1. CASE m.pos = NULL
  BY <1>1 DEF MarkIn
<1>2. CASE m.pos # NULL
  <2>1. /\ m.pos \in Nat /\ m.idx \in Nat /\ s.arena_size # 0 /\ m.idx <= s.cur
        /\ s.arenas[m.idx + 1].beg <= m.pos /\ m.pos <= s.arenas[m.idx + 1].cur
    BY <1>2 DEF MarkIn
  <2>2. s.cur \in Nat /\ t.cur \in Nat /\ s.cur <= t.cur /\ t.arena_size # 0
    BY <2>1 DEF StackOK, Continues
  <2> DEFINE i == m.idx + 1
  <2>3. i \in 1 .. (s.cur + 1) /\ m.idx <= t.cur
    BY <2>1, <2>2
  <2>4. /\ t.arenas[i].beg = s.arenas[i].beg
        /\ s.arenas[i].cur <= t.arenas[i].cur
    BY <2>1, <2>3 DEF Continues
  <2>5. i \in 1 .. Len(s.arenas) /\ i \in 1 .. Len(t.arenas)
    <3>1. Len(s.arenas) \in Nat /\ Len(t.arenas) \in Nat /\ s.cur < Len(s.arenas) /\ t.cur < Len(t.arenas)
      BY <2>1, <2>2, LenProperties DEF StackOK, ArenasOK
    <3>2. QED
      BY <2>2, <2>3, <3>1
  <2>6. ArenaOK(s.arenas[i]) /\ ArenaOK(t.arenas[i])
    BY <2>5 DEF StackOK, ArenasOK
  <2>7. s.arenas[i].cur \in Nat /\ t.arenas[i].cur \in Nat
    BY <2>6 DEF ArenaOK, ArenaRec
  <2>8. m.pos <= t.arenas[i].cur /\ t.arenas[i].beg <= m.pos
    BY <2>1, <2>4, <2>7
  <2>9. QED
    BY <2>1, <2>2, <2>3, <2>8 DEF MarkIn
<1>3. QED
  BY <1>1, <1>2

-----------------------------------------------------------------------------
\* Two places of the vector exchange their buffers, and cursors may move.
Partner(x, y, i) == IF i = x THEN y ELSE IF i = y THEN x ELSE i

Exchanged(as, bs, x, y) ==
  /\ bs \in Seq(ArenaRec) /\ Len(bs) = Len(as)
  /\ \A i \in 1 .. Len(as) : /\ bs[i].beg = as[Partner(x, y, i)].beg
                             /\ bs[i].end = as[Partner(x, y, i)].end
                             /\ ArenaOK(bs[i])

(* Exchanging two arenas, as the reuse of a spare one does, loses none and    *)
(* keeps the buffers apart.                                                   *)
LEMMA ExchangedOK ==
  ASSUME NEW as, ArenasOK(as), NEW x \in 1 .. Len(as), NEW y \in 1 .. Len(as),
         NEW bs, Exchanged(as, bs, x, y)
  PROVE  ArenasOK(bs) /\ Retains(as, bs)
<1>1. /\ bs \in Seq(ArenaRec) /\ Len(bs) = Len(as)
      /\ \A i \in 1 .. Len(as) : ArenaOK(bs[i])
  BY DEF Exchanged
<1>2. ASSUME NEW i \in 1 .. Len(bs), NEW j \in 1 .. Len(bs), i # j
      PROVE  Apart(bs[i], bs[j])
  <2> DEFINE u == Partner(x, y, i)
             v == Partner(x, y, j)
  <2>1. u \in 1 .. Len(as) /\ v \in 1 .. Len(as) /\ u # v
    BY <1>1, <1>2 DEF Partner
  <2>2. Apart(as[u], as[v])
    BY <2>1 DEF ArenasOK
  <2>3. /\ bs[i].beg = as[u].beg /\ bs[i].end = as[u].end
        /\ bs[j].beg = as[v].beg /\ bs[j].end = as[v].end
    BY <1>1 DEF Exchanged
  <2>4. QED
    BY <2>2, <2>3 DEF Apart
<1>3. ASSUME NEW i \in 1 .. Len(as)
      PROVE  \E j \in 1 .. Len(bs) : bs[j].beg = as[i].beg /\ bs[j].end = as[i].end
  <2> DEFINE j == Partner(x, y, i)
  <2>1. j \in 1 .. Len(bs) /\ Partner(x, y, j) = i
    BY <1>1 DEF Partner
  <2>2. QED
    BY <1>1, <2>1 DEF Exchanged
<1>4. QED
  BY <1>1, <1>2, <1>3 DEF ArenasOK, Retains

\* Moving on to the next arena of a rearranged vector.
MovedOn(s, bs) == [s EXCEPT !.cur = s.cur + 1, !.arenas = bs]

(* Stepping to the next arena of a list whose used part is the old one leaves *)
(* a well-formed stack that continues the old one.                            *)
LEMMA MovedOnIs ==
  ASSUME NEW s, StackOK(s), s.arena_size # 0,
         NEW bs, ArenasOK(bs), s.cur + 1 < Len(bs),
         \A i \in 1 .. (s.cur + 1) : bs[i] = s.arenas[i],
         Retains(s.arenas, bs)
  PROVE  /\ StackOK(MovedOn(s, bs)) /\ Continues(s, MovedOn(s, bs))
         /\ ActiveOf(MovedOn(s, bs)) = bs[s.cur + 2]
<1> DEFINE t == MovedOn(s, bs)
           c == s.cur + 1
<1>1. /\ StackShape(s) /\ s.cur \in Nat /\ c \in Nat /\ s.arena_size \in Nat
      /\ s.cur + 1 \in 1 .. Len(s.arenas) /\ Len(s.arenas) \in Nat
  BY ActiveIs DEF StackOK
<1>2. t = [arena_size |-> s.arena_size, arenas |-> bs, cur |-> c]
  <2>1. t = [s EXCEPT !.cur = c, !.arenas = bs]
    BY DEF MovedOn
  <2> HIDE DEF c, t
  <2> DEFINE z == s.arena_size
             as == s.arenas
             k == s.cur
  <2>2. s = [arena_size |-> z, arenas |-> as, cur |-> k]
    BY <1>1 DEF StackShape
  <2> HIDE DEF z, as, k
  <2>3. t = [arena_size |-> z, arenas |-> bs, cur |-> c]
    BY <2>1, <2>2
  <2>4. QED
    BY <2>3 DEF z
<1> HIDE DEF t
<1>3. t.arena_size = s.arena_size /\ t.arenas = bs /\ t.cur = c /\ StackShape(t)
  BY <1>2 DEF StackShape
<1>4. StackOK(t)
  BY <1>1, <1>3 DEF StackOK
<1>5. Retains(s.arenas, t.arenas)
  BY <1>3
<1>6. \A i \in 1 .. (s.cur + 1) : /\ t.arenas[i].beg = s.arenas[i].beg
                                  /\ t.arenas[i].end = s.arenas[i].end
                                  /\ s.arenas[i].cur <= t.arenas[i].cur
  <2>1. ASSUME NEW i \in 1 .. (s.cur + 1)
        PROVE  s.arenas[i].cur <= s.arenas[i].cur
    <3>1. i \in 1 .. Len(s.arenas)
      BY <1>1
    <3>2. s.arenas[i].cur \in Nat
      BY <3>1 DEF StackOK, ArenasOK, ArenaOK, ArenaRec
    <3>3. QED
      BY <3>2
  <2>2. QED
    BY <1>3, <2>1
<1>7. s.cur <= t.cur /\ s.cur + 1 <= Len(t.arenas)
  <2>1. Len(bs) \in Nat
    BY LenProperties DEF ArenasOK
  <2>2. QED
    BY <1>1, <1>3, <2>1
<1>8. Continues(s, t)
  BY <1>3, <1>5, <1>6, <1>7 DEF Continues
<1>9. t.cur + 1 = s.cur + 2
  BY <1>1, <1>3
<1>10. ActiveOf(t) = bs[s.cur + 2]
  BY <1>3, <1>9 DEF ActiveOf
<1>11. QED
  BY <1>4, <1>8, <1>10 DEF t

\* The arena moved on to is empty and large enough.
Unused(a) == a.cur = a.beg

ReadyFor(t, need) == Unused(ActiveOf(t)) /\ need <= Capacity(ActiveOf(t))

\* A retained arena, swapped into place and cleared.
Reused(s, k) == [SwapAt(s.arenas, k, s.cur + 1) EXCEPT ![(s.cur + 1) + 1] = Cleared(@)]

(* Reusing a spare arena of the stack that is large enough gives a well-      *)
(* formed stack whose active arena has the room asked for.                    *)
LEMMA ReuseIs ==
  ASSUME NEW s, StackOK(s), s.arena_size # 0, NEW need \in Nat,
         NEW k \in LargeEnough(s, need)
  PROVE  /\ StackOK(MovedOn(s, Reused(s, k))) /\ Continues(s, MovedOn(s, Reused(s, k)))
         /\ ReadyFor(MovedOn(s, Reused(s, k)), need)
<1> DEFINE as == s.arenas
           bs == Reused(s, k)
           x == s.cur + 2
           y == k + 1
<1>1. /\ s.cur \in Nat /\ Len(as) \in Nat /\ as \in Seq(ArenaRec)
      /\ \A i \in 1 .. Len(as) : ArenaOK(as[i])
  BY ActiveIs DEF StackOK, ArenasOK
<1>2. k \in (s.cur + 1) .. (Len(as) - 1) /\ need <= Capacity(as[y])
  BY DEF LargeEnough
<1>3. x \in 1 .. Len(as) /\ y \in 1 .. Len(as) /\ x > s.cur + 1 /\ y > s.cur + 1 /\ (s.cur + 1) + 1 = x
  BY <1>1, <1>2
<1>4. /\ as[x] \in ArenaRec /\ as[y] \in ArenaRec
      /\ Cleared(as[y]) \in ArenaRec /\ ArenaOK(Cleared(as[y]))
      /\ Cleared(as[y]).beg = as[y].beg /\ Cleared(as[y]).end = as[y].end
      /\ Cleared(as[y]).cur = as[y].beg
  BY <1>1, <1>3, ClearedOK DEF ArenaOK
<1> DEFINE sw == [as EXCEPT ![y] = as[x], ![x] = as[y]]
<1>5. SwapAt(as, k, s.cur + 1) = sw
  BY <1>3 DEF SwapAt
<1>6. DOMAIN as = 1 .. Len(as)
  BY <1>1, LenProperties
<1>7. /\ sw[x] = as[y] /\ DOMAIN sw = 1 .. Len(as)
      /\ \A i \in 1 .. Len(as) : sw[i] = as[Partner(x, y, i)]
  BY <1>3, <1>6 DEF Partner
<1>8. bs = [sw EXCEPT ![x] = Cleared(as[y])]
  BY <1>3, <1>5, <1>7 DEF Reused
<1> HIDE DEF sw, bs
<1>9. /\ DOMAIN bs = 1 .. Len(as) /\ bs[x] = Cleared(as[y])
      /\ \A i \in 1 .. Len(as) : i # x => bs[i] = as[Partner(x, y, i)]
  BY <1>3, <1>7, <1>8
<1>10. Partner(x, y, x) = y /\ \A i \in 1 .. Len(as) : Partner(x, y, i) \in 1 .. Len(as)
  BY <1>3 DEF Partner
<1>11. ASSUME NEW i \in 1 .. Len(as)
       PROVE  /\ bs[i].beg = as[Partner(x, y, i)].beg /\ bs[i].end = as[Partner(x, y, i)].end
              /\ ArenaOK(bs[i]) /\ bs[i] \in ArenaRec
  <2>1. CASE i = x
    BY <1>4, <1>9, <1>10, <2>1
  <2>2. CASE i # x
    <3>1. ArenaOK(as[Partner(x, y, i)])
      BY <1>1, <1>10
    <3>2. QED
      BY <1>9, <2>2, <3>1 DEF ArenaOK
  <2>3. QED
    BY <2>1, <2>2
<1>12. bs \in Seq(ArenaRec) /\ Len(bs) = Len(as)
  <2>1. bs = [i \in 1 .. Len(as) |-> bs[i]]
    BY <1>8, <1>7, <1>9
  <2>2. \A i \in 1 .. Len(as) : bs[i] \in ArenaRec
    BY <1>11
  <2>3. [i \in 1 .. Len(as) |-> bs[i]] \in Seq(ArenaRec)
    BY <1>1, <2>2, IsASeq
  <2>4. bs \in Seq(ArenaRec)
    BY <2>1, <2>3, Zenon
  <2>5. DOMAIN bs = 1 .. Len(bs) /\ Len(bs) \in Nat
    BY <2>4, LenProperties
  <2>6. QED
    BY <1>1, <1>9, <2>4, <2>5
<1>13. Exchanged(as, bs, x, y)
  BY <1>11, <1>12 DEF Exchanged
<1>14. ArenasOK(bs) /\ Retains(as, bs)
  <2>1. ArenasOK(as)
    BY DEF StackOK
  <2>2. x \in 1 .. Len(as) /\ y \in 1 .. Len(as)
    BY <1>3
  <2> HIDE DEF as, x, y
  <2>3. QED
    BY <1>13, <2>1, <2>2, ExchangedOK
<1>15. \A i \in 1 .. (s.cur + 1) : bs[i] = as[i]
  <2>1. ASSUME NEW i \in 1 .. (s.cur + 1)
        PROVE  bs[i] = as[i]
    <3>1. i \in 1 .. Len(as) /\ i # x /\ i # y
      BY <1>1, <1>3
    <3>2. QED
      BY <1>9, <3>1 DEF Partner
  <2>2. QED
    BY <2>1
<1>16. s.cur + 1 < Len(bs)
  BY <1>1, <1>3, <1>12
<1>17. StackOK(MovedOn(s, bs)) /\ Continues(s, MovedOn(s, bs)) /\ ActiveOf(MovedOn(s, bs)) = bs[x]
  BY <1>14, <1>15, <1>16, MovedOnIs
<1>18. Capacity(bs[x]) = Capacity(as[y])
  BY <1>4, <1>9 DEF Capacity
<1>19. QED
  BY <1>2, <1>4, <1>9, <1>17, <1>18 DEF ReadyFor, Unused, bs

\* A new arena lies apart from the others: that is what a free chunk is.
FreeOf(as, a) == \A i \in 1 .. Len(as) : Apart(as[i], a) /\ Apart(a, as[i])

(* A chunk the backing allocator returns makes an empty arena that overlaps   *)
(* no arena of the stack.                                                     *)
LEMMA ChunkIs ==
  ASSUME NEW as, ArenasOK(as), NEW n \in Nat \ {0}, NEW p \in BackingChunks(as, n),
         NEW a, a = ArenaInit(p, n)
  PROVE  /\ p \in Nat \ {0} /\ ArenaOK(a) /\ Capacity(a) = n
         /\ Unused(a) /\ FreeOf(as, a)
<1>1. p \in Bases
  BY DEF BackingChunks
<1>2. p \in Nat \ {0}
  BY <1>1, StackAssumption
<1>3. ArenaOK(a) /\ Capacity(a) = n /\ a.beg = p /\ a.cur = p /\ a.end = p + n
  BY <1>2, NewArenaOK
<1>4. DOMAIN as = 1 .. Len(as)
  BY LenProperties DEF ArenasOK
<1>5. \A i \in 1 .. Len(as) : p + n <= as[i].beg \/ as[i].end <= p
  BY <1>4 DEF BackingChunks
<1>6. FreeOf(as, a)
  BY <1>3, <1>5 DEF Apart, FreeOf
<1>7. QED
  BY <1>2, <1>3, <1>6 DEF Unused

(* Appending an arena that overlaps no other keeps the list well formed.      *)
LEMMA AppendedOK ==
  ASSUME NEW as, ArenasOK(as), NEW a, ArenaOK(a), FreeOf(as, a)
  PROVE  /\ ArenasOK(Append(as, a)) /\ Extended(as, a, Append(as, a))
         /\ Retains(as, Append(as, a))
<1> DEFINE n == Len(as)
           bs == Append(as, a)
<1>1. as \in Seq(ArenaRec) /\ a \in ArenaRec /\ n \in Nat
  BY LenProperties DEF ArenasOK, ArenaOK
<1>2. bs \in Seq(ArenaRec) /\ Extended(as, a, bs)
  BY <1>1, AppendIs
<1> HIDE DEF bs, n
<1>3. /\ bs \in Seq(ArenaRec) /\ Len(bs) = n + 1
      /\ \A i \in 1 .. n : bs[i] = as[i]
      /\ bs[n + 1] = a
  BY <1>2 DEF Extended, n
<1>4. \A i \in 1 .. (n + 1) : i \in 1 .. n \/ i = n + 1
  BY <1>1
<1>5. \A i \in 1 .. Len(bs) : ArenaOK(bs[i])
  BY <1>3, <1>4 DEF ArenasOK, n
<1>6. \A i, j \in 1 .. Len(bs) : i # j => Apart(bs[i], bs[j])
  <2>1. \A i, j \in 1 .. n : i # j => Apart(as[i], as[j])
    BY DEF ArenasOK, n
  <2>2. \A i \in 1 .. n : Apart(as[i], a) /\ Apart(a, as[i])
    BY DEF n, FreeOf
  <2>3. ASSUME NEW i \in 1 .. (n + 1), NEW j \in 1 .. (n + 1), i # j
        PROVE  Apart(bs[i], bs[j])
    <3>1. CASE i = n + 1
      BY <1>3, <1>4, <2>2, <2>3, <3>1
    <3>2. CASE j = n + 1
      BY <1>3, <1>4, <2>2, <2>3, <3>2
    <3>3. CASE i \in 1 .. n /\ j \in 1 .. n
      BY <1>3, <2>1, <2>3, <3>3
    <3>4. QED
      BY <1>4, <3>1, <3>2, <3>3
  <2>4. QED
    BY <1>3, <2>3
<1>7. Retains(as, bs)
  <2>1. \A i \in 1 .. n : i \in 1 .. Len(bs)
    BY <1>1, <1>3
  <2>2. QED
    BY <1>3, <2>1 DEF Retains, n
<1>8. QED
  BY <1>2, <1>5, <1>6, <1>7 DEF ArenasOK, bs

\* vec_insert_at_unordered appends the element and swaps it into place.
Inserted(as, c, a, bs) ==
  /\ bs \in Seq(ArenaRec) /\ Len(bs) = Len(as) + 1
  /\ \A i \in 1 .. (Len(as) + 1) : bs[i] = Append(as, a)[Partner(c + 1, Len(as) + 1, i)]

(* rki_vec_insert_at_unordered puts the arena at the index asked for, moves   *)
(* the one that stood there to the end, and keeps the rest.                   *)
LEMMA InsertedIs ==
  ASSUME NEW as, ArenasOK(as), NEW a, ArenaOK(a), NEW c \in 0 .. Len(as)
  PROVE  Inserted(as, c, a, InsertUnordered(as, c, a))
<1> DEFINE n == Len(as)
           bs == InsertUnordered(as, c, a)
           ap == Append(as, a)
<1>1. as \in Seq(ArenaRec) /\ a \in ArenaRec /\ n \in Nat
  <2>1. as \in Seq(ArenaRec) /\ a \in ArenaRec
    BY DEF ArenasOK, ArenaOK
  <2>2. n \in Nat
    BY <2>1, LenProperties
  <2>3. QED
    BY <2>1, <2>2
<1>2. c \in 0 .. n
  OBVIOUS
<1> HIDE DEF n
<1>3. ap \in Seq(ArenaRec) /\ Extended(as, a, ap)
  BY <1>1, AppendIs
<1> HIDE DEF ap
<1>4. /\ ap \in Seq(ArenaRec) /\ Len(ap) = n + 1
      /\ \A i \in 1 .. n : ap[i] = as[i]
      /\ ap[n + 1] = a
  BY <1>3 DEF Extended, n
<1>5. CASE c = n
  <2>1. bs = ap
    BY <1>5 DEF InsertUnordered, ap, n
  <2>2. \A i \in 1 .. (n + 1) : Partner(c + 1, n + 1, i) = i
    BY <1>5 DEF Partner
  <2>3. QED
    BY <1>4, <2>1, <2>2 DEF ap, n, Inserted
<1>6. CASE c # n
  <2> DEFINE es == [as EXCEPT ![c + 1] = a]
             e == as[c + 1]
  <2>1. c + 1 \in 1 .. n
    BY <1>1, <1>2, <1>6
  <2>2. e \in ArenaRec
    BY <1>1, <2>1, ElementOfSeq DEF n
  <2>3. es \in Seq(ArenaRec) /\ Written(as, c + 1, a, es)
    BY <1>1, <2>1, WriteIs DEF n
  <2>4. bs = Append(es, e)
    BY <1>6 DEF InsertUnordered, n
  <2> HIDE DEF es, e, bs
  <2>5. bs \in Seq(ArenaRec) /\ Extended(es, e, bs)
    BY <2>2, <2>3, <2>4, AppendIs
  <2>6. Len(es) = n /\ \A i \in 1 .. n : es[i] = IF i = c + 1 THEN a ELSE as[i]
    BY <2>3 DEF Written, n
  <2>7. /\ bs \in Seq(ArenaRec) /\ Len(bs) = n + 1
        /\ \A i \in 1 .. n : bs[i] = es[i]
        /\ bs[n + 1] = e
    BY <2>6, <2>5 DEF Extended
  <2>8. ASSUME NEW i \in 1 .. (n + 1)
        PROVE  bs[i] = ap[Partner(c + 1, n + 1, i)]
    <3>1. CASE i = c + 1
      <4>1. Partner(c + 1, n + 1, i) = n + 1
        BY <3>1 DEF Partner
      <4>2. bs[i] = a
        BY <2>1, <2>6, <2>7, <3>1
      <4>3. QED
        BY <1>4, <4>1, <4>2
    <3>2. CASE i = n + 1
      <4>1. Partner(c + 1, n + 1, i) = c + 1
        BY <1>1, <2>1, <3>2 DEF Partner
      <4>2. bs[i] = e /\ ap[c + 1] = e
        BY <1>4, <2>1, <2>7, <3>2 DEF e
      <4>3. QED
        BY <4>1, <4>2
    <3>3. CASE i # c + 1 /\ i # n + 1
      <4>1. Partner(c + 1, n + 1, i) = i
        BY <3>3 DEF Partner
      <4>2. i \in 1 .. n
        BY <1>1, <3>3
      <4>3. bs[i] = as[i] /\ ap[i] = as[i]
        BY <1>4, <2>6, <2>7, <3>3, <4>2
      <4>4. QED
        BY <4>1, <4>3
    <3>4. QED
      BY <3>1, <3>2, <3>3
  <2>9. QED
    BY <2>7, <2>8 DEF bs, ap, n, Inserted
<1>7. QED
  BY <1>5, <1>6

\* A new arena, inserted behind the active one.
LEMMA InsertIs ==
  ASSUME NEW s, StackOK(s), s.arena_size # 0, NEW need \in Nat,
         NEW n \in Nat \ {0}, need <= n, NEW p \in BackingChunks(s.arenas, n)
  PROVE  LET t == MovedOn(s, InsertUnordered(s.arenas, s.cur + 1, ArenaInit(p, n)))
         IN  StackOK(t) /\ Continues(s, t) /\ ReadyFor(t, need)
<1> DEFINE as == s.arenas
           c == s.cur + 1
           a == ArenaInit(p, n)
           ap == Append(as, a)
           bs == InsertUnordered(as, c, a)
           m == Len(as)
<1>1. /\ s.cur \in Nat /\ m \in Nat /\ c \in 1 .. m /\ c \in Nat /\ c = s.cur + 1
      /\ ArenasOK(as)
  BY ActiveIs DEF StackOK
<1>2. ArenaOK(a) /\ Capacity(a) = n /\ a.beg = a.cur /\ FreeOf(as, a)
  <2>1. p \in BackingChunks(as, n) /\ ArenasOK(as) /\ a = ArenaInit(p, n)
    BY <1>1
  <2> HIDE DEF as, a
  <2>2. ArenaOK(a) /\ Capacity(a) = n /\ Unused(a) /\ FreeOf(as, a)
    BY <2>1, ChunkIs, Zenon
  <2>3. QED
    BY <2>2 DEF Unused
<1> HIDE DEF a, as, c, ap, bs, m
<1>3. /\ ArenasOK(ap) /\ Len(ap) = m + 1 /\ ap[m + 1] = a
      /\ \A i \in 1 .. m : ap[i] = as[i]
      /\ Retains(as, ap)
  <2>1. ArenasOK(ap) /\ Extended(as, a, ap) /\ Retains(as, ap)
    BY <1>1, <1>2, AppendedOK DEF ap
  <2>2. QED
    BY <2>1 DEF Extended, m
<1>4. c \in 0 .. m /\ c + 1 \in 1 .. (m + 1) /\ m + 1 \in 1 .. (m + 1)
  BY <1>1
<1>5. /\ bs \in Seq(ArenaRec) /\ Len(bs) = m + 1
      /\ \A i \in 1 .. (m + 1) : bs[i] = ap[Partner(c + 1, m + 1, i)]
  <2>1. c \in 0 .. Len(as)
    BY <1>4 DEF m
  <2>2. Inserted(as, c, a, bs)
    BY <1>1, <1>2, <2>1, InsertedIs DEF bs
  <2>3. QED
    BY <2>2 DEF Inserted, m, ap
<1> DEFINE x == c + 1
           y == m + 1
<1>6. x \in 1 .. Len(ap) /\ y \in 1 .. Len(ap)
  BY <1>1, <1>3, <1>4
<1>7. \A i \in 1 .. Len(ap) : Partner(x, y, i) \in 1 .. Len(ap)
  BY <1>6 DEF Partner
<1>8. Exchanged(ap, bs, x, y)
  <2> HIDE DEF ap, bs
  <2>1. \A i \in 1 .. Len(ap) : bs[i] = ap[Partner(x, y, i)] /\ ArenaOK(bs[i])
    BY <1>3, <1>5, <1>7 DEF ArenasOK
  <2>2. QED
    BY <1>3, <1>5, <2>1 DEF Exchanged
<1>9. ArenasOK(bs) /\ Retains(ap, bs)
  <2> HIDE DEF ap, bs, x, y
  <2>1. QED
    BY <1>3, <1>6, <1>8, ExchangedOK
<1>10. Retains(as, bs)
  <2> HIDE DEF ap, bs
  <2>1. ASSUME NEW i \in 1 .. Len(as)
        PROVE  \E j \in 1 .. Len(bs) : bs[j].beg = as[i].beg /\ bs[j].end = as[i].end
    <3>1. PICK k \in 1 .. Len(ap) : ap[k].beg = as[i].beg /\ ap[k].end = as[i].end
      BY <1>3 DEF Retains
    <3>2. PICK j \in 1 .. Len(bs) : bs[j].beg = ap[k].beg /\ bs[j].end = ap[k].end
      BY <1>9 DEF Retains
    <3>3. QED
      BY <3>1, <3>2
  <2>2. QED
    BY <2>1 DEF Retains
<1>11. \A i \in 1 .. c : bs[i] = as[i]
  <2>1. ASSUME NEW i \in 1 .. c
        PROVE  bs[i] = as[i]
    <3>1. i \in 1 .. m /\ i \in 1 .. (m + 1) /\ Partner(x, y, i) = i
      BY <1>1 DEF Partner
    <3>2. QED
      BY <1>3, <1>5, <3>1
  <2>2. QED
    BY <2>1
<1>12. c < Len(bs)
  BY <1>1, <1>5
<1>13. bs[s.cur + 2] = a
  <2>1. s.cur + 2 = x /\ Partner(x, y, x) = y
    BY <1>1 DEF Partner
  <2>2. QED
    BY <1>3, <1>4, <1>5, <2>1
<1> DEFINE t == MovedOn(s, bs)
<1>14. StackOK(t) /\ Continues(s, t) /\ ActiveOf(t) = bs[s.cur + 2]
  <2> HIDE DEF bs
  <2>1. /\ s.cur + 1 < Len(bs) /\ Retains(s.arenas, bs)
        /\ \A i \in 1 .. (s.cur + 1) : bs[i] = s.arenas[i]
    BY <1>10, <1>11, <1>12 DEF as, c
  <2>2. QED
    BY <1>9, <2>1, MovedOnIs
<1>15. ReadyFor(t, need)
  BY <1>2, <1>13, <1>14 DEF ReadyFor, Unused
<1>16. QED
  BY <1>14, <1>15 DEF as, a, bs, c

-----------------------------------------------------------------------------
\* The slow path of rki_arenastack_allocate up to its last call.
LEMMA NextArenaIs ==
  ASSUME NEW s, StackOK(s), s.arena_size # 0, NEW need \in Nat, NEW t \in NextArena(s, need)
  PROVE  StackOK(t) /\ Continues(s, t) /\ ReadyFor(t, need)
<1>1. s.arena_size \in Nat
  BY DEF StackOK
<1>2. CASE LargeEnough(s, need) # {}
  <2> DEFINE k == Min(LargeEnough(s, need))
  <2>1. LargeEnough(s, need) \subseteq Nat
    <3>1. s.cur \in Nat
      BY DEF StackOK
    <3>2. QED
      BY <3>1 DEF LargeEnough
  <2>2. k \in LargeEnough(s, need)
    BY <1>2, <2>1, MinIn
  <2>3. t = MovedOn(s, Reused(s, k))
    BY <1>2 DEF NextArena, MovedOn, Reused
  <2> HIDE DEF k
  <2>4. QED
    BY <2>2, <2>3, ReuseIs
<1>3. CASE LargeEnough(s, need) = {}
  <2> DEFINE z == Max({need, s.arena_size})
             n == BitCeil(z)
  <2>1. z \in Nat /\ need <= z
    BY <1>1, MaxOfTwo
  <2>2. n \in Nat \ {0} /\ z <= n
    <3> HIDE DEF z
    <3>1. QED
      BY <2>1, BitCeilIs
  <2>3. need <= n
    BY <2>1, <2>2
  <2>4. PICK p \in BackingChunks(s.arenas, n) :
              t = MovedOn(s, InsertUnordered(s.arenas, s.cur + 1, ArenaInit(p, n)))
    BY <1>3 DEF NextArena, MovedOn
  <2> HIDE DEF n
  <2>5. QED
    BY <2>2, <2>3, <2>4, InsertIs
<1>4. QED
  BY <1>2, <1>3

\* arenastack_init: one empty arena.
LEMMA InitStackIs ==
  ASSUME NEW cap \in Nat, NEW t \in InitStacks(cap)
  PROVE  StackOK(t) /\ t.arena_size # 0
<1> DEFINE n == BitCeil(cap)
<1>1. n \in Nat \ {0}
  BY BitCeilIs
<1>2. PICK p \in BackingChunks(<<>>, n) :
         t = [arena_size |-> n, arenas |-> <<ArenaInit(p, n)>>, cur |-> 0]
  BY DEF InitStacks
<1> HIDE DEF n
<1> DEFINE a == ArenaInit(p, n)
           as == <<a>>
<1>3. ArenasOK(<<>>)
  BY DEF ArenasOK
<1>4. ArenaOK(a) /\ a \in ArenaRec
  <2>1. p \in Nat \ {0}
    BY StackAssumption DEF BackingChunks
  <2>2. QED
    BY <1>1, <2>1, NewArenaOK DEF ArenaOK
<1> HIDE DEF a
<1>5. as \in Seq(ArenaRec) /\ Len(as) = 1 /\ as[1] = a
  BY <1>4
<1>6. ArenasOK(as)
  BY <1>4, <1>5 DEF ArenasOK
<1>7. t.arena_size = n /\ t.arenas = as /\ t.cur = 0 /\ StackShape(t)
  BY <1>2 DEF a, StackShape
<1> HIDE DEF as
<1>8. t.arena_size \in Nat /\ t.arena_size # 0 /\ t.cur \in Nat /\ t.cur < Len(t.arenas)
  <2>1. Len(t.arenas) = 1
    BY <1>5, <1>7, Zenon
  <2>2. QED
    BY <1>1, <1>7, <2>1
<1>9. ArenasOK(t.arenas)
  BY <1>6, <1>7, Zenon
<1>10. QED
  BY <1>7, <1>8, <1>9 DEF StackOK

\* Whatever stack the request is served from, the active arena has room: the
\* call that ends rki_arenastack_allocate never reaches its abort.
LEMMA ServingIs ==
  ASSUME NEW n \in Sizes, NEW al \in Aligns, StackOK(stack), NEW t \in ServingStacks(n, al)
  PROVE  /\ StackOK(t) /\ t.arena_size # 0 /\ Continues(stack, t)
         /\ Fits(ActiveOf(t), n, al)
<1> DEFINE need == Needed(n, al)
<1>1. n \in Nat /\ al \in Nat \ {0} /\ need \in Nat
  BY StackAssumption DEF Needed
<1>2. PICK s \in IF stack.arena_size = 0 THEN InitStacks(BitCeil(need)) ELSE {stack} :
         t \in IF Fits(ActiveOf(s), n, al) THEN {s} ELSE NextArena(s, need)
  BY DEF ServingStacks
<1> HIDE DEF need
<1>3. StackOK(s) /\ s.arena_size # 0
  <2>1. CASE stack.arena_size = 0
    <3>1. s \in InitStacks(BitCeil(need)) /\ BitCeil(need) \in Nat
      BY <1>1, <2>1, BitCeilIs
    <3>2. QED
      BY <3>1, InitStackIs
  <2>2. CASE stack.arena_size # 0
    BY <2>2
  <2>3. QED
    BY <2>1, <2>2
<1>4. /\ StackOK(t) /\ t.arena_size # 0 /\ Fits(ActiveOf(t), n, al)
      /\ Continues(s, t)
  <2>1. CASE Fits(ActiveOf(s), n, al)
    <3>1. t = s
      BY <1>2, <2>1
    <3>2. Retains(s.arenas, s.arenas)
      BY DEF Retains
    <3>3. s.cur <= s.cur /\ s.cur + 1 <= Len(s.arenas) /\ s.cur \in Nat /\ Len(s.arenas) \in Nat
      BY <1>3, ActiveIs
    <3>4. \A i \in 1 .. (s.cur + 1) : s.arenas[i].cur <= s.arenas[i].cur
      <4>1. ASSUME NEW i \in 1 .. (s.cur + 1)
            PROVE  s.arenas[i].cur <= s.arenas[i].cur
        <5>1. i \in 1 .. Len(s.arenas)
          BY <3>3
        <5>2. s.arenas[i].cur \in Nat
          BY <1>3, <5>1 DEF StackOK, ArenasOK, ArenaOK, ArenaRec
        <5>3. QED
          BY <5>2
      <4>2. QED
        BY <4>1
    <3>5. Continues(s, s)
      BY <1>3, <3>2, <3>3, <3>4 DEF Continues
    <3>6. QED
      BY <1>3, <2>1, <3>1, <3>5
  <2>2. CASE ~ Fits(ActiveOf(s), n, al)
    <3>1. StackOK(t) /\ Continues(s, t) /\ ReadyFor(t, need)
      BY <1>1, <1>2, <1>3, <2>2, NextArenaIs
    <3>2. t.arena_size # 0
      BY <3>1 DEF Continues
    <3>3. ArenaOK(ActiveOf(t))
      BY <3>1, <3>2, ActiveIs
    <3>4. ActiveOf(t).cur = ActiveOf(t).beg /\ Needed(n, al) <= Capacity(ActiveOf(t))
      BY <3>1 DEF ReadyFor, Unused, need
    <3>5. Fits(ActiveOf(t), n, al)
      BY <1>1, <3>3, <3>4, SlackFits
    <3>6. QED
      BY <3>1, <3>2, <3>5
  <2>3. QED
    BY <2>1, <2>2
<1>5. Continues(stack, t)
  <2>1. CASE stack.arena_size = 0
    <3>1. stack.arenas = <<>>
      BY <2>1 DEF StackOK, ZeroStack
    <3>2. Retains(stack.arenas, t.arenas)
      BY <3>1 DEF Retains
    <3>3. QED
      BY <1>4, <2>1, <3>2 DEF Continues
  <2>2. CASE stack.arena_size # 0
    <3>1. s = stack
      BY <1>2, <2>2
    <3>2. QED
      BY <1>4, <3>1
  <2>3. QED
    BY <2>1, <2>2
<1>6. QED
  BY <1>4, <1>5

-----------------------------------------------------------------------------
\* Blocks: fewer of them, one more of them, and the numbers in a block.
LEMMA BlockNat ==
  ASSUME NEW b, BlockShape(b)
  PROVE  b.ptr \in Nat /\ b.size \in Nat /\ b.align \in Nat \ {0} /\ b.ptr + b.size \in Nat
BY StackAssumption DEF BlockShape

(* Giving up some of the live blocks keeps the others placed and apart.       *)
LEMMA FewerBlocks ==
  ASSUME NEW s, NEW L, BlocksOK(s, L), NEW M, M \subseteq L
  PROVE  BlocksOK(s, M)
BY DEF BlocksOK

(* A block that lies in the used part of an arena and overlaps no live block  *)
(* can join them.                                                             *)
LEMMA OneMoreBlock ==
  ASSUME NEW s, NEW M, BlocksOK(s, M), NEW c, BlockShape(c), BlockIn(s, c),
         \A x \in M : Contract!Disjoint(x, c)
  PROVE  BlocksOK(s, M \cup {c}) /\ Contract!Placeable(c, M)
<1>1. \A x, y : Contract!Disjoint(x, y) => Contract!Disjoint(y, x)
  BY DEF Contract!Disjoint
<1>2. \A x \in M : Contract!Disjoint(c, x)
  BY <1>1
<1>3. \A x, y \in M \cup {c} : x # y => Contract!Disjoint(x, y)
  BY <1>2 DEF BlocksOK
<1>4. \A x \in M \cup {c} : BlockShape(x) /\ BlockIn(s, x)
  BY DEF BlocksOK
<1>5. Contract!Placeable(c, M)
  BY <1>2 DEF Contract!Placeable, Contract!Aligned, BlockShape
<1>6. QED
  BY <1>3, <1>4, <1>5 DEF BlocksOK

\* Disjointness, for blocks whose numbers are known.
LEMMA DisjointIf ==
  ASSUME NEW x, NEW c, x.ptr \in Nat, x.size \in Nat, c.ptr \in Nat, c.size \in Nat,
         x.size > 0 => x.ptr + x.size <= c.ptr \/ c.ptr + c.size <= x.ptr
  PROVE  Contract!Disjoint(x, c)
BY DEF Contract!Disjoint, Contract!BlockEnd

\* A block held by another arena shares no byte with a range of the active one.
LEMMA OtherArena ==
  ASSUME NEW s, StackOK(s), s.arena_size # 0, NEW x, BlockShape(x),
         NEW i \in 1 .. Len(s.arenas), i # s.cur + 1, Holds(s, i, x),
         NEW p \in Nat, NEW n \in Nat, ActiveOf(s).beg <= p, p + n <= ActiveOf(s).end
  PROVE  x.ptr + x.size <= p \/ p + n <= x.ptr
<1> DEFINE a == s.arenas[i]
           e == ActiveOf(s)
<1>1. x.ptr \in Nat /\ x.size \in Nat
  BY BlockNat
<1>2. s.cur + 1 \in 1 .. Len(s.arenas) /\ e = s.arenas[s.cur + 1] /\ e.beg \in Nat /\ e.end \in Nat
  BY ActiveIs
<1>3. Apart(a, e)
  BY <1>2 DEF StackOK, ArenasOK
<1>4. a.beg \in Nat /\ a.end \in Nat
  BY DEF StackOK, ArenasOK, ArenaOK, ArenaRec
<1>5. a.beg <= x.ptr /\ x.ptr + x.size <= a.end
  BY DEF Holds
<1> HIDE DEF a, e
<1>6. e.beg <= p /\ p + n <= e.end
  BY DEF e
<1>7. e.beg \in Nat /\ e.end \in Nat
  BY <1>2
<1>8. CASE a.end <= e.beg
  <2>1. x.ptr + x.size <= e.beg
    BY <1>1, <1>4, <1>5, <1>7, <1>8
  <2>2. x.ptr + x.size <= p
    BY <1>1, <1>6, <1>7, <2>1
  <2>3. QED
    BY <2>2
<1>9. CASE e.end <= a.beg
  <2>1. p + n <= a.beg
    BY <1>4, <1>6, <1>7, <1>9
  <2>2. p + n <= x.ptr
    BY <1>1, <1>4, <1>5, <2>1
  <2>3. QED
    BY <2>2
<1>10. QED
  BY <1>3, <1>8, <1>9 DEF Apart

\* A new block above the cursor of the active arena.
LEMMA BumpKeeps ==
  ASSUME NEW t, StackOK(t), t.arena_size # 0, NEW L, BlocksOK(t, L),
         NEW n \in Sizes, NEW al \in Aligns, Fits(ActiveOf(t), n, al),
         NEW u, u = SetActive(t, Bumped(ActiveOf(t), n, al)),
         NEW c, c = Blk(t, Placed(ActiveOf(t), al), n, al)
  PROVE  /\ StackOK(u) /\ Continues(t, u)
         /\ BlocksOK(u, L \cup {c}) /\ Contract!Placeable(c, L) /\ c.align = al
<1> DEFINE a == ActiveOf(t)
           p == Placed(a, al)
           b == Bumped(a, n, al)
           k == t.cur + 1
<1>1. n \in Nat /\ al \in Nat \ {0}
  BY StackAssumption
<1>2. /\ k \in 1 .. Len(t.arenas) /\ t.cur \in Nat /\ Len(t.arenas) \in Nat
      /\ a = t.arenas[k] /\ ArenaOK(a)
      /\ a.beg \in Nat /\ a.cur \in Nat /\ a.end \in Nat
  BY ActiveIs
<1>3. /\ p \in Nat /\ p % al = 0 /\ a.cur <= p /\ p + n <= a.end
      /\ ArenaOK(b) /\ b.beg = a.beg /\ b.end = a.end /\ b.cur = p + n
  BY <1>1, <1>2, BumpIs
<1>4. a.beg <= a.cur /\ a.cur <= a.end
  BY <1>2 DEF ArenaOK
<1>5. c = [ptr |-> p, size |-> n, align |-> al, buf |-> a.beg]
  BY DEF Blk
<1>6. u = SetActive(t, b)
  OBVIOUS
<1> HIDE DEF a, p, b
<1>7. /\ Recursored(t, u) /\ u.cur = t.cur /\ ActiveOf(u) = b
      /\ \A i \in 1 .. Len(t.arenas) : u.arenas[i] = IF i = k THEN b ELSE t.arenas[i]
  <2>1. ActiveBecomes(t, b, u)
    BY <1>3, <1>6, SetActiveIs DEF a
  <2>2. QED
    BY <2>1 DEF ActiveBecomes
<1>8. StackOK(u)
  BY <1>7, RecursoredOK
<1>9. Continues(t, u)
  <2>1. u.arena_size # 0 /\ Len(u.arenas) = Len(t.arenas)
    BY <1>7 DEF Recursored
  <2>2. Retains(t.arenas, u.arenas)
    BY <1>7 DEF Recursored, Retains
  <2>3. \A i \in 1 .. (t.cur + 1) : i \in 1 .. Len(t.arenas)
    BY <1>2
  <2>4. ASSUME NEW i \in 1 .. (t.cur + 1)
        PROVE  /\ u.arenas[i].beg = t.arenas[i].beg /\ u.arenas[i].end = t.arenas[i].end
               /\ t.arenas[i].cur <= u.arenas[i].cur
    <3>1. CASE i = k
      <4>1. a.cur <= b.cur
        BY <1>1, <1>2, <1>3, SMTT(30)
      <4>2. QED
        BY <1>2, <1>3, <1>7, <2>3, <3>1, <4>1
    <3>2. CASE i # k
      <4>1. t.arenas[i].cur \in Nat
        BY <2>3 DEF StackOK, ArenasOK, ArenaOK, ArenaRec
      <4>2. QED
        BY <1>7, <2>3, <3>2, <4>1
    <3>3. QED
      BY <3>1, <3>2
  <2>5. t.cur <= u.cur /\ t.cur + 1 <= Len(u.arenas)
    BY <1>2, <1>7, <2>1
  <2>6. QED
    BY <2>1, <2>2, <2>4, <2>5 DEF Continues
<1>10. BlocksOK(u, L)
  BY <1>8, <1>9, ContinuesBlocks DEF BlocksOK
<1>11. c.ptr = p /\ c.size = n /\ c.align = al /\ c.buf = a.beg
  BY <1>5
<1>12. BlockShape(c)
  BY <1>3, <1>5, <1>11 DEF BlockShape
<1>13. BlockIn(u, c)
  <2>1. u.arenas[k] = b /\ k \in 1 .. Len(u.arenas)
    BY <1>2, <1>7 DEF Recursored
  <2>2. a.beg <= p
    BY <1>2, <1>3, <1>4
  <2>3. p + n <= p + n /\ k <= k
    BY <1>1, <1>2, <1>3
  <2>4. Holds(u, k, c)
    BY <1>3, <1>7, <1>11, <2>1, <2>2, <2>3 DEF Holds
  <2>5. QED
    BY <2>1, <2>4 DEF BlockIn
<1>14. ASSUME NEW x \in L
       PROVE  Contract!Disjoint(x, c)
  <2>1. BlockShape(x) /\ BlockIn(t, x) /\ x.ptr \in Nat /\ x.size \in Nat
    BY BlockNat DEF BlocksOK
  <2>2. ASSUME x.size > 0
        PROVE  x.ptr + x.size <= p \/ p + n <= x.ptr
    <3>1. PICK i \in 1 .. Len(t.arenas) : Holds(t, i, x)
      BY <2>1 DEF BlockIn
    <3>2. CASE i = k
      <4>1. x.ptr + x.size <= a.cur
        BY <1>2, <2>2, <3>1, <3>2 DEF Holds
      <4>2. QED
        BY <1>2, <1>3, <2>1, <4>1, SMTT(30)
    <3>3. CASE i # k
      <4>1. ActiveOf(t).beg <= p /\ p + n <= ActiveOf(t).end
        BY <1>2, <1>3, <1>4 DEF a
      <4>2. QED
        BY <1>1, <1>3, <2>1, <3>1, <3>3, <4>1, OtherArena
    <3>4. QED
      BY <3>2, <3>3
  <2>3. QED
    BY <1>1, <1>3, <1>11, <2>1, <2>2, DisjointIf
<1>15. Contract!Placeable(c, L) /\ BlocksOK(u, L \cup {c})
  BY <1>10, <1>12, <1>13, <1>14, OneMoreBlock
<1>16. QED
  BY <1>8, <1>9, <1>11, <1>15

\* The other blocks of the active arena lie below its top block.
LEMMA BelowTop ==
  ASSUME NEW s, StackOK(s), s.arena_size # 0, NEW b, BlockShape(b),
         ActiveOf(s).beg <= b.ptr, b.ptr + b.size = ActiveOf(s).cur,
         NEW x, BlockShape(x), x.size > 0, Holds(s, s.cur + 1, x), Contract!Disjoint(x, b)
  PROVE  x.ptr + x.size <= b.ptr
<1>1. /\ x.ptr \in Nat /\ x.size \in Nat /\ b.ptr \in Nat /\ b.size \in Nat
      /\ ActiveOf(s).cur \in Nat /\ ActiveOf(s) = s.arenas[s.cur + 1]
  BY BlockNat, ActiveIs
<1>2. x.ptr + x.size <= b.ptr + b.size
  BY <1>1 DEF Holds
<1>3. b.size = 0 \/ x.ptr + x.size <= b.ptr \/ b.ptr + b.size <= x.ptr
  BY <1>1 DEF Contract!Disjoint, Contract!BlockEnd
<1>4. QED
  BY <1>1, <1>2, <1>3

\* The top block is given up, or changes size where it is: the cursor moves to
\* its new end, above which nothing else lies.
CursorLowered(s, u) == /\ Recursored(s, u) /\ StackOK(u) /\ u.cur = s.cur
                       /\ \A i \in 1 .. s.cur : u.arenas[i] = s.arenas[i]

Resettled(u, M, b, c) == /\ BlocksOK(u, M \cup {c})
                         /\ Contract!Placeable(c, M) /\ c.align = b.align

(* Moving the cursor of the active arena within its top block, as a           *)
(* deallocation or a resize in place does, disturbs no other live block.      *)
LEMMA TopKeeps ==
  ASSUME NEW s, StackOK(s), s.arena_size # 0, NEW L, BlocksOK(s, L), NEW b \in L,
         ActiveOf(s).beg <= b.ptr, b.ptr + b.size = ActiveOf(s).cur,
         NEW n \in Nat, b.ptr + n <= ActiveOf(s).end,
         NEW u, u = SetActive(s, [ActiveOf(s) EXCEPT !.cur = b.ptr + n]),
         NEW c, c = Blk(s, b.ptr, n, b.align)
  PROVE  /\ CursorLowered(s, u) /\ BlocksOK(u, L \ {b})
         /\ n \in Sizes => Resettled(u, L \ {b}, b, c)
<1> DEFINE a == ActiveOf(s)
           p == b.ptr
           k == s.cur + 1
           e == [a EXCEPT !.cur = p + n]
           M == L \ {b}
<1>1. BlockShape(b) /\ b.ptr \in Nat /\ b.size \in Nat /\ b.align \in Aligns /\ p % b.align = 0
  BY BlockNat DEF BlocksOK, BlockShape
<1>2. /\ k \in 1 .. Len(s.arenas) /\ s.cur \in Nat /\ Len(s.arenas) \in Nat
      /\ a = s.arenas[k] /\ ArenaOK(a)
      /\ a.beg \in Nat /\ a.cur \in Nat /\ a.end \in Nat
  BY ActiveIs
<1>3. ArenaOK(e) /\ e.beg = a.beg /\ e.end = a.end /\ e.cur = p + n
  <2>1. p + n \in Nat /\ a.beg <= p + n /\ p + n <= a.end
    BY <1>1, <1>2, SMTT(30)
  <2> HIDE DEF a, p
  <2>2. QED
    BY <1>2, <2>1, CursorAt
<1>4. c = [ptr |-> p, size |-> n, align |-> b.align, buf |-> a.beg]
  BY DEF Blk
<1>5. c.ptr = p /\ c.size = n /\ c.align = b.align /\ c.buf = a.beg
  BY <1>4
<1>6. u = SetActive(s, e) /\ a.beg <= p /\ p + n <= a.end
  OBVIOUS
<1> HIDE DEF a, p, e, M
<1>7. /\ Recursored(s, u) /\ u.cur = s.cur /\ ActiveOf(u) = e
      /\ \A i \in 1 .. Len(s.arenas) : u.arenas[i] = IF i = k THEN e ELSE s.arenas[i]
  <2>1. ActiveBecomes(s, e, u)
    BY <1>3, <1>6, SetActiveIs DEF a
  <2>2. QED
    BY <2>1 DEF ActiveBecomes
<1>8. StackOK(u) /\ Len(u.arenas) = Len(s.arenas)
  BY <1>7, RecursoredOK DEF Recursored
<1>9. \A i \in 1 .. s.cur : u.arenas[i] = s.arenas[i]
  <2>1. \A i \in 1 .. s.cur : i \in 1 .. Len(s.arenas) /\ i # k
    BY <1>2
  <2>2. QED
    BY <1>7, <2>1
<1>10. BlocksOK(s, M)
  BY FewerBlocks DEF M
<1>11. \A x \in M : /\ BlockShape(x) /\ BlockIn(s, x) /\ Contract!Disjoint(x, b)
                    /\ x.ptr \in Nat /\ x.size \in Nat
  BY BlockNat DEF BlocksOK, M
<1>12. \A x \in M : x.size > 0 /\ Holds(s, k, x) => x.ptr + x.size <= p
  <2>1. ASSUME NEW x \in M, x.size > 0, Holds(s, s.cur + 1, x)
        PROVE  x.ptr + x.size <= b.ptr
    BY <1>1, <1>11, <2>1, BelowTop
  <2>2. QED
    BY <2>1 DEF p
<1>13. ASSUME NEW x \in M
       PROVE  BlockIn(u, x)
  <2>1. PICK i \in 1 .. Len(s.arenas) : Holds(s, i, x)
    BY <1>11 DEF BlockIn
  <2>2. i \in 1 .. Len(u.arenas)
    BY <1>8
  <2>3. CASE i # k
    <3>1. u.arenas[i] = s.arenas[i]
      BY <1>7, <2>3
    <3>2. Holds(u, i, x)
      BY <1>7, <2>1, <3>1 DEF Holds
    <3>3. QED
      BY <2>2, <3>2 DEF BlockIn
  <2>4. CASE i = k
    <3>1. u.arenas[i] = e /\ s.arenas[i] = a
      BY <1>2, <1>7, <2>4
    <3>2. x.size > 0 => x.ptr + x.size <= e.cur
      <4>1. ASSUME x.size > 0
            PROVE  x.ptr + x.size <= e.cur
        <5>1. x.ptr + x.size <= p /\ p \in Nat /\ x.ptr \in Nat /\ x.size \in Nat
          BY <1>1, <1>11, <1>12, <2>1, <2>4, <4>1 DEF p
        <5>2. QED
          BY <1>3, <5>1
      <4>2. QED
        BY <4>1
    <3>3. Holds(u, i, x)
      BY <1>3, <1>7, <2>1, <3>1, <3>2 DEF Holds
    <3>4. QED
      BY <2>2, <3>3 DEF BlockIn
  <2>5. QED
    BY <2>3, <2>4
<1>14. BlocksOK(u, M)
  BY <1>10, <1>11, <1>13 DEF BlocksOK
<1>15. ASSUME n \in Sizes
       PROVE  Resettled(u, M, b, c)
  <2>1. BlockShape(c)
    <3>1. p \in Nat /\ p % b.align = 0
      BY <1>1 DEF p
    <3>2. QED
      BY <1>1, <1>4, <1>5, <1>15, <3>1 DEF BlockShape
  <2>2. BlockIn(u, c)
    <3>1. u.arenas[k] = e /\ k \in 1 .. Len(u.arenas)
      BY <1>2, <1>7, <1>8
    <3>2. p \in Nat /\ p + n <= p + n /\ k <= u.cur + 1
      BY <1>1, <1>2, <1>7 DEF p
    <3>3. Holds(u, k, c)
      BY <1>3, <1>5, <1>6, <3>1, <3>2 DEF Holds
    <3>4. QED
      BY <3>1, <3>3 DEF BlockIn
  <2>3. ASSUME NEW x \in M
        PROVE  Contract!Disjoint(x, c)
    <3>1. ASSUME x.size > 0
          PROVE  x.ptr + x.size <= p \/ p + n <= x.ptr
      <4>1. PICK i \in 1 .. Len(s.arenas) : Holds(s, i, x)
        BY <1>11 DEF BlockIn
      <4>2. CASE i = k
        BY <1>12, <3>1, <4>1, <4>2
      <4>3. CASE i # k
        <5>1. ActiveOf(s).beg <= p /\ p + n <= ActiveOf(s).end /\ p \in Nat
          BY <1>1, <1>6 DEF a, p
        <5>2. QED
          BY <1>11, <4>1, <4>3, <5>1, OtherArena
      <4>4. QED
        BY <4>2, <4>3
    <3>2. c.ptr \in Nat /\ c.size \in Nat
      BY <1>1, <1>5 DEF p
    <3>3. QED
      BY <1>5, <1>11, <3>1, <3>2, DisjointIf
  <2>4. BlocksOK(u, M \cup {c}) /\ Contract!Placeable(c, M)
    BY <1>14, <2>1, <2>2, <2>3, OneMoreBlock
  <2>5. QED
    BY <1>5, <2>4 DEF Resettled
<1>16. CursorLowered(s, u)
  BY <1>7, <1>8, <1>9 DEF CursorLowered
<1>17. QED
  BY <1>14, <1>15, <1>16 DEF M

\* A block that shrinks where it is.
LEMMA ShrinkKeeps ==
  ASSUME NEW s, StackOK(s), NEW L, BlocksOK(s, L), NEW b \in L,
         NEW n \in Sizes, n <= b.size, NEW c, c = [b EXCEPT !.size = n]
  PROVE  /\ BlocksOK(s, (L \ {b}) \cup {c})
         /\ Contract!Placeable(c, L \ {b}) /\ c.align = b.align
<1>1. /\ BlockShape(b) /\ BlockIn(s, b) /\ b.ptr \in Nat /\ b.size \in Nat
      /\ n \in Nat
  BY StackAssumption, BlockNat DEF BlocksOK
<1> DEFINE p == b.ptr
           z == b.size
           al == b.align
           f == b.buf
<1>2. b = [ptr |-> p, size |-> z, align |-> al, buf |-> f]
  BY <1>1 DEF BlockShape
<1> HIDE DEF p, z, al, f
<1>3. c = [ptr |-> p, size |-> n, align |-> al, buf |-> f]
  BY <1>2
<1>4. /\ c.ptr = b.ptr /\ c.size = n /\ c.align = b.align /\ c.buf = b.buf
      /\ c = [ptr |-> c.ptr, size |-> c.size, align |-> c.align, buf |-> c.buf]
  BY <1>2, <1>3
<1>5. BlockShape(c)
  BY <1>1, <1>4 DEF BlockShape
<1>6. BlockIn(s, c)
  <2>1. PICK i \in 1 .. Len(s.arenas) : Holds(s, i, b)
    BY <1>1 DEF BlockIn
  <2>2. ArenaOK(s.arenas[i]) /\ s.arenas[i].cur \in Nat /\ s.arenas[i].end \in Nat
    BY DEF StackOK, ArenasOK, ArenaOK, ArenaRec
  <2>3. /\ b.ptr + n <= b.ptr + b.size /\ b.ptr + n \in Nat /\ b.ptr + b.size \in Nat
        /\ n > 0 => b.size > 0
    BY <1>1
  <2>4. \A e \in Nat : b.ptr + b.size <= e => b.ptr + n <= e
    BY <2>3
  <2>5. Holds(s, i, c)
    BY <1>4, <2>1, <2>2, <2>3, <2>4 DEF Holds
  <2>6. QED
    BY <2>5 DEF BlockIn
<1>7. BlocksOK(s, L \ {b})
  BY FewerBlocks
<1>8. ASSUME NEW x \in L \ {b}
      PROVE  Contract!Disjoint(x, c)
  <2>1. Contract!Disjoint(x, b) /\ x.ptr \in Nat /\ x.size \in Nat
    BY BlockNat DEF BlocksOK
  <2>2. x.size > 0 => x.ptr + x.size <= c.ptr \/ c.ptr + c.size <= x.ptr \/ c.size = 0
    BY <1>1, <1>4, <2>1 DEF Contract!Disjoint, Contract!BlockEnd
  <2>3. QED
    BY <1>1, <1>4, <2>1, <2>2 DEF Contract!Disjoint, Contract!BlockEnd
<1>9. QED
  BY <1>4, <1>5, <1>6, <1>7, <1>8, OneMoreBlock

-----------------------------------------------------------------------------
\* Moving one cursor inside its buffer.
CursorBecomes(s, v, k, p, w) ==
  /\ Recursored(s, w) /\ w.cur = v.cur
  /\ \A i \in 1 .. Len(s.arenas) : i # k => w.arenas[i] = v.arenas[i]
  /\ w.arenas[k].cur = p

(* Writing the cursor of one arena to a place inside its buffer changes that  *)
(* cursor and nothing else.                                                   *)
LEMMA CursorMoved ==
  ASSUME NEW s, NEW v, Recursored(s, v), NEW k \in 1 .. Len(s.arenas),
         NEW p \in Nat, v.arenas[k].beg <= p, p <= v.arenas[k].end
  PROVE  CursorBecomes(s, v, k, p, [v EXCEPT !.arenas[k].cur = p])
<1> DEFINE w == [v EXCEPT !.arenas[k].cur = p]
           vs == v.arenas
           e == [vs[k] EXCEPT !.cur = p]
           ws == [vs EXCEPT ![k] = e]
           z == v.arena_size
           n == v.cur
<1>1. /\ vs \in Seq(ArenaRec) /\ k \in 1 .. Len(vs) /\ ArenaOK(vs[k])
      /\ Len(vs) = Len(s.arenas)
  BY DEF Recursored
<1>2. v = [arena_size |-> z, arenas |-> vs, cur |-> n]
  BY DEF Recursored, StackShape
<1>3. ArenaOK(e) /\ e.beg = vs[k].beg /\ e.end = vs[k].end /\ e.cur = p
  BY <1>1, CursorAt
<1>4. w = [v EXCEPT !.arenas = ws]
  BY <1>2
<1>5. e \in ArenaRec
  BY <1>3 DEF ArenaOK
<1> HIDE DEF e
<1>6. ws \in Seq(ArenaRec) /\ Written(vs, k, e, ws)
  BY <1>1, <1>5, WriteIs
<1> HIDE DEF ws, vs, z, n, w
<1>7. w = [arena_size |-> z, arenas |-> ws, cur |-> n]
  BY <1>2, <1>4
<1>8. w.arena_size = z /\ w.arenas = ws /\ w.cur = n /\ StackShape(w)
  BY <1>7 DEF StackShape
<1>9. /\ Len(ws) = Len(s.arenas)
      /\ \A i \in 1 .. Len(s.arenas) : ws[i] = IF i = k THEN e ELSE vs[i]
  BY <1>1, <1>6 DEF Written
<1>10. \A i \in 1 .. Len(s.arenas) : /\ vs[i].beg = s.arenas[i].beg
                                     /\ vs[i].end = s.arenas[i].end
                                     /\ ArenaOK(vs[i])
  BY DEF Recursored, vs
<1>11. \A i \in 1 .. Len(s.arenas) : /\ ws[i].beg = s.arenas[i].beg
                                     /\ ws[i].end = s.arenas[i].end
                                     /\ ArenaOK(ws[i])
  <2>1. ASSUME NEW i \in 1 .. Len(s.arenas)
        PROVE  ws[i].beg = s.arenas[i].beg /\ ws[i].end = s.arenas[i].end /\ ArenaOK(ws[i])
    <3>1. CASE i = k
      BY <1>3, <1>9, <1>10, <3>1
    <3>2. CASE i # k
      BY <1>9, <1>10, <3>2
    <3>3. QED
      BY <3>1, <3>2
  <2>2. QED
    BY <2>1
<1>12. z = s.arena_size /\ z # 0 /\ n \in Nat /\ n <= s.cur
  BY DEF Recursored, z, n
<1>13. Recursored(s, w)
  BY <1>6, <1>8, <1>9, <1>11, <1>12 DEF Recursored
<1>14. QED
  BY <1>3, <1>8, <1>9, <1>13 DEF CursorBecomes, vs, n, w

\* The loop of arenastack_rewind_to: the arenas before the one that holds the
\* mark keep their cursors, and the one that is empty afterwards is left.
RewoundTo(i, p, u) ==
  /\ Recursored(stack, u)
  /\ \A j \in 1 .. i : u.arenas[j] = stack.arenas[j]
  /\ u.arenas[i + 1].cur = p
  /\ u.cur = IF i > 0 /\ p = stack.arenas[i + 1].beg THEN i - 1 ELSE i

(* Rewinding to a place inside arena i leaves that cursor there, the later    *)
(* arenas empty and the earlier ones untouched.                               *)
LEMMA RewoundIs ==
  ASSUME StackOK(stack), stack.arena_size # 0, NEW i \in 0 .. stack.cur, NEW p \in Nat,
         stack.arenas[i + 1].beg <= p, p <= stack.arenas[i + 1].end
  PROVE  RewoundTo(i, p, Rewound(i, p))
<1> DEFINE k == i + 1
           v == ClearRange(stack, k, stack.cur)
           w == [v EXCEPT !.arenas[k].cur = p]
           c == IF i > 0 /\ IsEmpty(w.arenas[k]) THEN i - 1 ELSE i
           u == [w EXCEPT !.cur = c]
<1>1. /\ stack.cur \in Nat /\ Len(stack.arenas) \in Nat /\ stack.cur + 1 \in 1 .. Len(stack.arenas)
      /\ i \in Nat /\ i <= stack.cur
  BY ActiveIs
<1>2. k \in 1 .. Len(stack.arenas) /\ k \in Nat
  BY <1>1
<1>3. u = Rewound(i, p)
  BY DEF Rewound
<1> HIDE DEF k
<1>4. /\ Recursored(stack, v)
      /\ \A j \in 1 .. Len(stack.arenas) :
           j - 1 \notin k .. stack.cur => v.arenas[j] = stack.arenas[j]
  BY <1>1, <1>2, ClearRangeIs
<1>5. \A j \in 1 .. k : j \in 1 .. Len(stack.arenas) /\ j - 1 \notin k .. stack.cur
  BY <1>1, <1>2
<1>6. \A j \in 1 .. k : v.arenas[j] = stack.arenas[j]
  BY <1>4, <1>5
<1>7. k \in 1 .. k /\ v.arenas[k] = stack.arenas[k]
  BY <1>2, <1>6
<1>8. v.arenas[k].beg <= p /\ p <= v.arenas[k].end
  BY <1>7 DEF k
<1> HIDE DEF v
<1>9. CursorBecomes(stack, v, k, p, w)
  BY <1>2, <1>4, <1>8, CursorMoved
<1> HIDE DEF w
<1>10. Recursored(stack, w) /\ w.arenas[k].cur = p
  BY <1>9 DEF CursorBecomes
<1>11. \A j \in 1 .. i : w.arenas[j] = stack.arenas[j]
  <2>1. \A j \in 1 .. i : j \in 1 .. Len(stack.arenas) /\ j # k /\ j \in 1 .. k
    BY <1>1 DEF k
  <2>2. QED
    BY <1>6, <1>9, <2>1 DEF CursorBecomes
<1>12. w.arenas[k].beg = stack.arenas[k].beg /\ stack.arenas[k].beg # 0
  <2>1. ArenaOK(stack.arenas[k])
    BY <1>2 DEF StackOK, ArenasOK
  <2>2. QED
    BY <1>2, <1>10, <2>1 DEF Recursored, ArenaOK
<1>13. IsEmpty(w.arenas[k]) <=> p = stack.arenas[k].beg
  BY <1>10, <1>12 DEF IsEmpty
<1>14. c = IF i > 0 /\ p = stack.arenas[k].beg THEN i - 1 ELSE i
  BY <1>13
<1>15. c \in Nat /\ c <= stack.cur
  BY <1>1, <1>14
<1> HIDE DEF c
<1>16. Recursored(stack, u) /\ u.cur = c /\ u.arenas = w.arenas
  BY <1>10, <1>15, SetCurIs
<1> HIDE DEF u
<1>17. RewoundTo(i, p, u)
  BY <1>10, <1>11, <1>14, <1>16 DEF RewoundTo, k
<1>18. QED
  BY <1>3, <1>17

-----------------------------------------------------------------------------
\* What every step but arenastack_release does: it keeps the invariant, it is a
\* step of the allocator contract, and no buffer is lost.
Effect == /\ SInv' /\ [Contract!Next]_live
          /\ Retains(stack.arenas, stack'.arenas)

(* Moving cursors keeps every buffer.                                         *)
LEMMA RecursoredRetains ==
  ASSUME NEW s, NEW t, Recursored(s, t)
  PROVE  Retains(s.arenas, t.arenas)
BY DEF Recursored, Retains

(* A list of arenas keeps its own buffers.                                    *)
LEMMA RetainsAll ==
  ASSUME NEW as
  PROVE  Retains(as, as)
BY DEF Retains

(* Keeping the buffers is transitive.                                         *)
LEMMA RetainsTwice ==
  ASSUME NEW as, NEW bs, NEW cs, Retains(as, bs), Retains(bs, cs)
  PROVE  Retains(as, cs)
<1>1. ASSUME NEW i \in 1 .. Len(as)
      PROVE  \E j \in 1 .. Len(cs) : cs[j].beg = as[i].beg /\ cs[j].end = as[i].end
  <2>1. PICK k \in 1 .. Len(bs) : bs[k].beg = as[i].beg /\ bs[k].end = as[i].end
    BY DEF Retains
  <2>2. PICK j \in 1 .. Len(cs) : cs[j].beg = bs[k].beg /\ cs[j].end = bs[k].end
    BY DEF Retains
  <2>3. QED
    BY <2>1, <2>2
<1>2. QED
  BY <1>1 DEF Retains

\* The marks that are still at or before the current position are valid.
LEMMA MarksForOK ==
  ASSUME StackOK(stack), MarksOK(stack, marks), NEW u, Recursored(stack, u),
         \A i \in 1 .. u.cur : u.arenas[i] = stack.arenas[i]
  PROVE  MarksOK(u, MarksFor(u))
<1>1. /\ StackOK(u) /\ u.arena_size # 0 /\ stack.arena_size # 0 /\ u.cur \in Nat
      /\ Len(u.arenas) = Len(stack.arenas)
  BY RecursoredOK DEF Recursored
<1>2. /\ u.cur + 1 \in 1 .. Len(stack.arenas) /\ ActiveOf(u) = u.arenas[u.cur + 1]
      /\ ActiveOf(u).beg \in Nat /\ ActiveOf(u).cur \in Nat
  BY <1>1, ActiveIs
<1>3. ActiveOf(u).beg = stack.arenas[u.cur + 1].beg
  BY <1>2 DEF Recursored
<1>4. ASSUME NEW m \in MarksFor(u)
      PROVE  MarkIn(u, m)
  <2>1. CASE m.pos = NULL
    BY <2>1 DEF MarkIn
  <2>2. CASE m.pos # NULL
    <3>1. m \in marks /\ AtOrBefore(m, u)
      BY <2>2 DEF MarksFor
    <3>2. /\ m.pos \in Nat /\ m.idx \in Nat
          /\ stack.arenas[m.idx + 1].beg <= m.pos /\ m.pos <= stack.arenas[m.idx + 1].cur
      BY <2>2, <3>1 DEF MarksOK, MarkIn
    <3>3. CASE m.idx < u.cur
      <4>1. m.idx + 1 \in 1 .. u.cur /\ m.idx <= u.cur
        BY <1>1, <3>2, <3>3
      <4>2. u.arenas[m.idx + 1] = stack.arenas[m.idx + 1]
        BY <4>1
      <4>3. QED
        BY <1>1, <3>2, <4>1, <4>2 DEF MarkIn
    <3>4. CASE m.idx = u.cur /\ m.pos <= ActiveOf(u).cur
      <4>1. m.idx <= u.cur
        BY <1>1, <3>4
      <4>2. u.arenas[m.idx + 1].beg <= m.pos /\ m.pos <= u.arenas[m.idx + 1].cur
        BY <1>2, <1>3, <3>2, <3>4
      <4>3. QED
        BY <1>1, <3>2, <4>1, <4>2 DEF MarkIn
    <3>5. QED
      BY <3>1, <3>3, <3>4 DEF AtOrBefore
  <2>3. QED
    BY <2>1, <2>2
<1>5. QED
  BY <1>4 DEF MarksOK

\* The stack of a client that holds a block has been initialised.
LEMMA BlockMeansStack ==
  ASSUME StackOK(stack), BlocksOK(stack, live), NEW b \in live
  PROVE  stack.arena_size # 0
<1>1. PICK i \in 1 .. Len(stack.arenas) : TRUE
  BY DEF BlocksOK, BlockIn
<1>2. QED
  BY <1>1 DEF StackOK, ZeroStack

-----------------------------------------------------------------------------
\* Init and arenastack_init
LEMMA ZeroStackOK == StackOK(ZeroStack)
<1>1. ZeroStack.arenas = <<>> /\ ZeroStack.cur = 0 /\ ZeroStack.arena_size = 0
  BY DEF ZeroStack
<1>2. ArenasOK(<<>>)
  BY DEF ArenasOK
<1>3. StackShape(ZeroStack)
  BY DEF StackShape, ZeroStack
<1>4. QED
  BY <1>1, <1>2, <1>3 DEF StackOK

(* The zeroed stack satisfies the invariant.                                  *)
LEMMA InitSInv == Init => SInv
BY ZeroStackOK DEF Init, SInv, BlocksOK, MarksOK

(* rki_arenastack_init: the invariant holds after it, and the promises of a   *)
(* step are met.                                                              *)
LEMMA InitStackStep ==
  ASSUME SInv, NEW cap \in InitSizes, InitStack(cap)
  PROVE  Effect
<1>1. cap \in Nat /\ BitCeil(cap) \in Nat
  BY StackAssumption, BitCeilIs
<1>2. /\ stack = ZeroStack /\ stack' \in InitStacks(cap)
      /\ live' = live /\ marks' = marks /\ failed' = failed
  BY DEF InitStack
<1>3. StackOK(stack')
  BY <1>1, <1>2, InitStackIs
<1>4. stack.arena_size = 0 /\ stack.arenas = <<>>
  BY <1>2 DEF ZeroStack
<1>5. live = {}
  BY <1>4, BlockMeansStack DEF SInv
<1>6. BlocksOK(stack', live')
  BY <1>2, <1>5 DEF BlocksOK
<1>7. MarksOK(stack', marks')
  BY <1>2, <1>4 DEF SInv, MarksOK, MarkIn
<1>8. Retains(stack.arenas, stack'.arenas)
  BY <1>4 DEF Retains
<1>9. QED
  BY <1>2, <1>3, <1>6, <1>7, <1>8 DEF SInv, Effect

\* rki_arenastack_allocate
LEMMA ServeStep ==
  ASSUME SInv, NEW n \in Sizes, NEW al \in Aligns, NEW lost \in SUBSET live,
         Serve(n, al, lost)
  PROVE  /\ SInv' /\ Retains(stack.arenas, stack'.arenas)
         /\ \E c : /\ live' = (live \ lost) \cup {c}
                   /\ Contract!Placeable(c, live \ lost) /\ c.align = al
<1>1. PICK t \in ServingStacks(n, al) :
         IF Fits(ActiveOf(t), n, al)
         THEN /\ stack' = SetActive(t, Bumped(ActiveOf(t), n, al))
              /\ live' = (live \ lost) \cup {Blk(t, Placed(ActiveOf(t), al), n, al)}
              /\ UNCHANGED <<marks, failed>>
         ELSE /\ stack' = t
              /\ failed' = TRUE
              /\ UNCHANGED <<live, marks>>
  BY DEF Serve
<1>2. StackOK(t) /\ t.arena_size # 0 /\ Continues(stack, t) /\ Fits(ActiveOf(t), n, al)
  BY ServingIs DEF SInv
<1> DEFINE c == Blk(t, Placed(ActiveOf(t), al), n, al)
           L == live \ lost
<1>3. /\ stack' = SetActive(t, Bumped(ActiveOf(t), n, al))
      /\ live' = L \cup {c}
      /\ marks' = marks /\ failed' = failed
  BY <1>1, <1>2
<1>4. BlocksOK(stack, L)
  BY FewerBlocks DEF SInv
<1>5. BlocksOK(t, L)
  BY <1>2, <1>4, ContinuesBlocks DEF SInv, BlocksOK
<1>6. c = Blk(t, Placed(ActiveOf(t), al), n, al)
  OBVIOUS
<1> HIDE DEF c, L
<1>7. /\ StackOK(stack') /\ Continues(t, stack')
      /\ BlocksOK(stack', L \cup {c}) /\ Contract!Placeable(c, L) /\ c.align = al
  BY <1>2, <1>3, <1>5, <1>6, BumpKeeps
<1>8. MarksOK(stack', marks')
  <2>1. MarksOK(t, marks)
    BY <1>2, ContinuesMarks DEF SInv, MarksOK
  <2>2. MarksOK(stack', marks)
    BY <1>2, <1>7, <2>1, ContinuesMarks DEF MarksOK
  <2>3. QED
    BY <1>3, <2>2
<1>9. Retains(stack.arenas, stack'.arenas)
  BY <1>2, <1>7, RetainsTwice DEF Continues
<1>10. SInv'
  BY <1>3, <1>7, <1>8 DEF SInv
<1>11. QED
  BY <1>3, <1>7, <1>9, <1>10 DEF L

(* arenastack_allocate, in the active arena, a spare one or a new one.        *)
LEMMA AllocateStep ==
  ASSUME SInv, NEW n \in Sizes, NEW al \in Aligns, Allocate(n, al)
  PROVE  Effect
<1>1. Serve(n, al, {})
  BY DEF Allocate
<1>2. SInv' /\ Retains(stack.arenas, stack'.arenas)
  BY <1>1, ServeStep
<1>3. PICK c : live' = (live \ {}) \cup {c} /\ Contract!Placeable(c, live \ {})
  BY <1>1, ServeStep
<1>4. Contract!Grant
  BY <1>3 DEF Contract!Grant
<1>5. QED
  BY <1>2, <1>4 DEF Effect, Contract!Next

\* rki_arenastack_is_active_top: moving the cursor by the change of size leaves
\* it at the new end of the block.
LEMMA TopIs ==
  ASSUME SInv, NEW b \in live, IsActiveTop(b), NEW n \in Nat, ResizeFits(Active, b.size, n)
  PROVE  /\ stack.arena_size # 0 /\ b.ptr \in Nat /\ b.size \in Nat
         /\ ActiveOf(stack).beg <= b.ptr /\ b.ptr + b.size = ActiveOf(stack).cur
         /\ b.ptr + n <= ActiveOf(stack).end
         /\ Resized(Active, b.size, n) = [ActiveOf(stack) EXCEPT !.cur = b.ptr + n]
<1>1. stack.arena_size # 0 /\ StackOK(stack)
  BY BlockMeansStack DEF SInv
<1> DEFINE a == ActiveOf(stack)
<1>2. ArenaOK(a) /\ a.beg \in Nat /\ a.cur \in Nat /\ a.end \in Nat /\ a.beg # 0
  BY <1>1, ActiveIs DEF ArenaOK
<1>3. b.ptr \in Nat /\ b.size \in Nat
  BY BlockNat DEF SInv, BlocksOK
<1>4. Active = a
  BY DEF Active
<1> HIDE DEF a
<1>5. a.beg <= b.ptr /\ b.ptr + b.size = a.cur
  BY <1>4 DEF IsActiveTop, IsTopAllocation
<1>6. n <= (a.end - a.cur) + b.size
  BY <1>2, <1>4 DEF ResizeFits, Remaining
<1>7. b.ptr + n <= a.end /\ (a.cur - b.size) + n = b.ptr + n
  BY <1>2, <1>3, <1>5, <1>6
<1>8. Resized(Active, b.size, n) = [a EXCEPT !.cur = b.ptr + n]
  BY <1>4, <1>7 DEF Resized
<1>9. QED
  BY <1>1, <1>3, <1>5, <1>7, <1>8 DEF a

(* rki_arenastack_deallocate: only the top block of the active arena moves    *)
(* the cursor.                                                                *)
LEMMA DeallocateStep ==
  ASSUME SInv, NEW b \in live, Deallocate(b)
  PROVE  Effect
<1>1. live' = live \ {b} /\ marks' = MarksFor(stack') /\ failed' = failed
  BY DEF Deallocate
<1>2. Contract!Next
  BY <1>1 DEF Contract!Next, Contract!Discard
<1>3. CASE IsActiveTop(b)
  <2>1. stack' = SetActive(stack, Resized(Active, b.size, 0))
    BY <1>3 DEF Deallocate
  <2>2. ResizeFits(Active, b.size, 0)
    <3>1. stack.arena_size # 0 /\ StackOK(stack)
      BY BlockMeansStack DEF SInv
    <3>2. /\ ArenaOK(Active) /\ Active.beg \in Nat /\ Active.cur \in Nat /\ Active.end \in Nat
      BY <3>1, ActiveIs DEF Active
    <3>3. b.size \in Nat
      BY BlockNat DEF SInv, BlocksOK
    <3>4. QED
      BY <3>2, <3>3 DEF ArenaOK, ResizeFits, Remaining
  <2>3. /\ stack.arena_size # 0 /\ ActiveOf(stack).beg <= b.ptr
        /\ b.ptr + b.size = ActiveOf(stack).cur /\ b.ptr + 0 <= ActiveOf(stack).end
        /\ Resized(Active, b.size, 0) = [ActiveOf(stack) EXCEPT !.cur = b.ptr + 0]
    BY <1>3, <2>2, TopIs
  <2>4. stack' = SetActive(stack, [ActiveOf(stack) EXCEPT !.cur = b.ptr + 0])
    BY <2>1, <2>3
  <2>5. CursorLowered(stack, stack') /\ BlocksOK(stack', live \ {b})
    BY <2>3, <2>4, TopKeeps DEF SInv
  <2>6. /\ Recursored(stack, stack') /\ StackOK(stack') /\ stack'.cur = stack.cur
        /\ \A i \in 1 .. stack.cur : stack'.arenas[i] = stack.arenas[i]
        /\ BlocksOK(stack', live \ {b})
    BY <2>5 DEF CursorLowered
  <2>7. MarksOK(stack', marks')
    BY <1>1, <2>6, MarksForOK DEF SInv
  <2>8. Retains(stack.arenas, stack'.arenas)
    BY <2>6, RecursoredRetains
  <2>9. QED
    BY <1>1, <1>2, <2>6, <2>7, <2>8 DEF Effect, SInv
<1>4. CASE ~ IsActiveTop(b)
  <2>1. stack' = stack
    BY <1>4 DEF Deallocate
  <2>2. BlocksOK(stack', live')
    BY <1>1, <2>1, FewerBlocks DEF SInv
  <2>3. MarksOK(stack', marks')
    BY <1>1, <2>1 DEF SInv, MarksFor, MarksOK
  <2>4. Retains(stack.arenas, stack'.arenas)
    BY <2>1, RetainsAll
  <2>5. QED
    BY <1>1, <1>2, <2>1, <2>2, <2>3, <2>4 DEF Effect, SInv
<1>5. QED
  BY <1>3, <1>4

(* arenastack_try_resize: in place, or nothing happens.                       *)
LEMMA TryResizeStep ==
  ASSUME SInv, NEW b \in live, NEW n \in Sizes, TryResize(b, n)
  PROVE  Effect
<1> DEFINE c == Blk(stack, b.ptr, n, b.align)
<1>1. /\ IsActiveTop(b) /\ ResizeFits(Active, b.size, n)
      /\ stack' = SetActive(stack, Resized(Active, b.size, n))
      /\ live' = (live \ {b}) \cup {c}
      /\ marks' = MarksFor(stack') /\ failed' = failed
  BY DEF TryResize
<1>2. n \in Nat
  BY StackAssumption
<1>3. /\ stack.arena_size # 0 /\ ActiveOf(stack).beg <= b.ptr
      /\ b.ptr + b.size = ActiveOf(stack).cur /\ b.ptr + n <= ActiveOf(stack).end
      /\ Resized(Active, b.size, n) = [ActiveOf(stack) EXCEPT !.cur = b.ptr + n]
  BY <1>1, <1>2, TopIs
<1>4. /\ stack' = SetActive(stack, [ActiveOf(stack) EXCEPT !.cur = b.ptr + n])
      /\ c = Blk(stack, b.ptr, n, b.align)
  BY <1>1, <1>3
<1> HIDE DEF c
<1>5. CursorLowered(stack, stack') /\ Resettled(stack', live \ {b}, b, c)
  BY <1>2, <1>3, <1>4, TopKeeps DEF SInv
<1>6. /\ Recursored(stack, stack') /\ StackOK(stack') /\ stack'.cur = stack.cur
      /\ \A i \in 1 .. stack.cur : stack'.arenas[i] = stack.arenas[i]
      /\ BlocksOK(stack', (live \ {b}) \cup {c})
      /\ Contract!Placeable(c, live \ {b}) /\ c.align = b.align
  BY <1>5 DEF CursorLowered, Resettled
<1>7. MarksOK(stack', marks')
  BY <1>1, <1>6, MarksForOK DEF SInv
<1>8. Retains(stack.arenas, stack'.arenas)
  BY <1>6, RecursoredRetains
<1>9. Contract!Next
  BY <1>1, <1>6 DEF Contract!Next, Contract!Resize
<1>10. QED
  BY <1>1, <1>6, <1>7, <1>8, <1>9 DEF Effect, SInv

(* rki_arenastack_reallocate: in place, or to a block of its own.             *)
LEMMA ReallocateStep ==
  ASSUME SInv, NEW b \in live, NEW n \in Sizes, Reallocate(b, n)
  PROVE  Effect
<1>1. CASE TryResize(b, n)
  BY <1>1, TryResizeStep
<1>2. CASE /\ n <= b.size
           /\ live' = (live \ {b}) \cup {[b EXCEPT !.size = n]}
           /\ UNCHANGED <<stack, marks, failed>>
  <2> DEFINE c == [b EXCEPT !.size = n]
  <2>1. /\ BlocksOK(stack, (live \ {b}) \cup {c})
        /\ Contract!Placeable(c, live \ {b}) /\ c.align = b.align
    BY <1>2, ShrinkKeeps DEF SInv
  <2>2. live' = (live \ {b}) \cup {c} /\ stack' = stack /\ marks' = marks /\ failed' = failed
    BY <1>2
  <2> HIDE DEF c
  <2>3. Contract!Next
    BY <2>1, <2>2 DEF Contract!Next, Contract!Resize
  <2>4. SInv'
    BY <2>1, <2>2 DEF SInv
  <2>5. Retains(stack.arenas, stack'.arenas)
    BY <2>2, RetainsAll
  <2>6. QED
    BY <2>3, <2>4, <2>5 DEF Effect
<1>3. CASE Serve(n, b.align, {b})
  <2>1. b.align \in Aligns /\ {b} \in SUBSET live
    BY DEF SInv, BlocksOK, BlockShape
  <2>2. SInv' /\ Retains(stack.arenas, stack'.arenas)
    BY <1>3, <2>1, ServeStep
  <2>3. PICK c : /\ live' = (live \ {b}) \cup {c}
                 /\ Contract!Placeable(c, live \ {b}) /\ c.align = b.align
    BY <1>3, <2>1, ServeStep
  <2>4. Contract!Next
    BY <2>3 DEF Contract!Next, Contract!Resize
  <2>5. QED
    BY <2>2, <2>4 DEF Effect
<1>4. QED
  BY <1>1, <1>2, <1>3 DEF Reallocate

(* Taking a marker records the place of the active cursor.                    *)
LEMMA MarkStep ==
  ASSUME SInv, Mark
  PROVE  Effect
<1>1. /\ marks' = marks \cup {IF stack.arena_size = 0 THEN [pos |-> NULL, idx |-> 0]
                              ELSE [pos |-> Active.cur, idx |-> stack.cur]}
      /\ stack' = stack /\ live' = live /\ failed' = failed
  BY DEF Mark
<1>2. ASSUME NEW m \in marks', m \notin marks
      PROVE  MarkIn(stack, m)
  <2>1. CASE stack.arena_size = 0
    <3>1. m = [pos |-> NULL, idx |-> 0]
      BY <1>1, <1>2, <2>1
    <3>2. QED
      BY <3>1 DEF MarkIn
  <2>2. CASE stack.arena_size # 0
    <3>1. m = [pos |-> Active.cur, idx |-> stack.cur]
      BY <1>1, <1>2, <2>2
    <3>2. m.pos = Active.cur /\ m.idx = stack.cur
      BY <3>1
    <3>3. /\ stack.cur \in Nat /\ Active = stack.arenas[stack.cur + 1] /\ ArenaOK(Active)
          /\ Active.cur \in Nat /\ Active.beg \in Nat
      BY <2>2, ActiveIs DEF SInv, Active
    <3>4. Active.beg <= Active.cur /\ Active.cur <= Active.cur /\ stack.cur <= stack.cur
      BY <3>3 DEF ArenaOK
    <3>5. QED
      BY <2>2, <3>2, <3>3, <3>4 DEF MarkIn
  <2>3. QED
    BY <2>1, <2>2
<1>3. MarksOK(stack, marks')
  BY <1>2 DEF SInv, MarksOK
<1>4. SInv'
  BY <1>1, <1>3 DEF SInv
<1>5. Retains(stack.arenas, stack'.arenas)
  BY <1>1, RetainsAll
<1>6. QED
  BY <1>1, <1>4, <1>5 DEF Effect

\* arenastack_clear: every arena is emptied and the first one is in use again.
LEMMA ClearStep ==
  ASSUME SInv, Clear
  PROVE  Effect
<1>1. /\ stack' = ClearedStack(stack) /\ live' = {} /\ failed' = failed
      /\ marks' = {m \in marks : m.pos = NULL}
  BY DEF Clear
<1>2. StackOK(stack') /\ Retains(stack.arenas, stack'.arenas)
  <2>1. CASE stack.arena_size = 0
    BY <1>1, <2>1, RetainsAll DEF ClearedStack, SInv
  <2>2. CASE stack.arena_size # 0
    <3> DEFINE v == ClearRange(stack, 0, stack.cur)
    <3>1. stack.cur \in Nat /\ 0 <= stack.cur
      BY DEF SInv, StackOK
    <3>2. Recursored(stack, v)
      BY <2>2, <3>1, ClearRangeIs DEF SInv
    <3>3. stack' = [v EXCEPT !.cur = 0]
      BY <1>1, <2>2 DEF ClearedStack
    <3> HIDE DEF v
    <3>4. Recursored(stack, stack')
      BY <3>1, <3>2, <3>3, SetCurIs
    <3>5. QED
      BY <3>4, RecursoredOK, RecursoredRetains DEF SInv
  <2>3. QED
    BY <2>1, <2>2
<1>3. MarksOK(stack', marks') /\ BlocksOK(stack', live')
  BY <1>1 DEF MarksOK, MarkIn, BlocksOK
<1>4. Contract!Next
  BY <1>1 DEF Contract!Next, Contract!Discard
<1>5. QED
  BY <1>1, <1>2, <1>3, <1>4 DEF Effect, SInv

\* arenastack_release
LEMMA ReleaseStep ==
  ASSUME SInv, Release
  PROVE  SInv' /\ [Contract!Next]_live
<1>1. stack' = ZeroStack /\ live' = {} /\ marks' = {} /\ failed' = failed
  BY DEF Release
<1>2. SInv'
  BY <1>1, ZeroStackOK DEF SInv, BlocksOK, MarksOK
<1>3. QED
  BY <1>1, <1>2 DEF Contract!Next, Contract!Discard

\* The search of arenastack_rewind_to: a valid mark is found, at its own arena or
\* behind it, and inside the buffer of the arena where it is found.
LEMMA HolderFound ==
  ASSUME SInv, NEW m \in marks, m.pos # NULL
  PROVE  /\ stack.arena_size # 0 /\ m.pos \in Nat /\ m.idx \in Nat
         /\ Holders(m.pos) # {}
         /\ Max(Holders(m.pos)) \in Holders(m.pos)
         /\ Max(Holders(m.pos)) \in 0 .. stack.cur /\ m.idx <= Max(Holders(m.pos))
         /\ \A i \in Holders(m.pos) : /\ stack.arenas[i + 1].beg <= m.pos
                                      /\ m.pos <= stack.arenas[i + 1].end
<1> DEFINE H == Holders(m.pos)
<1>1. /\ m.pos \in Nat /\ m.idx \in Nat /\ stack.arena_size # 0 /\ m.idx <= stack.cur
      /\ stack.arenas[m.idx + 1].beg <= m.pos /\ m.pos <= stack.arenas[m.idx + 1].cur
  BY DEF SInv, MarksOK, MarkIn
<1>2. stack.cur \in Nat /\ Len(stack.arenas) \in Nat /\ stack.cur + 1 \in 1 .. Len(stack.arenas)
  BY <1>1, ActiveIs DEF SInv
<1>3. ASSUME NEW i \in 0 .. stack.cur
      PROVE  /\ i + 1 \in 1 .. Len(stack.arenas) /\ ArenaOK(stack.arenas[i + 1])
             /\ stack.arenas[i + 1].beg \in Nat /\ stack.arenas[i + 1].cur \in Nat
             /\ stack.arenas[i + 1].end \in Nat
             /\ stack.arenas[i + 1].beg <= stack.arenas[i + 1].cur
             /\ stack.arenas[i + 1].cur <= stack.arenas[i + 1].end
  <2>1. i + 1 \in 1 .. Len(stack.arenas)
    BY <1>2
  <2>2. ArenaOK(stack.arenas[i + 1])
    BY <2>1 DEF SInv, StackOK, ArenasOK
  <2>3. QED
    BY <2>1, <2>2 DEF ArenaOK, ArenaRec
<1>4. m.idx \in 0 .. stack.cur
  BY <1>1, <1>2
<1>5. m.idx \in H
  <2>1. \/ m.pos = stack.arenas[m.idx + 1].cur
        \/ m.pos < stack.arenas[m.idx + 1].cur
    BY <1>1, <1>3, <1>4
  <2>2. QED
    BY <1>1, <1>4, <2>1 DEF Holders, InRange
<1>6. H \in SUBSET (0 .. stack.cur) /\ H # {}
  BY <1>5 DEF Holders
<1>7. ASSUME NEW i \in H
      PROVE  stack.arenas[i + 1].beg <= m.pos /\ m.pos <= stack.arenas[i + 1].end
  <2>1. i \in 0 .. stack.cur
    BY <1>6
  <2>2. \/ m.pos = stack.arenas[i + 1].cur
        \/ stack.arenas[i + 1].beg <= m.pos /\ m.pos < stack.arenas[i + 1].cur
    BY DEF Holders, InRange
  <2>3. QED
    BY <1>1, <1>3, <2>1, <2>2
<1> HIDE DEF H
<1>8. Max(H) \in H /\ \A x \in H : x <= Max(H)
  BY <1>2, <1>6, MaxIs
<1>9. QED
  BY <1>1, <1>5, <1>6, <1>7, <1>8 DEF H

\* The buffer a block remembers is that of the arena that holds it.
LEMMA IndexIs ==
  ASSUME StackOK(stack), NEW b, NEW i \in 1 .. Len(stack.arenas), Holds(stack, i, b)
  PROVE  IndexOfBuf(stack, b.buf) = i - 1
<1> DEFINE as == stack.arenas
           k == IndexOfBuf(stack, b.buf)
<1>1. Len(as) \in Nat /\ ArenasOK(as)
  BY LenProperties DEF StackOK, ArenasOK
<1>2. i - 1 \in 0 .. (Len(as) - 1) /\ (i - 1) + 1 = i /\ as[i].beg = b.buf
  BY <1>1 DEF Holds
<1>3. \E j \in 0 .. (Len(as) - 1) : as[j + 1].beg = b.buf
  BY <1>2
<1>4. k \in 0 .. (Len(as) - 1) /\ as[k + 1].beg = b.buf
  BY <1>3 DEF IndexOfBuf
<1> HIDE DEF k, as
<1>5. k + 1 \in 1 .. Len(as) /\ i \in 1 .. Len(as)
  BY <1>1, <1>4 DEF as
<1>6. as[k + 1].beg = as[i].beg
  BY <1>2, <1>4
<1>7. k + 1 = i
  BY <1>1, <1>5, <1>6, BufferNamed
<1>8. QED
  BY <1>4, <1>7 DEF k

\* arenastack_rewind_to: blocks that end before the mark are below the cursors of
\* the arenas that stay in use.
LEMMA RewindToStep ==
  ASSUME SInv, NEW m \in marks, RewindTo(m)
  PROVE  Effect
<1>1. CASE m.pos = NULL
  BY <1>1, ClearStep DEF RewindTo
<1>2. CASE m.pos # NULL
  <2> DEFINE i == Max(Holders(m.pos))
             p == m.pos
  <2>1. /\ stack.arena_size # 0 /\ p \in Nat /\ m.idx \in Nat
        /\ i \in 0 .. stack.cur /\ m.idx <= i
        /\ Holders(p) # {}
        /\ stack.arenas[i + 1].beg <= p /\ p <= stack.arenas[i + 1].end
    BY <1>2, HolderFound
  <2>2. /\ stack' = Rewound(i, p) /\ live' = KeptBy(m)
        /\ marks' \subseteq MarksFor(stack') /\ failed' = failed
    BY <1>2, <2>1 DEF RewindTo
  <2>3. /\ stack.cur \in Nat /\ Len(stack.arenas) \in Nat
        /\ stack.cur + 1 \in 1 .. Len(stack.arenas)
    BY <2>1, ActiveIs DEF SInv
  <2> HIDE DEF i, p
  <2>4. RewoundTo(i, p, stack')
    BY <2>1, <2>2, RewoundIs DEF SInv
  <2>5. /\ Recursored(stack, stack')
        /\ \A j \in 1 .. i : stack'.arenas[j] = stack.arenas[j]
        /\ stack'.arenas[i + 1].cur = p
        /\ stack'.cur = IF i > 0 /\ p = stack.arenas[i + 1].beg THEN i - 1 ELSE i
    BY <2>4 DEF RewoundTo
  <2>6. StackOK(stack') /\ Retains(stack.arenas, stack'.arenas) /\ Len(stack'.arenas) = Len(stack.arenas)
    BY <2>5, RecursoredOK, RecursoredRetains DEF SInv, Recursored
  <2>7. \A j \in 1 .. stack'.cur : stack'.arenas[j] = stack.arenas[j]
    <3>1. \A j \in 1 .. stack'.cur : j \in 1 .. i
      BY <2>1, <2>3, <2>5
    <3>2. QED
      BY <2>5, <3>1
  <2>8. MarksOK(stack', marks')
    BY <2>2, <2>5, <2>7, MarksForOK DEF SInv, MarksOK
  <2>9. live' \subseteq live
    BY <2>2 DEF KeptBy
  <2>10. ASSUME NEW b \in live'
         PROVE  BlockIn(stack', b)
    <3>1. /\ BlockShape(b) /\ BlockIn(stack, b) /\ b.ptr \in Nat /\ b.size \in Nat
          /\ b.ptr + b.size \in Nat
      BY <2>9, BlockNat DEF SInv, BlocksOK
    <3>2. PICK j \in 1 .. Len(stack.arenas) : Holds(stack, j, b)
      BY <3>1 DEF BlockIn
    <3>3. IndexOfBuf(stack, b.buf) = j - 1
      BY <3>2, IndexIs DEF SInv
    <3>4. j - 1 < m.idx \/ (j - 1 = m.idx /\ b.ptr + b.size <= p)
      BY <2>2, <3>3 DEF KeptBy, p
    <3>5. /\ j \in Nat /\ j <= i + 1 /\ i \in Nat /\ j \in 1 .. Len(stack'.arenas)
          /\ j = i + 1 => b.ptr + b.size <= p
      BY <2>1, <2>3, <2>6, <3>4
    <3>6. /\ stack'.arenas[j].beg = stack.arenas[j].beg
          /\ stack'.arenas[j].end = stack.arenas[j].end
      BY <2>5 DEF Recursored
    <3>7. ASSUME b.size > 0
          PROVE  j <= stack'.cur + 1 /\ b.ptr + b.size <= stack'.arenas[j].cur
      <4>1. CASE j = i + 1
        <5>1. b.ptr + b.size <= p /\ stack'.arenas[j].cur = p
          BY <2>5, <3>5, <4>1
        <5>2. stack.arenas[i + 1].beg <= b.ptr
          BY <3>2, <4>1 DEF Holds
        <5>3. stack.arenas[i + 1].beg \in Nat
          BY <3>5, <4>1 DEF SInv, StackOK, ArenasOK, ArenaOK, ArenaRec
        <5>4. p # stack.arenas[i + 1].beg
          BY <2>1, <3>1, <3>7, <5>1, <5>2, <5>3
        <5>5. stack'.cur = i
          BY <2>5, <5>4
        <5>6. j <= stack'.cur + 1
          BY <3>5, <4>1, <5>5
        <5>7. QED
          BY <5>1, <5>6
      <4>2. CASE j # i + 1
        <5>1. j \in 1 .. i
          BY <3>5, <4>2
        <5>2. stack'.arenas[j] = stack.arenas[j]
          BY <2>5, <5>1
        <5>3. b.ptr + b.size <= stack.arenas[j].cur
          BY <3>2, <3>7 DEF Holds
        <5>4. j <= stack'.cur + 1
          BY <2>5, <3>5, <5>1
        <5>5. QED
          BY <5>2, <5>3, <5>4
      <4>3. QED
        BY <4>1, <4>2
    <3>8. Holds(stack', j, b)
      BY <3>2, <3>6, <3>7 DEF Holds
    <3>9. QED
      BY <3>5, <3>8 DEF BlockIn
  <2>11. BlocksOK(stack', live')
    BY <2>9, <2>10 DEF SInv, BlocksOK
  <2>12. Contract!Next
    BY <2>9 DEF Contract!Next, Contract!Discard
  <2>13. QED
    BY <2>2, <2>6, <2>8, <2>11, <2>12 DEF Effect, SInv
<1>3. QED
  BY <1>1, <1>2

-----------------------------------------------------------------------------
\* Every step keeps the invariant and is a step of the allocator contract, and
\* only arenastack_release gives buffers up.
LEMMA StepSInv ==
  ASSUME SInv, [Next]_vars
  PROVE  SInv' /\ [Contract!Next]_live /\ (Release \/ Retains(stack.arenas, stack'.arenas))
<1>1. CASE Next
  <2>1. CASE Release
    BY <2>1, ReleaseStep
  <2>2. CASE \/ \E cap \in InitSizes : InitStack(cap)
             \/ \E n \in Sizes, al \in Aligns : Allocate(n, al)
             \/ \E b \in live : Deallocate(b)
             \/ \E b \in live, n \in Sizes : TryResize(b, n)
             \/ \E b \in live, n \in Sizes : Reallocate(b, n)
             \/ Mark
             \/ \E m \in marks : RewindTo(m)
             \/ Clear
    <3>1. Effect
      BY <2>2, InitStackStep, AllocateStep, DeallocateStep, TryResizeStep, ReallocateStep,
         MarkStep, RewindToStep, ClearStep
    <3>2. QED
      BY <3>1 DEF Effect
  <2>3. QED
    BY <1>1, <2>1, <2>2 DEF Next
<1>2. CASE UNCHANGED vars
  <2>1. stack' = stack /\ live' = live /\ marks' = marks /\ failed' = failed
    BY <1>2 DEF vars
  <2>2. SInv'
    BY <2>1 DEF SInv
  <2>3. Retains(stack.arenas, stack'.arenas)
    BY <2>1, RetainsAll
  <2>4. QED
    BY <2>1, <2>2, <2>3
<1>3. QED
  BY <1>1, <1>2

\* The inductive invariant holds in every reachable state.
THEOREM ArenaStackInvariant == Spec => []SInv
<1>1. SInv /\ [Next]_vars => SInv'
  BY StepSInv
<1>2. QED
  BY InitSInv, <1>1, PTL DEF Spec

\* For every backing allocator, sizes and alignments, a stack serves its valid
\* callers without reaching an abort, and no block is forgotten: each lies in a
\* retained buffer, below the cursor of an arena in use if it has any bytes.
THEOREM ArenaStackLiveConsumed == Spec => []LiveConsumed
<1>1. SInv => LiveConsumed
  <2> SUFFICES ASSUME SInv
               PROVE  LiveConsumed
    OBVIOUS
  <2>1. DOMAIN stack.arenas = 1 .. Len(stack.arenas)
    BY LenProperties DEF SInv, StackOK, ArenasOK
  <2>2. TypeOK
    <3>1. \A i \in DOMAIN stack.arenas : /\ stack.arenas[i] \in ArenaRec
                                         /\ stack.arenas[i].beg <= stack.arenas[i].cur
                                         /\ stack.arenas[i].cur <= stack.arenas[i].end
      BY <2>1 DEF SInv, StackOK, ArenasOK, ArenaOK
    <3>2. \A b \in live : b.ptr \in Nat /\ b.size \in Sizes /\ b.align \in Aligns
      BY DEF SInv, BlocksOK, BlockShape
    <3>3. QED
      BY <3>1, <3>2 DEF SInv, StackOK, TypeOK
  <2>3. ASSUME NEW b \in live
        PROVE  \E i \in DOMAIN stack.arenas : Holds(stack, i, b)
    BY <2>1 DEF SInv, BlocksOK, BlockIn
  <2>4. QED
    BY <2>2, <2>3 DEF LiveConsumed, NeverFails, SInv, Holds
<1>2. QED
  BY <1>1, ArenaStackInvariant, PTL

\* An arena stack implements the Allocator interface: no block it hands out
\* shares a byte with a live one, and no operation changes another block.
THEOREM ArenaStackImplementsBlocks == Spec => ImplementsBlocks
<1>1. Init => Contract!Init
  BY DEF Init, Contract!Init
<1>2. SInv /\ [Next]_vars => [Contract!Next]_live
  BY StepSInv
<1>3. QED
  BY <1>1, <1>2, ArenaStackInvariant, PTL DEF Spec, ImplementsBlocks, Contract!Spec

-----------------------------------------------------------------------------
\* As many buffers as descriptors: no two arenas have the same one.
BuffersOf(s) == {[beg |-> s.arenas[i].beg, end |-> s.arenas[i].end] : i \in DOMAIN s.arenas}

(* The buffers of a well-formed stack are pairwise different, so there are as *)
(* many of them as arenas.                                                    *)
LEMMA BuffersCounted ==
  ASSUME NEW s, StackOK(s)
  PROVE  Cardinality(BuffersOf(s)) = Len(s.arenas)
<1> DEFINE n == Len(s.arenas)
           as == s.arenas
           B == BuffersOf(s)
           f == [i \in 1 .. n |-> [beg |-> as[i].beg, end |-> as[i].end]]
<1>1. ArenasOK(as) /\ DOMAIN as = 1 .. n /\ n \in Nat
  BY LenProperties DEF StackOK, ArenasOK
<1>2. B = {f[i] : i \in 1 .. n}
  BY <1>1 DEF BuffersOf
<1>3. \A i, j \in 1 .. n : f[i] = f[j] => i = j
  <2>1. ASSUME NEW i \in 1 .. n, NEW j \in 1 .. n, f[i] = f[j]
        PROVE  i = j
    <3>1. as[i].beg = as[j].beg
      BY <2>1
    <3> HIDE DEF as
    <3>2. i \in 1 .. Len(as) /\ j \in 1 .. Len(as)
      BY DEF as
    <3>3. QED
      BY <1>1, <3>1, <3>2, BufferNamed
  <2>2. QED
    BY <2>1
<1>4. DOMAIN f = 1 .. n /\ f = [i \in 1 .. n |-> f[i]]
  OBVIOUS
<1> HIDE DEF f, B, n
<1>5. f \in [1 .. n -> B]
  BY <1>2, <1>4
<1>6. f \in Surjection(1 .. n, B)
  BY <1>2, <1>5 DEF Surjection
<1>7. f \in Injection(1 .. n, B)
  BY <1>3, <1>5 DEF Injection, IsInjective
<1>8. IsFiniteSet(1 .. n) /\ Cardinality(1 .. n) = n
  BY <1>1, FS_Interval
<1>9. Cardinality(B) = Cardinality(1 .. n)
  BY <1>6, <1>7, <1>8, FS_Surjection
<1>10. QED
  BY <1>8, <1>9 DEF B, n

\* Only arenastack_release gives buffers up: for every stack and every request,
\* swapping and inserting descriptors loses none of them and duplicates none.
THEOREM ArenaStackBuffersKept == Spec => BuffersKept
<1>1. SInv /\ [Next]_vars => [Release \/ (Buffers \subseteq Buffers'
                               /\ Cardinality(Buffers') = Len(stack'.arenas))]_vars
  <2> SUFFICES ASSUME SInv, [Next]_vars, ~ Release
               PROVE  Buffers \subseteq Buffers' /\ Cardinality(Buffers') = Len(stack'.arenas)
    OBVIOUS
  <2>1. SInv' /\ Retains(stack.arenas, stack'.arenas)
    BY StepSInv
  <2>2. StackOK(stack) /\ StackOK(stack')
    BY <2>1 DEF SInv
  <2>3. DOMAIN stack.arenas = 1 .. Len(stack.arenas) /\ DOMAIN stack'.arenas = 1 .. Len(stack'.arenas)
    BY <2>2, LenProperties DEF StackOK, ArenasOK
  <2>4. Buffers = BuffersOf(stack) /\ Buffers' = BuffersOf(stack')
    BY DEF Buffers, BuffersOf
  <2>5. Cardinality(BuffersOf(stack')) = Len(stack'.arenas)
    BY <2>2, BuffersCounted
  <2>6. BuffersOf(stack) \subseteq BuffersOf(stack')
    BY <2>1, <2>3 DEF Retains, BuffersOf
  <2>7. QED
    BY <2>4, <2>5, <2>6
<1>2. QED
  BY <1>1, ArenaStackInvariant, PTL DEF Spec, BuffersKept

\* Where no later buffer touches that of the mark, the search of a rewind stops
\* at the arena of the mark, and the saved position is restored.
THEOREM ArenaStackRewindReclaims == Spec => RewindReclaimsApart
<1>1. ASSUME SInv, NEW m \in marks, RewindTo(m), m.pos # NULL, ~ Touched(m)
      PROVE  Reclaims(m)
  <2> DEFINE i == Max(Holders(m.pos))
             p == m.pos
             k == m.idx
  <2>1. /\ stack.arena_size # 0 /\ p \in Nat /\ k \in Nat
        /\ Holders(p) # {} /\ i \in Holders(p) /\ i \in 0 .. stack.cur /\ k <= i
        /\ stack.arenas[i + 1].beg <= p /\ p <= stack.arenas[i + 1].end
    BY <1>1, HolderFound
  <2>2. stack' = Rewound(i, p)
    BY <1>1, <2>1 DEF RewindTo
  <2>3. /\ stack.cur \in Nat /\ Len(stack.arenas) \in Nat
        /\ stack.cur + 1 \in 1 .. Len(stack.arenas)
    BY <1>1, <2>1, ActiveIs DEF SInv
  <2>4. /\ k <= stack.cur
        /\ stack.arenas[k + 1].beg <= p /\ p <= stack.arenas[k + 1].cur
    BY <1>1 DEF SInv, MarksOK, MarkIn
  <2> HIDE DEF i, p, k
  <2> DEFINE a == stack.arenas[k + 1]
             b == stack.arenas[i + 1]
  <2>5. k + 1 \in 1 .. Len(stack.arenas) /\ i + 1 \in 1 .. Len(stack.arenas) /\ i \in Nat
    BY <2>1, <2>3, <2>4
  <2>6. ArenaOK(a) /\ ArenaOK(b)
    BY <1>1, <2>5 DEF SInv, StackOK, ArenasOK
  <2>7. i = k
    <3>1. SUFFICES ASSUME i # k
                   PROVE  FALSE
      OBVIOUS
    <3>2. Apart(a, b)
      <4>1. i + 1 # k + 1
        BY <2>1, <2>5, <3>1
      <4>2. QED
        BY <1>1, <2>5, <4>1 DEF SInv, StackOK, ArenasOK
    <3>3. /\ a.beg \in Nat /\ a.cur \in Nat /\ a.end \in Nat /\ a.cur <= a.end
          /\ b.beg \in Nat /\ b.end \in Nat
      BY <2>6 DEF ArenaOK, ArenaRec
    <3>4. a.beg <= p /\ p <= a.cur /\ b.beg <= p /\ p <= b.end
      BY <2>1, <2>4
    <3> HIDE DEF a, b
    <3>5. b.end = a.beg \/ a.end = b.beg
      <4>1. a.end <= b.beg => a.end = b.beg
        BY <2>1, <3>3, <3>4
      <4>2. b.end <= a.beg => b.end = a.beg
        BY <2>1, <3>3, <3>4
      <4>3. QED
        BY <3>2, <4>1, <4>2 DEF Apart
    <3>6. i \in (k + 1) .. stack.cur
      BY <2>1, <2>3, <3>1
    <3>7. QED
      BY <1>1, <3>5, <3>6 DEF Touched, a, b, k
  <2>8. RewoundTo(i, p, stack')
    BY <1>1, <2>1, <2>2, RewoundIs DEF SInv
  <2>9. /\ stack'.arenas[k + 1].cur = p
        /\ stack'.cur = IF k > 0 /\ p = a.beg THEN k - 1 ELSE k
    BY <2>7, <2>8 DEF RewoundTo
  <2>10. QED
    BY <2>9 DEF Reclaims, ActiveOf, k, p
<1>2. SInv /\ [Next]_vars =>
        [\A m \in marks : RewindTo(m) /\ m.pos # NULL /\ ~ Touched(m) => Reclaims(m)]_vars
  BY <1>1
<1>3. QED
  BY <1>2, ArenaStackInvariant, PTL DEF Spec, RewindReclaimsApart
=============================================================================
