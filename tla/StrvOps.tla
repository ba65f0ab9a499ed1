------------------------------ MODULE StrvOps ------------------------------
(***************************************************************************)
(* The views of rk_string.h (Strv): searching, comparing, slicing,         *)
(* trimming and tokenising.  A character is a number, the value of its     *)
(* byte; a view is the sequence of its characters, and a place in it is    *)
(* counted from zero as in the code.  A view that a tokeniser consumes is  *)
(* [off, len] over the text it came from.                                  *)
(***************************************************************************)
EXTENDS Integers, Sequences, FiniteSets, SequencesExt

CONSTANTS Spaces,    \* the characters that count as space
          SizeMax    \* SIZE_MAX

ASSUME ViewAssumption == Spaces \subseteq Nat /\ SizeMax \in Nat

NULL == -1

Least(S)    == IF S = {} THEN NULL ELSE Min(S)
Greatest(S) == IF S = {} THEN NULL ELSE Max(S)

\* memcmp: the difference of the first bytes that differ.
Memcmp(s, t, n) ==
  LET D == {i \in 1 .. n : s[i] # t[i]} IN IF D = {} THEN 0 ELSE s[Min(D)] - t[Min(D)]

Sign(x) == IF x < 0 THEN -1 ELSE IF x > 0 THEN 1 ELSE 0

Shorter(s, t) == IF Len(s) < Len(t) THEN Len(s) ELSE Len(t)

Equals(s, t) == Len(s) = Len(t) /\ Memcmp(s, t, Shorter(s, t)) = 0

Compare(s, t) ==
  LET res == Memcmp(s, t, Shorter(s, t)) IN IF res # 0 THEN Sign(res) ELSE Sign(Len(s) - Len(t))

StartsWith(sv, pref) == Len(pref) <= Len(sv) /\ Memcmp(sv, pref, Len(pref)) = 0

EndsWith(sv, suf) ==
  \/ suf = <<>>
  \/ /\ Len(suf) <= Len(sv)
     /\ Memcmp(SubSeq(sv, Len(sv) - Len(suf) + 1, Len(sv)), suf, Len(suf)) = 0

-----------------------------------------------------------------------------
\* The needle lies in hs at place i.
At(hs, ne, i) == SubSeq(hs, i + 1, i + Len(ne)) = ne

FindChar(sv, c)  == Least({i \in 0 .. Len(sv) - 1 : sv[i + 1] = c})
FindrChar(sv, c) == Greatest({i \in 0 .. Len(sv) - 1 : sv[i + 1] = c})

\* Seeded fault of Skip: the first entry written for a character stands.
SkipByFirst(ne, c) ==
  LET J == {j \in 0 .. Len(ne) - 2 : ne[j + 1] = c}
  IN  IF J = {} THEN Len(ne) ELSE Len(ne) - Min(J) - 1

\* The table of str_find_strv: how far the needle moves on when its last place
\* lies over c.  The last entry written for a character stands.
Skip(ne, c) ==
  LET J == {j \in 0 .. Len(ne) - 2 : ne[j + 1] = c}
  IN  IF J = {} THEN Len(ne) ELSE Len(ne) - Max(J) - 1

\* The search of Horspool, for needles of more than three characters.
Horspool(hs, ne) ==
  LET n == Len(ne)
      from[i \in 0 .. Len(hs)] ==
        IF i > Len(hs) - n THEN NULL
        ELSE LET last == hs[i + n]
             IN  IF last = ne[n] /\ Memcmp(SubSeq(hs, i + 1, i + n), ne, n - 1) = 0 THEN i
                 ELSE from[i + Skip(ne, last)]
  IN  from[0]

Find(hs, ne) ==
  IF ne = <<>> THEN 0
  ELSE IF Len(ne) > Len(hs) THEN NULL
  ELSE IF Len(ne) <= 3 THEN Least({i \in 0 .. Len(hs) - Len(ne) : At(hs, ne, i)})
  ELSE Horspool(hs, ne)

\* str_findr_strv, which takes an empty needle to be at the front.
Findr(hs, ne) ==
  IF ne = <<>> THEN 0
  ELSE Greatest({i \in 0 .. Len(hs) - Len(ne) : At(hs, ne, i)})

ContainsChar(sv, c) == sv # <<>> /\ FindChar(sv, c) # NULL

ContainsStrv(s, t) ==
  t = <<>> \/ \E i \in 0 .. Len(s) - 1 : Len(s) - i >= Len(t) /\ At(s, t, i)

-----------------------------------------------------------------------------
Slice(sv, start, end) ==
  IF start > Len(sv) \/ end < start THEN <<>>
  ELSE SubSeq(sv, start + 1, IF end < Len(sv) THEN end ELSE Len(sv))

TrimmedLeft(sv) ==
  LET i == Min({j \in 0 .. Len(sv) : j = Len(sv) \/ sv[j + 1] \notin Spaces})
  IN  SubSeq(sv, i + 1, Len(sv))

TrimmedRight(sv) ==
  SubSeq(sv, 1, Max({n \in 0 .. Len(sv) : n = 0 \/ sv[n] \notin Spaces}))

Trimmed(sv) == TrimmedRight(TrimmedLeft(sv))

-----------------------------------------------------------------------------
View(off, len) == [off |-> off, len |-> len]

Characters(src, v) == SubSeq(src, v.off + 1, v.off + v.len)

\* STR_SPLIT_END, the length that says that the last token has been returned.
SPLIT_END == SizeMax

\* Seeded fault of Less: lengths that do not wrap.
LessTruncated(a, b) == IF a < b THEN 0 ELSE a - b

\* Subtraction of two lengths.
Less(a, b) == (a - b) % (SizeMax + 1)

\* str_split_char: the token, and what is left of the view.
SplitChar(src, v, delim) ==
  IF v.len = 0 THEN [tok |-> View(v.off, 0), rest |-> View(v.off, SPLIT_END)]
  ELSE LET p == FindChar(Characters(src, v), delim)
           n == IF p # NULL THEN p ELSE v.len
       IN  [tok  |-> View(v.off, n),
            rest |-> View(v.off + n + (IF p # NULL THEN 1 ELSE 0), Less(v.len, n + 1))]

\* str_split_strv
SplitStrv(src, v, dels) ==
  IF v.len = 0 THEN [tok |-> View(v.off, 0), rest |-> View(v.off, SPLIT_END)]
  ELSE LET n == Min({i \in 0 .. v.len : i = v.len \/ ContainsChar(dels, src[v.off + i + 1])})
       IN  [tok  |-> View(v.off, n),
            rest |-> IF n # v.len THEN View(v.off + n + 1, v.len - (n + 1))
                     ELSE View(v.off + n, SPLIT_END)]

\* str_split_alloc: the array of all tokens, sized by a first pass.
SplitAlloc(src, dels) ==
  LET cuts  == SetToSortSeq({i \in 0 .. Len(src) - 1 : src[i + 1] \in ToSet(dels)}, <)
      count == Len(cuts) + 1
      start(k) == IF k = 1 THEN 0 ELSE cuts[k - 1] + 1
      end(k)   == IF k = count THEN Len(src) ELSE cuts[k]
  IN  [k \in 1 .. count |-> View(start(k), end(k) - start(k))]
=============================================================================
