------------------------------- MODULE StrOps -------------------------------
(***************************************************************************)
(* The buffer of a Str of rk_string.h: mem is the block of cap bytes, the  *)
(* first len of which are the text; a byte that was never written, or of   *)
(* which the code does not say what was, is Junk.                          *)
(* An unallocated Str has no bytes.  Every operator gives the Str that the *)
(* call leaves.  Outside the block nothing can be read, and a write is lost.*)
(***************************************************************************)
EXTENDS StrvOps

NUL  == 0
Junk == -1

ZeroStr == [mem |-> <<>>, len |-> 0, cap |-> 0]

Allocated(s) == s.cap # 0

Bytes(s, from, n) == [j \in 1 .. n |-> s.mem[from + j - 1]]

Content(s) == Bytes(s, 0, s.len)

Terminated(s) == IF Allocated(s) THEN s.len < s.cap /\ s.mem[s.len] = NUL ELSE s.len = 0

\* stdc_bit_ceil, which is 1 for 0.
BitCeil(n) == CHOOSE p \in {2^e : e \in 0 .. n} : n <= p /\ (p = 1 \/ p \div 2 < n)

NewStr(cap) == [mem |-> [i \in 0 .. cap - 1 |-> Junk], len |-> 0, cap |-> cap]

\* rki_str_change_cap: alloc_renew keeps what fits.
ChangeCap(s, c) ==
  [s EXCEPT !.mem = [i \in 0 .. c - 1 |-> IF i < s.cap THEN s.mem[i] ELSE Junk], !.cap = c]

EnsureCap(s, c) == IF c > s.cap THEN ChangeCap(s, BitCeil(c)) ELSE s

\* memcpy and memmove of bytes that have been read, to the places from i on.
Copy(s, i, bytes) ==
  [s EXCEPT !.mem = [j \in DOMAIN s.mem |->
                       IF j \in i .. i + Len(bytes) - 1 THEN bytes[j - i + 1] ELSE s.mem[j]]]

Move(s, to, from, n) == Copy(s, to, Bytes(s, from, n))

\* s->str[s->len = n] = '\0'
EndAt(s, n) == [s EXCEPT !.mem[n] = NUL, !.len = n]

-----------------------------------------------------------------------------
\* rki_str_init and str_from_strv
InitStr(c) == EndAt(NewStr(BitCeil(c)), 0)

FromStrv(sv) == EndAt(Copy(NewStr(BitCeil(Len(sv) + 1)), 0, sv), Len(sv))

\* rki_str_join_strv_n, which adds up the length before it copies.
Join(svs, sep) ==
  LET len == FoldLeft(LAMBDA n, sv : n + Len(sv), 0, svs)
             + (IF svs = <<>> THEN 0 ELSE Len(sep) * (Len(svs) - 1))
      put(at, i) ==
        LET s == Copy(at.s, at.pos, svs[i])
            p == at.pos + Len(svs[i])
        IN  IF i < Len(svs) THEN [s |-> Copy(s, p, sep), pos |-> p + Len(sep)]
            ELSE [s |-> s, pos |-> p]
      filled == FoldLeft(put, [s |-> NewStr(BitCeil(len + 1)), pos |-> 0],
                         [i \in 1 .. Len(svs) |-> i])
  IN  EndAt(filled.s, len)

Clear(s) == IF Allocated(s) THEN EndAt(s, 0) ELSE s

PopN(s, n) == IF n = 0 THEN s ELSE EndAt(s, s.len - n)

Reserve(s, c) == IF c > s.cap THEN ChangeCap(s, c) ELSE s

Resize(s, n) == EndAt(EnsureCap(s, n + 1), n)

ShrinkToFit(s) ==
  LET c == BitCeil(s.len + 1) IN IF s.cap > c THEN ChangeCap(s, c) ELSE s

ShrinkToFitExact(s) == IF s.cap > s.len + 1 THEN ChangeCap(s, s.len + 1) ELSE s

NullTerminate(s) == LET g == EnsureCap(s, s.len + 1) IN EndAt(g, g.len)

PushRaw(s, c) ==
  LET g == EnsureCap(s, s.len + 1) IN [Copy(g, g.len, <<c>>) EXCEPT !.len = @ + 1]

\* str_push: room for the character and the terminator is made at once.
Push(s, c) ==
  LET g == [Copy(EnsureCap(s, s.len + 2), s.len, <<c>>) EXCEPT !.len = @ + 1]
  IN  EndAt(g, g.len)

-----------------------------------------------------------------------------
\* What a call is passed: a literal, or a view of the Str's own text.
Literal(t)      == [own |-> FALSE, off |-> 0, len |-> Len(t), text |-> t]
OwnView(off, n) == [own |-> TRUE, off |-> off, len |-> n, text |-> <<>>]

\* The bytes the argument points to, its own ones read in the block of s.
ArgBytes(s, arg) == IF arg.own THEN Bytes(s, arg.off, arg.len) ELSE arg.text

\* str_assign_strv, whose memmove lets the text be a part of itself.
Assign(s, arg) ==
  LET g == EnsureCap(s, arg.len + 1) IN EndAt(Copy(g, 0, ArgBytes(g, arg)), arg.len)

\* str_cat_strv
Cat(s, sv) ==
  IF sv = <<>> THEN s
  ELSE LET g == EnsureCap(s, s.len + Len(sv) + 1) IN EndAt(Copy(g, s.len, sv), s.len + Len(sv))

\* str_cat_strv_mayalias: a view of the text moves with the block.
CatMayalias(s, arg) ==
  IF arg.len = 0 THEN s
  ELSE LET new == s.len + arg.len
           g   == EnsureCap(s, new + 1)
       IN  EndAt(Copy(g, s.len, ArgBytes(g, arg)), new)

\* Opens a gap of n bytes at i; the terminator moves along with the tail.
Gap(s, i, n) ==
  [Move(EnsureCap(s, s.len + n + 1), i + n, i, s.len + 1 - i) EXCEPT !.len = @ + n]

InsertStrv(s, i, sv) ==
  IF sv = <<>> THEN s
  ELSE IF i = s.len THEN Cat(s, sv)
  ELSE Copy(Gap(s, i, Len(sv)), i, sv)

\* Seeded fault of InsertMayalias: the view is read when the gap is open.
InsertUncopied(s, i, arg) ==
  IF arg.len = 0 THEN s
  ELSE IF i = s.len THEN CatMayalias(s, arg)
  ELSE LET g == Gap(s, i, arg.len) IN Copy(g, i, ArgBytes(g, arg))

\* str_insert_at_strv_mayalias: a view of the text is copied first.
InsertMayalias(s, i, arg) ==
  IF arg.len = 0 THEN s
  ELSE IF i = s.len THEN CatMayalias(s, arg)
  ELSE Copy(Gap(s, i, arg.len), i, ArgBytes(s, arg))

InsertChar(s, i, c) == IF i = s.len THEN Push(s, c) ELSE Copy(Gap(s, i, 1), i, <<c>>)

\* str_terminate_char and str_terminate_strv
TerminateChar(s, c)   == IF EndsWith(Content(s), <<c>>) THEN s ELSE Push(s, c)
TerminateStrv(s, suf) == IF EndsWith(Content(s), suf) THEN s ELSE Cat(s, suf)

\* str_cat_fmt: the text is formatted into what room there is, and again when it
\* did not fit; the second time everything the first has cut off is written.
CatFmt(s, t) ==
  LET g == IF s.cap - s.len < Len(t) + 1 THEN EnsureCap(s, s.len + Len(t) + 1) ELSE s
  IN  EndAt(Copy(g, s.len, t), s.len + Len(t))

\* What str_cat_fmt leaves if formatting fails, in the room there was or, the second
\* time, in the room made for t: the text, and behind it what was there or, from
\* the place of the terminator on, whatever vsnprintf has written.
CatFmtFailed(s, t) ==
  LET tried == {s, EnsureCap(s, s.len + Len(t) + 1)}
  IN  tried \cup {Copy(g, g.len, [j \in 1 .. g.cap - g.len |-> Junk]) : g \in tried}

-----------------------------------------------------------------------------
\* Seeded fault of EraseAtN: the terminator stays where it is.
EraseAtNText(s, i, n) ==
  IF n = 0 THEN s ELSE [Move(s, i, i + n, s.len - i - n) EXCEPT !.len = @ - n]

\* str_erase_at_n, and str_erase_at for n = 1.
EraseAtN(s, i, n) ==
  IF n = 0 THEN s ELSE [Move(s, i, i + n, s.len - i - n + 1) EXCEPT !.len = @ - n]

\* str_erase_if
EraseIf(s, pred) ==
  IF ~Allocated(s) THEN s
  ELSE LET kept == SelectSeq(Content(s), LAMBDA c : c \notin pred)
       IN  EndAt(Copy(s, 0, kept), Len(kept))

\* The calls that change every character of the text by f.
Mapped(s, f(_)) == Copy(s, 0, [j \in 1 .. s.len |-> f(s.mem[j - 1])])

WriteAt(s, i, c) == [s EXCEPT !.mem[i] = c]

\* str_reverse: swaps of the two ends up to the middle.
Reversed(s) ==
  [s EXCEPT !.mem = [i \in DOMAIN s.mem |->
                       IF i < s.len THEN s.mem[s.len - 1 - i] ELSE s.mem[i]]]
=============================================================================
