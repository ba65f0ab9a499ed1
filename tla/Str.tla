-------------------------------- MODULE Str ---------------------------------
(***************************************************************************)
(* One Str and its client, who may pass a view of the text to the calls    *)
(* that allow it, and who tokenises a view in a loop.  A call and its      *)
(* answer are one step; the client then takes the answer.                  *)
(*                                                                         *)
(* What lies behind the terminator is forgotten after every call: no call  *)
(* promises it, so it is Junk for the next one.                            *)
(***************************************************************************)
EXTENDS StrOps

CONSTANTS Chars,        \* the characters the client writes, NUL among them
          Lower, Upper, \* the letters, and what turns one case into the other
          CaseGap,
          Texts,        \* the literals the client passes
          Literals,     \* the literals the client tokenises
          Delims,       \* the sets of delimiters
          Needles,      \* what is looked for in them
          MaxLen,       \* the longest text
          MaxCap,       \* the largest capacity the client reserves
          Nothing       \* no call, no view

ASSUME StrAssumption ==
  /\ Chars \subseteq Nat /\ NUL \in Chars /\ Texts \subseteq Seq(Chars)
  /\ Literals \subseteq Seq(Nat) /\ Delims \subseteq Seq(Nat)
  /\ MaxLen \in Nat /\ MaxCap \in Nat

VARIABLES str,    \* the client's variable of type Str
          call,   \* what has just returned
          src,    \* the literal that is being tokenised
          dels,   \* its delimiters, and whether they are given as a character
          rest,   \* the view that the loop consumes
          toks    \* the tokens it has returned

loopVars == <<src, dels, rest, toks>>
vars     == <<str, call, src, dels, rest, toks>>

Init ==
  /\ str = ZeroStr /\ call = Nothing
  /\ src = Nothing /\ dels = Nothing /\ rest = Nothing /\ toks = <<>>

Places == 0 .. MaxLen

Forgotten(s) == [s EXCEPT !.mem = [i \in DOMAIN s.mem |-> IF i > s.len THEN Junk ELSE s.mem[i]]]

\* The call leaves s.  The fields a call has no argument for are zero or empty.
Returns(s, op, i, n, t, pred, val) ==
  /\ call = Nothing /\ src = Nothing
  /\ s.len <= MaxLen
  /\ str' = Forgotten(s)
  /\ call' = [op |-> op, i |-> i, n |-> n, t |-> t, pred |-> pred, val |-> val]
  /\ UNCHANGED loopVars

Plain(s, op)    == Returns(s, op, 0, 0, <<>>, {}, Junk)
Given(s, op, t) == Returns(s, op, 0, 0, t, {}, Junk)

\* Erasing and inserting move the byte behind the text along; a text that fills
\* its block to the last byte, as str_push_raw can leave it, has none.
HasEnd == str.len < str.cap

InitCall(c) == str = ZeroStr /\ Plain(InitStr(c), "init")
From(t)     == str = ZeroStr /\ Given(FromStrv(t), "from", t)
Release     == Plain(ZeroStr, "release")
ClearCall   == Plain(Clear(str), "clear")

\* str_pop, str_try_pop and str_pop_n.
Pop(n) ==
  /\ n <= str.len
  /\ Returns(PopN(str, n), "pop_n", 0, n, <<>>, {},
             IF n = 1 THEN str.mem[str.len - 1] ELSE Junk)

ReserveCap(c) == Plain(Reserve(str, c), "reserve")
ResizeTo(n)   == Returns(Resize(str, n), "resize", 0, n, <<>>, {}, Junk)

Shrink == \/ Plain(ShrinkToFit(str), "shrink_to_fit")
          \/ Plain(ShrinkToFitExact(str), "shrink_to_fit_exact")

Terminate == Plain(NullTerminate(str), "null_terminate")

\* str_push, and str_push_unchecked where there is room.
PushChar(c) == Given(Push(str, c), "push", <<c>>)

\* str_push_raw, and str_push_unchecked_raw where there is room.
PushCharRaw(c) == Given(PushRaw(str, c), "push_raw", <<c>>)

CatStrv(t) == Given(Cat(str, t), "cat", t) \/ Given(CatFmt(str, t), "cat_fmt", t)

\* str_cat_fmt when vsnprintf fails: it returns NULL, and the text is as it was.
CatFmtFails(t) == \E s \in CatFmtFailed(str, t) : Plain(s, "cat_fmt_fails")

Insert(i, t) ==
  /\ i <= str.len /\ (i = str.len \/ HasEnd)
  /\ Returns(InsertStrv(str, i, t), "insert_at", i, 0, t, {}, Junk)

InsertOne(i, c) ==
  /\ i <= str.len /\ (i = str.len \/ HasEnd)
  /\ Returns(InsertChar(str, i, c), "insert_at", i, 0, <<c>>, {}, Junk)

TerminateWith(t) ==
  \/ Len(t) = 1 /\ Given(TerminateChar(str, t[1]), "terminate", t)
  \/ Given(TerminateStrv(str, t), "terminate", t)

\* A view of the whole text or of a part of it, while there is a text.
Views == {OwnView(off, n) : off \in 0 .. str.len, n \in 0 .. str.len}
OwnViews == {v \in Views : Allocated(str) /\ v.off + v.len <= str.len}

Arguments == OwnViews \cup {Literal(t) : t \in Texts}

\* str_assign allows a part of the text only if it need not grow for it.
AssignCall(arg) ==
  /\ arg.own => arg.len < str.cap
  /\ Given(Assign(str, arg), "assign", ArgBytes(str, arg))

CatMayaliasCall(arg) == Given(CatMayalias(str, arg), "cat", ArgBytes(str, arg))

InsertMayaliasCall(i, arg) ==
  /\ i <= str.len /\ (i = str.len \/ HasEnd)
  /\ Returns(InsertMayalias(str, i, arg), "insert_at", i, 0, ArgBytes(str, arg), {}, Junk)

Erase(i, n) ==
  /\ i + n <= str.len /\ (n = 0 \/ HasEnd)
  /\ Returns(EraseAtN(str, i, n), "erase_at_n", i, n, <<>>, {}, Junk)

EraseWhere(pred) ==
  /\ Allocated(str) => HasEnd
  /\ Returns(EraseIf(str, pred), "erase_if", 0, 0, <<>>, pred, Junk)

Replace(old, new) ==
  Given(Mapped(str, LAMBDA c : IF c = old THEN new ELSE c), "replace", <<old, new>>)

\* str_replace_at may write a NUL into the text; the length stays.
ReplaceOne(i, c) ==
  /\ i < str.len
  /\ Returns(WriteAt(str, i, c), "replace_at", i, 0, <<c>>, {}, str.mem[i])

ToUpper == Plain(Mapped(str, LAMBDA c : IF c \in Lower THEN c - CaseGap ELSE c), "to_upper")
ToLower == Plain(Mapped(str, LAMBDA c : IF c \in Upper THEN c + CaseGap ELSE c), "to_lower")
ReverseText == Plain(Reversed(str), "reverse")

Return == call # Nothing /\ call' = Nothing /\ UNCHANGED <<str, loopVars>>

-----------------------------------------------------------------------------
\* The client tokenises a literal, beside a Str that is not allocated.
SplitStart(t, d, char) ==
  /\ call = Nothing /\ src = Nothing /\ str = ZeroStr
  /\ char => Len(d) = 1
  /\ src' = t /\ dels' = [set |-> d, char |-> char] /\ rest' = View(0, Len(t)) /\ toks' = <<>>
  /\ UNCHANGED <<str, call>>

\* One turn of the loop of the documentation: while (v.len != STR_SPLIT_END).
SplitNext ==
  /\ src # Nothing /\ rest.len # SPLIT_END
  /\ LET s == IF dels.char THEN SplitChar(src, rest, dels.set[1])
              ELSE SplitStrv(src, rest, dels.set)
     IN  toks' = Append(toks, s.tok) /\ rest' = s.rest
  /\ UNCHANGED <<str, call, src, dels>>

TokenTexts == [k \in DOMAIN toks |-> Characters(src, toks[k])]

SplitOver == src # Nothing /\ rest.len = SPLIT_END

LoopIdle == src' = Nothing /\ dels' = Nothing /\ rest' = Nothing /\ toks' = <<>>

SplitEnd == SplitOver /\ LoopIdle /\ UNCHANGED <<str, call>>

\* The tokens become a Str: str_join_strv_n.
JoinTokens(sep) ==
  /\ SplitOver /\ LoopIdle
  /\ LET s == Join(TokenTexts, sep)
     IN  /\ s.len <= MaxLen
         /\ str' = Forgotten(s)
         /\ call' = [op |-> "from", i |-> 0, n |-> 0, pred |-> {}, val |-> Junk,
                     t |-> FoldLeft(LAMBDA all, t : all \o sep \o t, TokenTexts[1],
                                    Tail(TokenTexts))]

Next ==
  \/ Release \/ ClearCall \/ Shrink \/ Terminate \/ ToUpper \/ ToLower \/ ReverseText \/ Return
  \/ \E c \in 0 .. MaxCap : InitCall(c) \/ ReserveCap(c)
  \/ \E n \in Places : Pop(n) \/ ResizeTo(n)
  \/ \E c \in Chars : PushChar(c) \/ PushCharRaw(c) \/ \E d \in Chars : Replace(c, d)
  \/ \E t \in Texts : From(t) \/ CatStrv(t) \/ CatFmtFails(t) \/ TerminateWith(t)
  \/ \E arg \in Arguments : AssignCall(arg) \/ CatMayaliasCall(arg)
  \/ \E i \in Places :
       \/ \E t \in Texts : Insert(i, t)
       \/ \E arg \in Arguments : InsertMayaliasCall(i, arg)
       \/ \E c \in Chars : InsertOne(i, c) \/ ReplaceOne(i, c)
       \/ \E n \in Places : Erase(i, n)
  \/ \E pred \in SUBSET Chars : EraseWhere(pred)
  \/ \E t \in Literals, d \in Delims, char \in BOOLEAN : SplitStart(t, d, char)
  \/ SplitNext \/ SplitEnd
  \/ \E d \in Delims : JoinTokens(d)

Spec == Init /\ [][Next]_vars

-----------------------------------------------------------------------------
\* The calls that may leave the text unterminated: str_push_raw; str_reserve of an
\* unallocated Str, which writes no byte; and str_cat_fmt when formatting fails,
\* which may have written over the terminator.
Opens == \/ call'.op \in {"push_raw", "cat_fmt_fails"}
         \/ call'.op = "reserve" /\ ~Allocated(str)

\* The calls whose code ends with a terminator written behind the text.  Three more
\* are documented to end so, but write none if the block is small enough
\* (str_shrink_to_fit), the suffix is there (str_terminate) or the argument is empty
\* (str_cat): a text left open by str_push_raw stays open.
Closes ==
  \/ call'.op \in {"init", "from", "assign", "push", "clear", "release", "resize",
                   "null_terminate", "erase_if", "cat_fmt"}
  \/ call'.op = "cat" /\ call'.t # <<>>
  \/ call'.op = "pop_n" /\ call'.n # 0

\* A Str that can be read as a C string can still be read as one after any call
\* but those of Opens: what is moved, inserted, cut off or copied to a smaller
\* block takes the terminator along.  A Str that cannot, can be again after the
\* first call that writes a terminator.
TerminatorKept ==
  [][/\ call = Nothing /\ call' # Nothing
     /\ (Terminated(str) /\ ~Opens) \/ Closes
     => Terminated(str')]_vars

Abstract == INSTANCE Text WITH Elements <- Nat \cup {Junk}, text <- Content(str)

\* Every call does to the text what its name says, also when its argument is a
\* view of the text itself that the call moves, overwrites or gives back.
ImplementsText == Abstract!Spec

\* The loop of str_split returns the tokens of str_split_alloc: they and one
\* delimiter between each two make up the text, none holds a delimiter, and the
\* last is told from an empty one by the length that wraps to STR_SPLIT_END.
Tokens(t, d, ts) ==
  LET end(k) == ts[k].off + ts[k].len
  IN  /\ ts[1].off = 0 /\ end(Len(ts)) = Len(t)
      /\ \A k \in 1 .. Len(ts) - 1 : ts[k + 1].off = end(k) + 1 /\ t[end(k) + 1] \in ToSet(d)
      /\ \A k \in DOMAIN ts : ToSet(Characters(t, ts[k])) \cap ToSet(d) = {}

SplitExact ==
  src # Nothing =>
    /\ Len(toks) <= Len(src) + 1
    /\ SplitOver => toks = SplitAlloc(src, dels.set) /\ Tokens(src, dels.set, toks)

\* s comes before u: at the first place where they differ, or as its prefix.
Before(s, u) ==
  \E i \in DOMAIN u : /\ \A j \in 1 .. i - 1 : j <= Len(s) /\ s[j] = u[j]
                      /\ i > Len(s) \/ s[i] < u[i]

\* The queries on views, for the literal that the client has just begun to
\* tokenise: a search gives the first or the last of all occurrences, so the table
\* of str_find_strv skips none; comparing is the lexicographic order; slices and
\* trimmed views are cut where they should be.  Of the documented answers it leaves
\* out two that the code does not give: how far from zero str_compare is for a
\* prefix (rk_string.h:484 says by the difference in length, line 704 gives -1 or 1),
\* and str_findr of an empty needle, answered with the first place and not the last.
QueriesExact ==
  src # Nothing /\ toks = <<>> =>
    /\ \A ne \in Needles :
         LET P == {i \in 0 .. Len(src) - Len(ne) : \A k \in DOMAIN ne : src[i + k] = ne[k]}
         IN  /\ Find(src, ne) = Least(P)
             /\ ne # <<>> => Findr(src, ne) = Greatest(P)
             /\ ContainsStrv(src, ne) <=> P # {}
             /\ StartsWith(src, ne) <=> 0 \in P
             /\ EndsWith(src, ne) <=> Len(src) - Len(ne) \in P
             /\ Len(ne) = 1 => /\ FindChar(src, ne[1]) = Least(P)
                               /\ FindrChar(src, ne[1]) = Greatest(P)
             /\ Equals(src, ne) <=> src = ne
             /\ Compare(src, ne) < 0 <=> Before(src, ne)
             /\ Compare(src, ne) > 0 <=> Before(ne, src)
             /\ Compare(src, ne) = 0 <=> src = ne
    /\ \A i, j \in 0 .. Len(src) + 1 :
         Slice(src, i, j) = [k \in 1 .. Cardinality({p \in i .. j - 1 : p < Len(src)}) |-> src[i + k]]
    /\ \E i, j \in 0 .. Len(src) :
         /\ i <= j /\ Trimmed(src) = SubSeq(src, i + 1, j)
         /\ \A k \in 1 .. Len(src) : k <= i \/ k > j => src[k] \in Spaces
         /\ i < j => src[i + 1] \notin Spaces /\ src[j] \notin Spaces
=============================================================================
