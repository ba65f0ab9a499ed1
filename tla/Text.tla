-------------------------------- MODULE Text --------------------------------
(***************************************************************************)
(* What a Str promises its client: every call changes a sequence of        *)
(* characters by what its name and arguments say.  `call` is the call that *)
(* has just returned, and Nothing once the client has taken its answer.    *)
(***************************************************************************)
EXTENDS Integers, Sequences

CONSTANTS Elements,     \* what the text may hold
          Lower, Upper, \* the letters, and what turns one case into the other
          CaseGap,
          Nothing       \* no call

VARIABLES text, call

Init == text = <<>> /\ call = Nothing

Each(s, f(_)) == [i \in DOMAIN s |-> f(s[i])]

HasSuffix(s, t) == Len(t) <= Len(s) /\ SubSeq(s, Len(s) - Len(t) + 1, Len(s)) = t

\* c.i is an index from zero, c.n a number of characters, c.t the characters of
\* the argument when the call was made, c.pred what a predicate erases, and
\* c.val what the call returned.
Effect(c, s) ==
  CASE c.op \in {"from", "assign"}    -> c.t
    [] c.op \in {"init", "clear", "release"} -> <<>>
    [] c.op \in {"push", "push_raw", "cat", "cat_fmt"} -> s \o c.t
    [] c.op = "insert_at"     -> SubSeq(s, 1, c.i) \o c.t \o SubSeq(s, c.i + 1, Len(s))
    [] c.op = "terminate"     -> IF HasSuffix(s, c.t) THEN s ELSE s \o c.t
    [] c.op = "pop_n"         -> SubSeq(s, 1, Len(s) - c.n)
    [] c.op = "erase_at_n"    -> SubSeq(s, 1, c.i) \o SubSeq(s, c.i + c.n + 1, Len(s))
    [] c.op = "erase_if"      -> SelectSeq(s, LAMBDA x : x \notin c.pred)
    [] c.op = "replace"       -> Each(s, LAMBDA x : IF x = c.t[1] THEN c.t[2] ELSE x)
    [] c.op = "replace_at"    -> [s EXCEPT ![c.i + 1] = c.t[1]]
    [] c.op = "to_upper"      -> Each(s, LAMBDA x : IF x \in Lower THEN x - CaseGap ELSE x)
    [] c.op = "to_lower"      -> Each(s, LAMBDA x : IF x \in Upper THEN x + CaseGap ELSE x)
    [] c.op = "reverse"       -> [i \in DOMAIN s |-> s[Len(s) + 1 - i]]
    [] c.op \in {"reserve", "shrink_to_fit", "shrink_to_fit_exact", "null_terminate",
                   "cat_fmt_fails"} -> s

\* The characters that calls return: the one popped, and the one replaced.
Answer(c, s) ==
  /\ c.op = "pop_n" /\ c.n = 1 => c.val = s[Len(s)]
  /\ c.op = "replace_at" => c.val = s[c.i + 1]

\* str_resize: the characters it adds are not specified.
Resized(c, s, t) ==
  /\ Len(t) = c.n
  /\ \A i \in DOMAIN t : t[i] \in Elements /\ (i <= Len(s) => t[i] = s[i])

Next ==
  \/ /\ call = Nothing /\ call' # Nothing
     /\ IF call'.op = "resize" THEN Resized(call', text, text')
        ELSE text' = Effect(call', text)
     /\ Answer(call', text)
  \/ call # Nothing /\ call' = Nothing /\ UNCHANGED text

Spec == Init /\ [][Next]_<<text, call>>
=============================================================================
