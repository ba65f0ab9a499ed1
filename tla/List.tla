-------------------------------- MODULE List --------------------------------
(***************************************************************************)
(* What Vec(T) promises its client: every call changes a sequence by what  *)
(* its name and arguments say.  `call` is the call that has just returned, *)
(* and Nothing once the client has taken its answer.                       *)
(***************************************************************************)
EXTENDS Naturals, Sequences

CONSTANTS Elements,   \* what the sequence may hold
          Nothing     \* no call

VARIABLES items, call

Init == items = <<>> /\ call = Nothing

\* The elements of s that are in `keep`, in order.
Keeping(s, keep) ==
  LET kept[i \in 0 .. Len(s)] ==
        IF i = 0 THEN <<>>
        ELSE IF s[i] \in keep THEN Append(kept[i - 1], s[i]) ELSE kept[i - 1]
  IN  kept[Len(s)]

\* c.i is an index from zero, c.n a number of elements, c.arr an array, c.keep
\* what a predicate spares, and c.val what the call returned.
Effect(c, s) ==
  CASE c.op = "from"             -> c.arr
    [] c.op = "assign"           -> c.arr
    [] c.op = "push_n"           -> s \o c.arr
    [] c.op = "insert_arr_at"    -> SubSeq(s, 1, c.i) \o c.arr \o SubSeq(s, c.i + 1, Len(s))
    [] c.op = "erase_at_n"       -> SubSeq(s, 1, c.i) \o SubSeq(s, c.i + c.n + 1, Len(s))
    [] c.op = "pop_n"            -> SubSeq(s, 1, Len(s) - c.n)
    [] c.op = "erase_if"         -> Keeping(s, c.keep)
    [] c.op = "reverse"          -> [i \in DOMAIN s |-> s[Len(s) + 1 - i]]
    [] c.op \in {"clear", "release"}       -> <<>>
    [] c.op \in {"init", "reserve", "shrink"} -> s

\* vec_insert_at_unordered and vec_erase_at_unordered: the last place is the one
\* that is filled, or emptied, in exchange.
Unordered(c, s) ==
  CASE c.op = "insert_at_unordered" ->
         IF c.i = Len(s) THEN s \o c.arr
         ELSE [s EXCEPT ![c.i + 1] = c.arr[1]] \o <<s[c.i + 1]>>
    [] c.op = "erase_at_unordered" ->
         SubSeq([s EXCEPT ![c.i + 1] = s[Len(s)]], 1, Len(s) - 1)

\* vec_resize: the elements it adds are not specified.
Resized(c, s, t) ==
  /\ Len(t) = c.n
  /\ \A i \in DOMAIN t : t[i] \in Elements /\ (i <= Len(s) => t[i] = s[i])

Next ==
  \/ /\ call = Nothing /\ call' # Nothing
     /\ CASE call'.op = "resize" -> Resized(call', items, items')
          [] call'.op \in {"insert_at_unordered", "erase_at_unordered"} ->
               items' = Unordered(call', items)
          [] OTHER -> items' = Effect(call', items)
     /\ call'.op = "pop_n" /\ call'.n = 1 => call'.val = items[Len(items)]
  \/ call # Nothing /\ call' = Nothing /\ UNCHANGED items

Spec == Init /\ [][Next]_<<items, call>>
=============================================================================
