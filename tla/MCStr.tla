------------------------------- MODULE MCStr -------------------------------
(***************************************************************************)
(* Texts of up to three characters: NUL, a capital and a small letter.     *)
(* Capacities grow through 1, 2 and 4; the reserved and the exact ones lie *)
(* between and beyond.  The literals that are searched and tokenised are   *)
(* longer, over a letter, a space and a comma: the search tables count for *)
(* needles of four and five characters.                                    *)
(***************************************************************************)
EXTENDS Str

Words(S, n) == UNION {[1 .. k -> S] : k \in 0 .. n}

Space == 3
Comma == 4

MCChars    == {NUL, 1, 2}
MCTexts    == Words({1, 2}, 2)
MCLiterals == Words({1, Space, Comma}, 4) \cup Words({1, Space}, 7)
MCDelims   == {<<>>, <<Comma>>, <<Space, Comma>>}
MCNeedles  == Words({1, Space}, 5) \cup Words({1, Space, Comma}, 2)
=============================================================================
