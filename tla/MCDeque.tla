------------------------------ MODULE MCDeque -------------------------------
(***************************************************************************)
(* Buffers of one, two and four slots and three values: every head, every *)
(* count, wrapped and not, can grow, shrink and be erased from.            *)
(***************************************************************************)
EXTENDS Deque

CONSTANTS a, b, c

MCVals     == {a, b, c}
MCArrays   == {<<>>, <<a>>, <<a, b>>, <<b, a, c>>}
MCRequests == {0, 1, 3, 4}
=============================================================================
