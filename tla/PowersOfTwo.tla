---------------------------- MODULE PowersOfTwo ----------------------------
(***************************************************************************)
(* The powers of two, as the numbers that no odd number but 1 divides: a   *)
(* form that says at once what halving and doubling do.                    *)
(***************************************************************************)
EXTENDS Naturals

IsPowerOfTwo(p) == p >= 1 /\ \A d \in 2 .. p : p % d = 0 => d % 2 = 0

PowersUpTo(n) == {p \in 1 .. n : IsPowerOfTwo(p)}
=============================================================================
