------------------------------- MODULE MCDict -------------------------------
(***************************************************************************)
(* Tables of two, four and eight slots.  Keys k1 and k2 share their        *)
(* fingerprint, and the last slot as their home in the smaller tables, so  *)
(* that probes wrap around to the home of k3; in the largest table k1 has  *)
(* a home of its own.                                                      *)
(***************************************************************************)
EXTENDS Dict, TLC

CONSTANTS k1, k2, k3, v1, v2

MCKeys     == {k1, k2, k3}
MCVals     == {v1, v2}
MCHash     == (k1 :> 3) @@ (k2 :> 7) @@ (k3 :> 0)
MCFp       == (k1 :> 5) @@ (k2 :> 5) @@ (k3 :> 6)
MCReserves == {1, 2, 4}
MCAssigns  == {<<>>, <<<<k1, v1>>, <<k1, v2>>>>, <<<<k3, v1>>, <<k2, v2>>>>}
=============================================================================
