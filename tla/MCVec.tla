-------------------------------- MODULE MCVec -------------------------------
(***************************************************************************)
(* Up to four slots, so that doubling happens twice and an array can be    *)
(* put in the middle of others; two allocators.                            *)
(***************************************************************************)
EXTENDS Vec

CONSTANTS v1, v2, a1, a2

MCVals   == {v1, v2}
MCAllocs == {a1, a2}
MCArrays == {<<>>, <<v1>>, <<v1, v2>>}
=============================================================================
