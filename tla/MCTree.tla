------------------------------- MODULE MCTree -------------------------------
(***************************************************************************)
(* A BST over four keys, and Avl and Rbt trees over seven, which reach a    *)
(* height of four.  The loops run over trees whose keys are among the first *)
(* four.  Key 2 has two values, the others have one.                        *)
(***************************************************************************)
EXTENDS Tree

MCKeys      == 1 .. 7
MCLoopKeys  == 1 .. 4
MCKeysFor   == [k \in Kinds |-> IF k = "bst" THEN MCLoopKeys ELSE MCKeys]
MCValuesFor == [k \in MCKeys |-> IF k = 2 THEN {2, 9} ELSE {k}]
MCPreds     == {{}, {2, 3}, {1, 2, 3}}
=============================================================================
