------------------------------- MODULE MCHeap -------------------------------
(***************************************************************************)
(* Heaps of up to six elements of three sizes, with repetitions: the top   *)
(* has two levels below it on both sides, and a parent may have one child. *)
(***************************************************************************)
EXTENDS Heap

CONSTANT Low, Mid, High

MCElements == {Low, Mid, High}
MCPrio(e)  == CASE e = Low -> 1 [] e = Mid -> 2 [] e = High -> 3
MCArrays   == {<<>>, <<Mid, Low>>, <<High, Mid, Low>>, <<High, Mid, High, Mid, Low, Low>>}
=============================================================================
