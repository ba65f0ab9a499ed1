------------------------------- MODULE Blocks -------------------------------
(***************************************************************************)
(* What every allocator of rklib promises its client, whatever strategy is *)
(* behind the Allocator handle (rk_alloc.h): the blocks the client holds   *)
(* never share a byte, each starts at a multiple of the alignment it was   *)
(* requested with, and no operation changes a block it was not asked to    *)
(* change.  Arena and ArenaStack are shown to implement this module.       *)
(*                                                                         *)
(* A block is a record with (at least) the fields ptr, size and align.  A  *)
(* zero-size block is a mere position and shares no byte with anything.    *)
(***************************************************************************)
EXTENDS Integers

VARIABLE live   \* the blocks the client may use

-----------------------------------------------------------------------------
BlockEnd(b) == b.ptr + b.size

Disjoint(b, c) == \/ b.size = 0 \/ c.size = 0
                  \/ BlockEnd(b) <= c.ptr
                  \/ BlockEnd(c) <= b.ptr

Aligned(b) == b.ptr % b.align = 0

\* b is a legal answer to a request made while the client holds `others`.
Placeable(b, others) == Aligned(b) /\ \A c \in others : Disjoint(b, c)

AllDisjoint == \A b, c \in live : b # c => Disjoint(b, c)

-----------------------------------------------------------------------------
Init == live = {}

\* alloc_f: one block more, clear of all the others.
Grant == \E b \in live' : /\ live' = live \cup {b}
                          /\ Placeable(b, live)

\* realloc_f: one block is replaced, in place or elsewhere.
Resize == \E b \in live : \E c \in live' :
             /\ live' = (live \ {b}) \cup {c}
             /\ c.align = b.align
             /\ Placeable(c, live \ {b})

\* dealloc_f, and the bulk release of an arena.
Discard == live' \subseteq live

Next == Grant \/ Resize \/ Discard

Spec == Init /\ [][Next]_live
=============================================================================
