-------------------------------- MODULE Tree --------------------------------
(***************************************************************************)
(* The trees of rk_trees.h behind their common interface, and the client   *)
(* that calls it.  `kind` is the tree the program instantiated.                                  *)
(*                                                                         *)
(* Calls run alone.  Three loops are taken step by step: tree_foreach,     *)
(* whose body is the client's and may call back as long as it does not     *)
(* restructure the tree; erase_if, which first collects the keys with such *)
(* a traversal and then erases them one at a time; and release, which      *)
(* dismantles the tree without a stack.                                    *)
(***************************************************************************)
EXTENDS TreeOps, SequencesExt

CONSTANTS Kinds,      \* the trees, among "bst", "avl" and "rbt"
          Keys,       \* the keys, integers compared as such
          KeysFor,    \* bound: the keys that a tree of each kind is given
          LoopKeys,   \* bound: the loops run over trees with these keys only
          ValuesFor,  \* the values a client stores under each key
          Preds,      \* the sets of keys a predicate of erase_if selects
          Nothing     \* no answer to take

ASSUME KindsAssumption == Kinds \subseteq {"bst", "avl", "rbt"}
ASSUME KeysAssumption == Keys \subseteq Int /\ IsFiniteSet(Keys)
ASSUME BoundsAssumption == KeysFor \in [Kinds -> SUBSET Keys] /\ LoopKeys \subseteq Keys
ASSUME ValuesAssumption == \A k \in Keys : Absent \notin ValuesFor[k]

VARIABLES kind,   \* the tree it is, for good
          tree,   \* base.root, with the nodes it reaches
          count,  \* base.count
          live,   \* the nodes allocated and not yet freed
          ref,    \* the key whose entry the client holds a pointer to, or NULL
          pc,     \* "idle", or the loop that is running; "abort" after rk_assert
          it,     \* RKI_TreeIter
          seen,   \* the keys the traversal has yielded
          buf,    \* the keys collected, or still to erase
          pred,   \* what the predicate of erase_if selects
          ret     \* what the last call returned, until the client takes it

vars == <<kind, tree, count, live, ref, pc, it, seen, buf, pred, ret>>

Put(n, k, v, overwrite) ==
  CASE kind = "bst" -> BstPut(n, k, v, overwrite)
    [] kind = "avl" -> AvlPut(n, k, v, overwrite)
    [] kind = "rbt" -> RbtPut(n, k, v, overwrite)

Erase(n, k) ==
  CASE kind = "bst" -> BstErase(n, k)
    [] kind = "avl" -> AvlErase(n, k)
    [] kind = "rbt" -> RbtErase(n, k)

KeyAt(n) == IF n = NULL THEN NULL ELSE n.key

NoIter == [stack |-> <<>>, curr |-> NULL, cap |-> 0, back |-> FALSE]

Init ==
  /\ kind \in Kinds
  /\ tree = NULL /\ count = 0 /\ live = 0
  /\ ref = NULL /\ pc = "idle" /\ it = NoIter
  /\ seen = <<>> /\ buf = <<>> /\ pred = {} /\ ret = Nothing

Idle == pc = "idle" /\ ret = Nothing

Answer(op, k, flag, v) == ret' = [op |-> op, key |-> k, flag |-> flag, val |-> v]

\* The call leaves t as the tree.  The pointer the client holds stays good if
\* its entry is in the node it was in; the call may give it one of the others.
Becomes(t, given) ==
  /\ tree' = Settled(t)
  /\ LET kept == {m.key : m \in {x \in Nodes(t) : x.at = x.key}}
     IN  ref' \in (IF ref \in kept THEN {ref} ELSE {NULL}) \cup given

Inserted(p, given) ==
  /\ Becomes(p.t, given)
  /\ count' = IF p.added THEN count + 1 ELSE count
  /\ live' = IF p.added THEN live + 1 ELSE live

Erased(e) ==
  /\ Becomes(e.t, {})
  /\ count' = IF e.gone THEN count - 1 ELSE count
  /\ live' = live - Cardinality(e.freed)

\* set; in the body of a traversal only for a key that is there, which does not
\* restructure the tree.
Set(k, v) ==
  /\ Idle \/ (pc = "walk" /\ ret = Nothing /\ Search(tree, k) # NULL)
  /\ LET p == Put(tree, k, v, TRUE) IN Inserted(p, {}) /\ Answer("set", k, p.added, Absent)
  /\ UNCHANGED <<kind, pc, it, seen, buf, pred>>

\* add and get_or_add, which differ only in how they report a key that is there.
Add(k, v) ==
  /\ Idle
  /\ LET p == Put(tree, k, v, FALSE)
     IN  Inserted(p, {k}) /\ Answer("add", k, p.added, Search(p.t, k).val)
  /\ UNCHANGED <<kind, pc, it, seen, buf, pred>>

Get(k) ==
  /\ Idle
  /\ LET n == Search(tree, k)
     IN  /\ Answer("get", k, n # NULL, IF n = NULL THEN Absent ELSE n.val)
         /\ ref' \in {ref} \cup (IF n = NULL THEN {} ELSE {k})
  /\ UNCHANGED <<kind, tree, count, live, pc, it, seen, buf, pred>>

\* extract, and remove, which drops the value.
Extract(k) ==
  /\ Idle
  /\ LET e == Erase(tree, k) IN Erased(e) /\ Answer("extract", k, e.gone, e.val)
  /\ UNCHANGED <<kind, pc, it, seen, buf, pred>>

Return == ret # Nothing /\ ret' = Nothing
          /\ UNCHANGED <<kind, tree, count, live, ref, pc, it, seen, buf, pred>>

(***************************************************************************)
(* Traversal.  The client gives a stack of as many slots as the tree is    *)
(* high, the least that tree_foreach asks for, or of one less.             *)
(***************************************************************************)
Traversal(cap, back) == [stack |-> <<>>, curr |-> KeyAt(tree), cap |-> cap, back |-> back]

StackCaps == {Height(tree), Height(tree) - 1} \cap Nat

\* iter_next: what it pushes, and what is left of the iterator after the pop.
Pushed == it.stack \o Spine(IF it.curr = NULL THEN NULL ELSE Search(tree, it.curr), it.back)

\* Seeded fault of Popped: the walk goes on to the right in both directions.
PoppedForward(stack) ==
  [it EXCEPT !.stack = Front(stack), !.curr = KeyAt(Search(tree, Last(stack)).r)]

Popped(stack) ==
  LET n == Search(tree, Last(stack))
  IN  [it EXCEPT !.stack = Front(stack), !.curr = KeyAt(IF it.back THEN n.l ELSE n.r)]

\* rk_assert(it->top < it->cap) fails.
Overflow ==
  /\ pc \in {"walk", "collect"} /\ Len(Pushed) > it.cap
  /\ pc' = "abort"
  /\ UNCHANGED <<kind, tree, count, live, ref, it, seen, buf, pred, ret>>

Yield ==
  /\ Pushed # <<>> /\ Len(Pushed) <= it.cap
  /\ it' = Popped(Pushed)
  /\ seen' = Append(seen, Last(Pushed))

Small == KeysOf(tree) \subseteq LoopKeys

Walk(back) ==
  /\ Idle /\ Small
  /\ pc' = "walk" /\ seen' = <<>>
  /\ \E cap \in StackCaps : it' = Traversal(cap, back)
  /\ UNCHANGED <<kind, tree, count, live, ref, buf, pred, ret>>

WalkNext ==
  /\ pc = "walk" /\ ret = Nothing
  /\ Yield
  /\ UNCHANGED <<kind, tree, count, live, ref, pc, buf, pred, ret>>

\* The traversal is through, or the body breaks out of it.
WalkEnd ==
  /\ pc = "walk" /\ ret = Nothing
  /\ pc' = "idle" /\ it' = NoIter /\ seen' = <<>>
  /\ UNCHANGED <<kind, tree, count, live, ref, buf, pred, ret>>

\* RKI_TREE_ERASE_IF: an empty tree is left alone.
EraseIf(P) ==
  /\ Idle /\ count # 0 /\ Small
  /\ pc' = "collect" /\ seen' = <<>> /\ pred' = P
  /\ \E cap \in StackCaps : it' = Traversal(cap, FALSE)
  /\ UNCHANGED <<kind, tree, count, live, ref, buf, ret>>

Collect ==
  /\ pc = "collect"
  /\ Yield
  /\ buf' = IF Last(Pushed) \in pred THEN Append(buf, Last(Pushed)) ELSE buf
  /\ UNCHANGED <<kind, tree, count, live, ref, pc, pred, ret>>

CollectEnd ==
  /\ pc = "collect" /\ Pushed = <<>>
  /\ pc' = "remove" /\ it' = NoIter /\ seen' = <<>>
  /\ UNCHANGED <<kind, tree, count, live, ref, buf, pred, ret>>

RemoveNext ==
  /\ pc = "remove" /\ buf # <<>>
  /\ Erased(Erase(tree, Head(buf))) /\ buf' = Tail(buf)
  /\ UNCHANGED <<kind, pc, it, seen, pred, ret>>

RemoveEnd ==
  /\ pc = "remove" /\ buf = <<>>
  /\ pc' = "idle" /\ pred' = {}
  /\ UNCHANGED <<kind, tree, count, live, ref, it, seen, buf, ret>>

(***************************************************************************)
(* rki_tree_release: the root and the count are reset at the end.          *)
(***************************************************************************)
Release ==
  /\ Idle /\ Small
  /\ pc' = "release" /\ ref' = NULL
  /\ UNCHANGED <<kind, tree, count, live, it, seen, buf, pred, ret>>

ReleaseTurn ==
  /\ pc = "release" /\ tree # NULL /\ tree.l # NULL
  /\ tree' = Unlinked(tree)
  /\ UNCHANGED <<kind, count, live, ref, pc, it, seen, buf, pred, ret>>

ReleaseFree ==
  /\ pc = "release" /\ tree # NULL /\ tree.l = NULL
  /\ tree' = tree.r /\ live' = live - 1
  /\ UNCHANGED <<kind, count, ref, pc, it, seen, buf, pred, ret>>

ReleaseEnd ==
  /\ pc = "release" /\ tree = NULL
  /\ pc' = "idle" /\ count' = 0
  /\ UNCHANGED <<kind, tree, live, ref, it, seen, buf, pred, ret>>

\* The loops that go where links lead them.
Loops ==
  \/ Collect \/ CollectEnd \/ (pc = "collect" /\ Overflow)
  \/ ReleaseTurn \/ ReleaseFree \/ ReleaseEnd

\* The calls that do not loop over the tree, and the client that takes what
\* they return.
Calls ==
  \/ \E k \in KeysFor[kind] : Get(k) \/ Extract(k) \/ \E v \in ValuesFor[k] : Set(k, v) \/ Add(k, v)
  \/ Return

Next ==
  \/ Calls
  \/ \E back \in BOOLEAN : Walk(back)
  \/ \E P \in Preds : EraseIf(P)
  \/ WalkNext \/ WalkEnd \/ (pc = "walk" /\ Overflow)
  \/ Release
  \/ RemoveNext \/ RemoveEnd
  \/ Loops

\* A loop of the library that has begun keeps running: it waits for nothing.
Spec == Init /\ [][Next]_vars /\ WF_vars(Loops)

(***************************************************************************)
(* Properties.                                                             *)
(***************************************************************************)
TypeOK ==
  /\ kind \in Kinds
  /\ KeysOf(tree) \subseteq Keys
  /\ \A n \in Nodes(tree) : n.at = n.key /\ n.val \in ValuesFor[n.key]
  /\ count \in 0 .. Cardinality(Keys) /\ live \in 0 .. Cardinality(Keys)
  /\ ref \in Keys \cup {NULL}
  /\ pc \in {"idle", "walk", "collect", "remove", "release", "abort"}
  /\ it.stack \in Seq(Keys) /\ it.curr \in Keys \cup {NULL}
  /\ seen \in Seq(Keys) /\ buf \in Seq(Keys) /\ pred \in Preds \cup {{}}

\* Between two calls, and between two erasures of erase_if, the tree has the
\* shape its rotations are there for: the heights or the colours are right.
Balanced ==
  pc # "release" => CASE kind = "bst" -> TRUE
                      [] kind = "avl" -> AvlBalanced(tree)
                      [] kind = "rbt" -> RbtBalanced(tree)

\* Every allocated node is reachable, and freed once: extract frees the node it
\* unlinks and no other, and release, which reuses the links it destroys, frees
\* every node.  count is the number of nodes until release resets it; and every
\* variable has its type, so no node holds a key or a value it was not given.
NodesExact ==
  /\ TypeOK
  /\ live = Cardinality(Nodes(tree))
  /\ pc # "release" => count = live

Pending ==
  LET rest(k) == LET n == Search(tree, k) IN IF it.back THEN Reverse(InOrder(n.l)) ELSE InOrder(n.r)
      top     == IF it.curr = NULL THEN NULL ELSE Search(tree, it.curr)
      later   == [i \in DOMAIN it.stack |-> <<Reverse(it.stack)[i]>> \o rest(Reverse(it.stack)[i])]
  IN  (IF it.back THEN Reverse(InOrder(top)) ELSE InOrder(top)) \o FlattenSeq(later)

\* A traversal yields every key once, in order: at every step what it has
\* yielded and what its stack and position still stand for make up the keys of
\* the tree in sequence, even when its body sets values of keys that are there,
\* which runs the rebalancing code of Avl and Rbt on the way back up.  The stack
\* overflows only if it has fewer slots than the tree is high.
TraversalExact ==
  /\ pc = "abort" => it.cap < Height(tree)
  /\ pc \in {"walk", "collect"} =>
       seen \o Pending = SetToSortSeq(KeysOf(tree), LAMBDA a, b : IF it.back THEN a > b ELSE a < b)

\* What an erasure excuses for Bst and Rbt: the entry that follows the erased one.
Follows(k, removed) ==
  /\ k > removed
  /\ ~ \E j \in KeysOf(tree) : removed < j /\ j < k

\* A pointer to an entry stays good until the entry is erased.  As tree_min
\* documents, erasing an entry of a Bst or a Rbt may also cost the pointers to
\* another one: to the next entry in order, and to no other.
RefKept ==
  [][ref # NULL /\ ref' = NULL
       => \/ pc' = "release"
          \/ ref \notin KeysOf(tree')
          \/ kind # "avl" /\ \E r \in KeysOf(tree) \ KeysOf(tree') : Follows(ref, r)]_vars

\* The map the client sees: in the loops of erase_if and release, the one it
\* will find when they are done.
Contents ==
  [k \in Keys |->
     IF pc = "release" \/ k \in pred \/ Search(tree, k) = NULL THEN Absent
     ELSE Search(tree, k).val]

Abstract == INSTANCE TreeMap WITH Vals <- UNION {ValuesFor[k] : k \in Keys}, map <- Contents

\* The tree is a map: rotations, recolouring and entries that change nodes do
\* not show in what the calls answer, and erase_if, which erases after it has
\* looked, erases what the predicate selected and nothing else.
ImplementsMap == Abstract!Spec

\* The loops that follow links come to their end: erase_if gets through its
\* traversal, unless its stack is too small, and release through a tree that it
\* turns to the right as it dismantles it.
LoopsEnd == (pc = "collect" ~> pc \in {"remove", "abort"}) /\ (pc = "release" ~> pc = "idle")
=============================================================================
