------------------------------ MODULE TreeOps ------------------------------
(***************************************************************************)
(* What the three trees of rk_trees.h share: nodes with two links, search, *)
(* and the sequence of nodes a traversal pushes; then what each adds: the  *)
(* tree that does not balance itself, the AVL tree and the red-black tree. *)
(*                                                                         *)
(* A tree is NULL or a node, a record whose l and r are trees.  A call may *)
(* move an entry to another node; so a node also carries, as "at", the key *)
(* it held when the call began, which names its address within the call.   *)
(***************************************************************************)
EXTENDS Integers, Sequences, FiniteSets

CONSTANTS NULL,    \* the null pointer
          Absent   \* not a value

RECURSIVE Nodes(_)
Nodes(n) == IF n = NULL THEN {} ELSE {n} \cup Nodes(n.l) \cup Nodes(n.r)

KeysOf(n) == {m.key : m \in Nodes(n)}

\* The height in nodes, as the doc of tree_foreach counts it.
RECURSIVE Height(_)
Height(n) ==
  IF n = NULL THEN 0
  ELSE 1 + IF Height(n.l) > Height(n.r) THEN Height(n.l) ELSE Height(n.r)

\* The keys in the order of the links, from left to right.
RECURSIVE InOrder(_)
InOrder(n) == IF n = NULL THEN <<>> ELSE InOrder(n.l) \o <<n.key>> \o InOrder(n.r)

\* rki_tree_min_off
RECURSIVE LeftMost(_)
LeftMost(n) == IF n.l = NULL THEN n ELSE LeftMost(n.l)

\* The descent of get and search_ptr: the node that holds k, or NULL.
RECURSIVE Search(_, _)
Search(n, k) ==
  IF n = NULL \/ n.key = k THEN n ELSE Search(IF k < n.key THEN n.l ELSE n.r, k)

\* The child a descent for k takes, and n with that child replaced.
Child(n, k)       == IF k < n.key THEN n.l ELSE n.r
SetChild(n, k, t) == IF k < n.key THEN [n EXCEPT !.l = t] ELSE [n EXCEPT !.r = t]

\* The nodes iter_next pushes from n: down the left links, or the right ones.
RECURSIVE Spine(_, _)
Spine(n, back) ==
  IF n = NULL THEN <<>> ELSE <<n.key>> \o Spine(IF back THEN n.r ELSE n.l, back)

\* Seeded faults of Unlinked: the node is hung on the left, so that the two take
\* turns, or what hung on the right of its child is lost.
UnlinkedToLeft(n) == [n.l EXCEPT !.l = [n EXCEPT !.l = n.l.l]]
UnlinkedLossy(n)  == [n.l EXCEPT !.r = [n EXCEPT !.l = NULL]]

\* One round of the loop of rki_tree_release_nodes at a node with a left child:
\* it hangs the node, with the rest of it, on the right of that child.
Unlinked(n) == [n.l EXCEPT !.r = [n EXCEPT !.l = n.l.r]]

\* The end of a call: every node now counts as the one that holds its key.
RECURSIVE Settled(_)
Settled(n) ==
  IF n = NULL THEN NULL
  ELSE [n EXCEPT !.at = n.key, !.l = Settled(n.l), !.r = Settled(n.r)]

\* What an erasure reports of a key it does not find, at the subtree n.
NotFound(n) == [t |-> n, gone |-> FALSE, val |-> Absent, freed |-> {}]

-----------------------------------------------------------------------------
(* RKI_BST_DEFINE: the unbalanced search tree. *)

BstNode(k, v) == [at |-> k, key |-> k, val |-> v, l |-> NULL, r |-> NULL]

\* set_add, and get_or_add with overwrite = FALSE.
RECURSIVE BstPut(_, _, _, _)
BstPut(n, k, v, overwrite) ==
  IF n = NULL THEN [t |-> BstNode(k, v), added |-> TRUE]
  ELSE IF k = n.key
  THEN [t |-> IF overwrite THEN [n EXCEPT !.val = v] ELSE n, added |-> FALSE]
  ELSE LET p == BstPut(Child(n, k), k, v, overwrite)
       IN  [p EXCEPT !.t = SetChild(n, k, p.t)]

\* Seeded fault of WithoutMin: the right subtree of that node is dropped.
RECURSIVE WithoutMinDropping(_)
WithoutMinDropping(n) == IF n.l = NULL THEN NULL ELSE [n EXCEPT !.l = WithoutMinDropping(n.l)]

\* What is left of n without its leftmost node.
RECURSIVE WithoutMin(_)
WithoutMin(n) == IF n.l = NULL THEN n.r ELSE [n EXCEPT !.l = WithoutMin(n.l)]

\* The node to erase: with two children it takes over the entry of its
\* successor, whose node is the one freed.
BstUnlink(n) ==
  LET succ == LeftMost(n.r)
  IN  IF n.l # NULL /\ n.r # NULL
      THEN [t     |-> [n EXCEPT !.key = succ.key, !.val = succ.val, !.r = WithoutMin(n.r)],
            gone  |-> TRUE,
            val   |-> n.val,
            freed |-> {succ.at}]
      ELSE [t     |-> IF n.l # NULL THEN n.l ELSE n.r,
            gone  |-> TRUE,
            val   |-> n.val,
            freed |-> {n.at}]

\* extract
RECURSIVE BstErase(_, _)
BstErase(n, k) ==
  IF n = NULL THEN NotFound(n)
  ELSE IF k = n.key THEN BstUnlink(n)
  ELSE LET e == BstErase(Child(n, k), k) IN [e EXCEPT !.t = SetChild(n, k, e.t)]

-----------------------------------------------------------------------------
\* RKI_AVL_DEFINE: the height-balanced search tree.

AvlNode(k, v) == [at |-> k, key |-> k, val |-> v, height |-> 1, l |-> NULL, r |-> NULL]

\* h, and fixh.
H(n)    == IF n = NULL THEN 0 ELSE n.height
FixH(n) == [n EXCEPT !.height = 1 + IF H(n.l) > H(n.r) THEN H(n.l) ELSE H(n.r)]

RotL(x) == FixH([x.r EXCEPT !.l = FixH([x EXCEPT !.r = x.r.l])])
RotR(y) == FixH([y.l EXCEPT !.r = FixH([y EXCEPT !.l = y.l.r])])

\* balance; a child that leans inwards is rotated outwards first.
Balance(n) ==
  LET m    == FixH(n)
      bf   == H(m.l) - H(m.r)
      inL  == H(m.l.l) < H(m.l.r)
      inR  == H(m.r.r) < H(m.r.l)
  IN  IF bf > 1       THEN RotR(IF inL THEN [m EXCEPT !.l = RotL(m.l)] ELSE m)
      ELSE IF bf < -1 THEN RotL(IF inR THEN [m EXCEPT !.r = RotR(m.r)] ELSE m)
      ELSE m

\* put
RECURSIVE AvlPut(_, _, _, _)
AvlPut(n, k, v, overwrite) ==
  IF n = NULL THEN [t |-> AvlNode(k, v), added |-> TRUE]
  ELSE IF k = n.key
  THEN [t |-> IF overwrite THEN [n EXCEPT !.val = v] ELSE n, added |-> FALSE]
  ELSE LET p == AvlPut(Child(n, k), k, v, overwrite)
       IN  [p EXCEPT !.t = Balance(SetChild(n, k, p.t))]

\* detach_min: the leftmost node of n, and the rest rebalanced.
RECURSIVE DetachMin(_)
DetachMin(n) ==
  IF n.l = NULL THEN [t |-> n.r, min |-> n]
  ELSE LET d == DetachMin(n.l) IN [d EXCEPT !.t = Balance([n EXCEPT !.l = d.t])]

\* Seeded fault of AvlUnlink: the entry of the successor is copied, as in a Bst.
AvlUnlinkByCopy(n) ==
  LET d == DetachMin(n.r)
  IN  [t     |-> IF n.r = NULL THEN n.l
                 ELSE Balance([n EXCEPT !.key = d.min.key, !.val = d.min.val, !.r = d.t]),
       gone  |-> TRUE,
       val   |-> n.val,
       freed |-> {IF n.r = NULL THEN n.at ELSE d.min.at}]

\* The node to erase is replaced by its successor's node, relinked, and freed.
AvlUnlink(n) ==
  LET d == DetachMin(n.r)
  IN  [t     |-> IF n.r = NULL THEN n.l ELSE Balance([d.min EXCEPT !.l = n.l, !.r = d.t]),
       gone  |-> TRUE,
       val   |-> n.val,
       freed |-> {n.at}]

\* erase
RECURSIVE AvlErase(_, _)
AvlErase(n, k) ==
  IF n = NULL THEN NotFound(n)
  ELSE IF k = n.key THEN AvlUnlink(n)
  ELSE LET e == AvlErase(Child(n, k), k)
           m == SetChild(n, k, e.t)
       IN  [e EXCEPT !.t = IF e.gone THEN Balance(m) ELSE m]

\* The stored heights are the heights, and siblings differ by one at most.
AvlBalanced(n) ==
  \A m \in Nodes(n) : m.height = Height(m) /\ H(m.l) - H(m.r) \in -1 .. 1

-----------------------------------------------------------------------------
\* RKI_RBT_DEFINE: the left-leaning red-black tree.

RbtNode(k, v) == [at |-> k, key |-> k, val |-> v, red |-> TRUE, l |-> NULL, r |-> NULL]

Red(n) == IF n = NULL THEN FALSE ELSE n.red

Black(n) == IF n = NULL THEN NULL ELSE [n EXCEPT !.red = FALSE]

\* rl, rr and flip.
Rl(h)   == [h.r EXCEPT !.l = [h EXCEPT !.r = h.r.l, !.red = TRUE], !.red = h.red]
Rr(h)   == [h.l EXCEPT !.r = [h EXCEPT !.l = h.l.r, !.red = TRUE], !.red = h.red]
Flip(h) == [h EXCEPT !.red = ~ @, !.l.red = ~ @, !.r.red = ~ @]

\* Seeded fault of SplitFour: two red children are left alone.
KeepFour(h) == h

\* fix: three corrections, each on what the one before it left.
LeanLeft(h)  == IF Red(h.r) THEN Rl(h) ELSE h
Untwist(h)   == IF Red(h.l) /\ Red(h.l.l) THEN Rr(h) ELSE h
SplitFour(h) == IF Red(h.l) /\ Red(h.r) THEN Flip(h) ELSE h
Fix(h) == SplitFour(Untwist(LeanLeft(h)))

\* ml and mr: make the left or the right child, or a child of it, red.
MoveRedLeft(h) ==
  LET f == Flip(h)
  IN  IF Red(f.r.l) THEN Flip(Rl([f EXCEPT !.r = Rr(f.r)])) ELSE f

MoveRedRight(h) ==
  LET f == Flip(h)
  IN  IF Red(f.l.l) THEN Flip(Rr(f)) ELSE f

\* The condition under which dm and del borrow for the child c: c is a 2-node.
TwoNode(c) == ~ Red(c) /\ ~ Red(IF c = NULL THEN NULL ELSE c.l)

\* put
RECURSIVE PutNode(_, _, _, _)
PutNode(h, k, v, overwrite) ==
  IF h = NULL THEN [t |-> RbtNode(k, v), added |-> TRUE]
  ELSE IF k = h.key
  THEN [t |-> Fix(IF overwrite THEN [h EXCEPT !.val = v] ELSE h), added |-> FALSE]
  ELSE LET p == PutNode(Child(h, k), k, v, overwrite)
       IN  [p EXCEPT !.t = Fix(SetChild(h, k, p.t))]

\* insert: the root ends up black.
RbtPut(root, k, v, overwrite) ==
  LET p == PutNode(root, k, v, overwrite) IN [p EXCEPT !.t = Black(p.t)]

\* dm: frees the leftmost node, whose left link is null.
RECURSIVE DeleteMin(_)
DeleteMin(n) ==
  IF n.l = NULL THEN [t |-> NULL, freed |-> {n.at}]
  ELSE LET h == IF TwoNode(n.l) THEN MoveRedLeft(n) ELSE n
           d == DeleteMin(h.l)
       IN  [d EXCEPT !.t = Fix([h EXCEPT !.l = d.t])]

\* The node h, which has a right child, takes over the entry of its successor.
TakeSuccessor(h) ==
  LET m == LeftMost(h.r)
      d == DeleteMin(h.r)
  IN  [t     |-> Fix([h EXCEPT !.key = m.key, !.val = m.val, !.r = d.t]),
       gone  |-> TRUE,
       val   |-> h.val,
       freed |-> d.freed]

\* del, for a key the tree holds.
RECURSIVE Del(_, _)
DelLeft(n, k) ==
  LET h == IF TwoNode(n.l) THEN MoveRedLeft(n) ELSE n
      e == Del(h.l, k)
  IN  IF n.l = NULL THEN [NotFound(n) EXCEPT !.t = Fix(n)]
      ELSE [e EXCEPT !.t = Fix([h EXCEPT !.l = e.t])]

DelRight(n, k) ==
  LET g == IF Red(n.l) THEN Rr(n) ELSE n
      h == IF TwoNode(g.r) THEN MoveRedRight(g) ELSE g
      e == Del(h.r, k)
  IN  IF g.r = NULL
      THEN IF k = g.key THEN [t |-> NULL, gone |-> TRUE, val |-> g.val, freed |-> {g.at}]
                        ELSE [NotFound(g) EXCEPT !.t = Fix(g)]
      ELSE IF k = h.key THEN TakeSuccessor(h)
      ELSE [e EXCEPT !.t = Fix([h EXCEPT !.r = e.t])]

Del(n, k) == IF k < n.key THEN DelLeft(n, k) ELSE DelRight(n, k)

\* extract: a key that is not there leaves the tree alone.
RbtErase(root, k) ==
  LET top == IF ~ Red(root.l) /\ ~ Red(root.r) THEN [root EXCEPT !.red = TRUE] ELSE root
      e   == Del(top, k)
  IN  IF Search(root, k) = NULL THEN NotFound(root) ELSE [e EXCEPT !.t = Black(e.t)]

\* The number of black nodes on the way down the left links.
RECURSIVE BlackHeight(_)
BlackHeight(n) == IF n = NULL THEN 0 ELSE BlackHeight(n.l) + IF n.red THEN 0 ELSE 1

\* The root is black, red links lean left, no two of them follow each other,
\* and every way down has the same number of black nodes.
RbtBalanced(n) ==
  /\ ~ Red(n)
  /\ \A m \in Nodes(n) :
       /\ ~ Red(m.r)
       /\ ~ (m.red /\ Red(m.l))
       /\ BlackHeight(m.l) = BlackHeight(m.r)
=============================================================================
