------------------------------ MODULE PrioQueue ------------------------------
(***************************************************************************)
(* What Heap(T) promises its client: a multiset that gives up one of its   *)
(* least elements.  Which of several equal elements is not specified.      *)
(***************************************************************************)
EXTENDS Naturals, Sequences, FiniteSets

CONSTANTS Elements,   \* what the queue may hold
          Prio(_),    \* the place of an element in the order of the comparator
          Arrays,     \* the arrays the client passes
          None        \* no element

VARIABLES bag,   \* how often the queue holds each element
          out    \* the element the last call returned, or None

vars == <<bag, out>>

Occurrences(s) == [e \in Elements |-> Cardinality({i \in DOMAIN s : s[i] = e})]

Plus(b, c)   == [e \in Elements |-> b[e] + c[e]]
Without(b, x) == [b EXCEPT ![x] = @ - 1]

Nobody == Occurrences(<<>>)

Least(x) == bag[x] > 0 /\ \A e \in Elements : bag[e] > 0 => Prio(x) <= Prio(e)

Init == bag = Nobody /\ out = None

Push(x) == bag' = Plus(bag, Occurrences(<<x>>)) /\ out' = None

Extend(arr) == bag' = Plus(bag, Occurrences(arr)) /\ out' = None

Become(arr) == bag' = Occurrences(arr) /\ out' = None

Pop == \E x \in Elements : Least(x) /\ bag' = Without(bag, x) /\ out' = x

ReplaceTop(y) ==
  \E x \in Elements : /\ Least(x) /\ out' = x
                      /\ bag' = Plus(Without(bag, x), Occurrences(<<y>>))

Peek == \E x \in Elements : Least(x) /\ out' = x /\ UNCHANGED bag

Keep(keep) == /\ bag' = [e \in Elements |-> IF e \in keep THEN bag[e] ELSE 0]
              /\ out' = None

\* A call that changes nothing, or that finds the queue empty.
Idle == out' = None /\ UNCHANGED bag

Next ==
  \/ Pop \/ Peek \/ Idle
  \/ \E x \in Elements : Push(x) \/ ReplaceTop(x)
  \/ \E arr \in Arrays : Extend(arr) \/ Become(arr)
  \/ \E keep \in SUBSET Elements : Keep(keep)

Spec == Init /\ [][Next]_vars
=============================================================================
