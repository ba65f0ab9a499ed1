------------------------------- MODULE Queue --------------------------------
(***************************************************************************)
(* What Deque(T) promises its client: a sequence that changes at both      *)
(* ends, and calls that change it each in its own way.  `call` is the call *)
(* that is running, with what it gives the client, until it has returned;  *)
(* `at` is how many elements an erasure has kept so far.                   *)
(***************************************************************************)
EXTENDS Naturals, Sequences

CONSTANTS Vals,     \* element values
          Arrays,   \* the arrays the client passes
          Requests, \* arguments of init and reserve
          Nothing   \* no call

VARIABLES items, at, call

vars == <<items, at, call>>

Init == items = <<>> /\ at = 0 /\ call = Nothing

Call(c, s) == call = Nothing /\ call' = c /\ items' = s /\ UNCHANGED at

PushBack(v) == Call([op |-> "push_back", val |-> v], items \o <<v>>)

PushFront(v) == Call([op |-> "push_front", val |-> v], <<v>> \o items)

PushBackN(s) == Call([op |-> "push_back_n", arr |-> s], items \o s)

PushFrontN(s) == Call([op |-> "push_front_n", arr |-> s], s \o items)

Assign(s) == Call([op |-> "assign", arr |-> s], s)

PopFront == /\ items # <<>>
            /\ Call([op |-> "pop_front", val |-> Head(items)], Tail(items))

PopBack == /\ items # <<>>
           /\ Call([op |-> "pop_back", val |-> items[Len(items)]],
                   SubSeq(items, 1, Len(items) - 1))

Clear == Call([op |-> "clear"], <<>>) \/ Call([op |-> "release"], <<>>)

\* The calls that only see to the room.
Resize == \/ \E n \in Requests : \/ Call([op |-> "init", n |-> n], items)
                                 \/ Call([op |-> "reserve", n |-> n], items)
          \/ Call([op |-> "shrink"], items)

Erasing == call # Nothing /\ call.op = "erase_if"

Return == call # Nothing /\ ~ Erasing /\ call' = Nothing /\ UNCHANGED <<items, at>>

\* The erasure of the elements that a predicate holds of: it shows the predicate
\* the elements in turn, the one after those it has kept is the next, and stops
\* when it has shown every one.
EraseStart == items # <<>> /\ Call([op |-> "erase_if"], items)

Erase(keep) ==
  /\ Erasing /\ at < Len(items)
  /\ call' = [op |-> "erase_if", val |-> items[at + 1], keep |-> keep]
  /\ \/ keep /\ at' = at + 1 /\ UNCHANGED items
     \/ /\ ~ keep /\ UNCHANGED at
        /\ items' = SubSeq(items, 1, at) \o SubSeq(items, at + 2, Len(items))

EraseEnd == /\ Erasing /\ at = Len(items)
            /\ at' = 0 /\ call' = Nothing
            /\ UNCHANGED items

Next == \/ \E v \in Vals : PushBack(v) \/ PushFront(v)
        \/ \E s \in Arrays : PushBackN(s) \/ PushFrontN(s) \/ Assign(s)
        \/ PopFront
        \/ PopBack
        \/ Clear
        \/ Resize
        \/ EraseStart
        \/ \E keep \in BOOLEAN : Erase(keep)
        \/ EraseEnd
        \/ Return

Spec == Init /\ [][Next]_vars
=============================================================================
