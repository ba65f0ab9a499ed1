------------------------------ MODULE TableMap ------------------------------
(***************************************************************************)
(* What Dict(K, V) promises its client: a map from keys to values, calls   *)
(* that change it each in its own way, and what they answer.  `call` is    *)
(* the call that is running, with its answer, until it has returned.  A    *)
(* Set(K) is the same with a single value.                                 *)
(***************************************************************************)
EXTENDS Naturals, Sequences

CONSTANTS Keys,       \* the keys a client uses
          Vals,       \* the values it stores
          Capacities, \* arguments of init and reserve
          Arrays,     \* the sequences of pairs given to assign
          Absent,     \* not a value
          Nothing     \* no call

VARIABLES map,        \* the value of every key, or Absent
          call

Nowhere == [k \in Keys |-> Absent]

\* m, after the pairs of s were stored one after the other: the last pair with
\* a key gives its value.
Stored(m, s) ==
  [k \in Keys |->
     LET I == {i \in DOMAIN s : s[i][1] = k}
     IN  IF I = {} THEN m[k] ELSE s[CHOOSE i \in I : \A j \in I : j <= i][2]]

Call(c, m) == call = Nothing /\ call' = c /\ map' = m

Init == map = Nowhere /\ call = Nothing

\* Answers whether the key is new.
Set(k, v) == Call([op |-> "set", key |-> k, val |-> v, inserted |-> map[k] = Absent],
                  [map EXCEPT ![k] = v])

\* A key that has a value keeps it; answers whether it is new, and its value.
Add(k, v) ==
  LET kept == IF map[k] = Absent THEN v ELSE map[k] IN
  Call([op |-> "add", key |-> k, val |-> v, inserted |-> map[k] = Absent, value |-> kept],
       [map EXCEPT ![k] = kept])

\* Answers whether the key was there, and what its value was.
Remove(k) ==
  Call([op |-> "remove", key |-> k, removed |-> map[k] # Absent, value |-> map[k]],
       [map EXCEPT ![k] = Absent])

EraseIf(K) == Call([op |-> "erase_if", keys |-> K],
                   [k \in Keys |-> IF k \in K THEN Absent ELSE map[k]])

Clear == Call([op |-> "clear"], Nowhere) \/ Call([op |-> "release"], Nowhere)

\* The calls that only see to the room.
Resize == \/ \E n \in Capacities : \/ Call([op |-> "init", n |-> n], map)
                                   \/ Call([op |-> "reserve", n |-> n], map)
          \/ Call([op |-> "shrink"], map)

Assign(s) == Call([op |-> "assign", pairs |-> s], Stored(Nowhere, s))

Return == call # Nothing /\ call' = Nothing /\ UNCHANGED map

Next == \/ \E k \in Keys : Remove(k) \/ \E v \in Vals : Set(k, v) \/ Add(k, v)
        \/ \E K \in SUBSET Keys : EraseIf(K)
        \/ Clear
        \/ Resize
        \/ \E s \in Arrays : Assign(s)
        \/ Return

Spec == Init /\ [][Next]_<<map, call>>
=============================================================================
