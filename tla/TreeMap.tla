------------------------------ MODULE TreeMap ------------------------------
(***************************************************************************)
(* What a search tree promises its client: a map, and calls that change it *)
(* and answer for it.  The answer of a call stays in ret until the client  *)
(* has taken it.                                                           *)
(***************************************************************************)
CONSTANTS Keys,     \* the keys a client uses
          Vals,     \* the values it stores
          Preds,    \* the sets of keys erase_if is asked to erase
          Absent,   \* not a value
          Nothing   \* no answer

VARIABLES map,      \* the value of every key, or Absent
          ret       \* the call that returned, its key, its Boolean result and
                    \* the value it found

Called(op, k) == ret = Nothing /\ ret' # Nothing /\ ret'.op = op /\ ret'.key = k

Answered(flag, v) == ret' = [op |-> ret'.op, key |-> ret'.key, flag |-> flag, val |-> v]

Init == map = [k \in Keys |-> Absent] /\ ret = Nothing

Set(k, v) ==
  /\ Called("set", k) /\ Answered(map[k] = Absent, Absent)
  /\ map' = [map EXCEPT ![k] = v]

Add(k, v) ==
  LET found == IF map[k] = Absent THEN v ELSE map[k]
  IN  /\ Called("add", k) /\ Answered(map[k] = Absent, found)
      /\ map' = [map EXCEPT ![k] = found]

Get(k) == Called("get", k) /\ Answered(map[k] # Absent, map[k]) /\ UNCHANGED map

Extract(k) ==
  /\ Called("extract", k) /\ Answered(map[k] # Absent, map[k])
  /\ map' = [map EXCEPT ![k] = Absent]

\* erase_if, and release: the keys of a set go, all at once.
EraseIf ==
  /\ UNCHANGED ret
  /\ \E P \in Preds \cup {Keys} :
       map' = [k \in Keys |-> IF k \in P THEN Absent ELSE map[k]]

Return == ret # Nothing /\ ret' = Nothing /\ UNCHANGED map

Next ==
  \/ \E k \in Keys : Get(k) \/ Extract(k) \/ \E v \in Vals : Set(k, v) \/ Add(k, v)
  \/ EraseIf
  \/ Return

Spec == Init /\ [][Next]_<<map, ret>>
=============================================================================
