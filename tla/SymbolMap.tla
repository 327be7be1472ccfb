----------------------------- MODULE SymbolMap -----------------------------
(***************************************************************************)
(* What a symbol table promises (Report.tex:57: "the hash map abstract     *)
(* data type (ADT) used by the symbol table to store the address of the    *)
(* labels"): a map from keys to values.  Setting a key changes that key    *)
(* alone; looking a key up answers its value, or nothing if it has none.   *)
(* Calls about other keys may come in between.                             *)
(***************************************************************************)
CONSTANTS Keys, Values

VARIABLES
    map,        \* the value of every key set so far
    last        \* the last call, of a look-up with the values it found

vars == <<map, last>>

NoCall == [call |-> "none"]
SetCall(k, v) == [call |-> "set", key |-> k, value |-> v]
FindCall(k, found) == [call |-> "find", key |-> k, found |-> found]
OtherCall == [call |-> "other"]

NoKeys == [k \in {} |-> 0]

Init == map = NoKeys /\ last = NoCall

Set(k, v) ==
    /\ map' = [j \in DOMAIN map \cup {k} |-> IF j = k THEN v ELSE map[j]]
    /\ last' = SetCall(k, v)

Find(k) ==
    /\ last' = FindCall(k, IF k \in DOMAIN map THEN {map[k]} ELSE {})
    /\ UNCHANGED map

\* The map is given up.
Free == map' = NoKeys /\ last' = NoCall

\* A call about a key that is none of Keys.
Other == last' = OtherCall /\ UNCHANGED map

Next ==
    \/ \E k \in Keys, v \in Values : Set(k, v)
    \/ \E k \in Keys : Find(k)
    \/ Free \/ Other

Spec == Init /\ [][Next]_vars
=============================================================================
