---------------------------- MODULE Dictionary -----------------------------
(***************************************************************************)
(* What xtyMap promises its callers: keys with values.  A key that is      *)
(* looked up with [] is there afterwards, with the default value if it was *)
(* not there before; a value that was written stays until its key goes.    *)
(***************************************************************************)
CONSTANTS Keys, Values,
          Value0,  \* the default value
          NoValue  \* of a key that is not there

VARIABLE dict

Init == dict = [k \in Keys |-> NoValue]

LookUp(k) == dict[k] = NoValue /\ dict'[k] = Value0 /\ dict' = [dict EXCEPT ![k] = Value0]

Write(k) == \E v \in Values \ {Value0} : dict'[k] = v /\ dict' = [dict EXCEPT ![k] = v]

Remove(k) == dict[k] # NoValue /\ dict'[k] = NoValue /\ dict' = [dict EXCEPT ![k] = NoValue]

Clear == dict' = [k \in Keys |-> NoValue]

Next == (\E k \in Keys : LookUp(k) \/ Write(k) \/ Remove(k)) \/ Clear

Spec == Init /\ [][Next]_dict
=============================================================================
