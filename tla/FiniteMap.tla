------------------------------ MODULE FiniteMap ------------------------------
(* What MyHashMapInter promises: a finite map, and the answers of its calls. *)
CONSTANTS Keys, Values, Null

VARIABLES table,     \* a function from the keys present to their values
          answer     \* of the last call

Old(t, key) == IF key \in DOMAIN t THEN t[key] ELSE Null

Init == table = [k \in {} |-> Null] /\ answer = Null

Put(t, key, value) == /\ answer' = Old(t, key)
                      /\ table' = [k \in DOMAIN t \cup {key} |-> IF k = key THEN value ELSE t[k]]

Get(t, key) == answer' = Old(t, key) /\ table' = t

Remove(t, key) == /\ answer' = Old(t, key)
                  /\ table' = [k \in DOMAIN t \ {key} |-> t[k]]

Next == LET t == table IN
        \E key \in Keys : \/ Get(t, key) \/ Remove(t, key)
                          \/ \E value \in Values : Put(t, key, value)

Spec == Init /\ [][Next]_<<table, answer>>
=============================================================================
