--------------------------- MODULE MyArrayHashMap ---------------------------
(* handTearing/hashMap/MyArrayHashMap.java: a list of pairs, searched from its start. *)
EXTENDS Naturals, Sequences

CONSTANTS Null
VARIABLES pairs, answer

\* The place of the first pair with this key, if there is one.
Found(key) == {i \in DOMAIN pairs : pairs[i].key = key
                                    /\ \A j \in 1 .. i - 1 : pairs[j].key # key}

OldValue(key) == IF Found(key) = {} THEN Null
                 ELSE LET i == CHOOSE i \in Found(key) : TRUE IN pairs[i].value

Init == pairs = <<>> /\ answer = Null

\* Mutant: a new pair without a look for the old one.
Put_Append(key, value) == /\ pairs' = Append(pairs, [key |-> key, value |-> value])
                          /\ answer' = OldValue(key)

Put(key, value) ==
  /\ \/ Found(key) = {} /\ pairs' = Append(pairs, [key |-> key, value |-> value])
     \/ \E i \in Found(key) : pairs' = [pairs EXCEPT ![i].value = value]
  /\ answer' = OldValue(key)

Get(key) == UNCHANGED pairs /\ answer' = OldValue(key)

Remove(key) == /\ \/ Found(key) = {} /\ UNCHANGED pairs
                  \/ \E i \in Found(key) : pairs' = SubSeq(pairs, 1, i - 1) \o SubSeq(pairs, i + 1, Len(pairs))
               /\ answer' = OldValue(key)

\* The map the pairs stand for.
Table == [k \in {pairs[i].key : i \in DOMAIN pairs} |-> OldValue(k)]
=============================================================================
