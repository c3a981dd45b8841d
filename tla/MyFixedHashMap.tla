--------------------------- MODULE MyFixedHashMap ---------------------------
(***************************************************************************)
(* handTearing/hashMap/MyFixedHashMap.java: an array of chains that never  *)
(* grows.  A chain is the sequence of its pairs; new ones go to its end.   *)
(***************************************************************************)
EXTENDS Integers, Sequences

CONSTANTS Null, Exception, Hash,  \* Hash[key]: hashCode(), any integer
          Length                     \* of the array
VARIABLES chains, size, answer

\* Java's %: the remainder has the sign of the hash code.
Index(key) == IF Hash[key] >= 0 THEN Hash[key] % Length ELSE -((-Hash[key]) % Length)

Chain(key) == chains[Index(key)]
Found(key) == {i \in DOMAIN Chain(key) : Chain(key)[i].key = key
                                         /\ \A j \in 1 .. i - 1 : Chain(key)[j].key # key}

OldValue(key) == IF Found(key) = {} THEN Null
                 ELSE LET i == CHOOSE i \in Found(key) : TRUE IN Chain(key)[i].value

Init == chains = [i \in 0 .. Length - 1 |-> <<>>] /\ size = 0 /\ answer = Null

\* A negative index: ArrayIndexOutOfBoundsException, whatever the call.
Throws(key) == Index(key) < 0 /\ answer' = Exception /\ UNCHANGED <<chains, size>>

Put(key, value) ==
  \/ Throws(key)
  \/ /\ Index(key) >= 0 /\ answer' = OldValue(key)
     /\ \/ /\ Found(key) = {} /\ size' = size + 1
           /\ chains' = [chains EXCEPT ![Index(key)] =
                           Append(@, [key |-> key, value |-> value])]
        \/ \E i \in Found(key) : /\ chains' = [chains EXCEPT ![Index(key)][i].value = value]
                                 /\ UNCHANGED size

Get(key) == \/ Throws(key)
            \/ Index(key) >= 0 /\ answer' = OldValue(key) /\ UNCHANGED <<chains, size>>

Remove(key) ==
  \/ Throws(key)
  \/ /\ Index(key) >= 0 /\ answer' = OldValue(key)
     /\ \/ Found(key) = {} /\ UNCHANGED <<chains, size>>
        \/ \E i \in Found(key) : /\ chains' = [chains EXCEPT ![Index(key)] =
                                                      SubSeq(@, 1, i - 1) \o SubSeq(@, i + 1, Len(@))]
                                 /\ size' = size - 1

\* The map the chains stand for.
Table == LET present == UNION {{chains[i][j].key : j \in DOMAIN chains[i]} : i \in 0 .. Length - 1}
         IN  [k \in present |-> OldValue(k)]
=============================================================================
