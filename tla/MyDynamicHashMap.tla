-------------------------- MODULE MyDynamicHashMap --------------------------
(***************************************************************************)
(* handTearing/hashMap/MyDynamicHashMap.java: an array of linked chains    *)
(* that doubles when it is three quarters full.  A node is named by its    *)
(* key.  The migration relinks the nodes one by one, each in a step.       *)
(***************************************************************************)
EXTENDS Integers, FiniteSets

CONSTANTS Keys, Null, Hash,
          InitialLength    \* of the array: 16, a power of two
VARIABLES heads, length,   \* the array pairs, by index, and its length
          next, value,     \* the fields of the nodes
          size, answer,
          newHeads,        \* newPairs while expandIfNeeded migrates, else empty
          slot, current    \* the next index of its loop over pairs, and the node at hand

\* hashCode() & (n - 1), for an n that is a power of two.
Index(key, n) == Hash[key] % n

\* The nodes a loop finds from these: those in every set that has the ones to start
\* from and what its own nodes link to.
Nodes(from, links) ==
  {k \in Keys : \A S \in SUBSET Keys : (from \cup {links[x] : x \in S}) \ {Null} \subseteq S => k \in S}

Bucket(key)    == Nodes({heads[Index(key, length)]}, next)
Contained(key) == key \in Bucket(key)
OldValue(key)  == IF Contained(key) THEN value[key] ELSE Null

NoArray == [i \in {} |-> Null]
Ready == newHeads = NoArray    \* no migration is under way

Init == /\ heads = [i \in 0 .. InitialLength - 1 |-> Null] /\ length = InitialLength
        /\ next = [k \in Keys |-> Null] /\ value = [k \in Keys |-> Null]
        /\ size = 0 /\ answer = Null
        /\ newHeads = NoArray /\ slot = 0 /\ current = Null

\* A new node becomes the head of an empty slot or the last of its chain; when the
\* array is three quarters full, expandIfNeeded makes one of twice the length.
Insert(key) ==
  LET i == Index(key, length) IN
  /\ \/ heads[i] = Null /\ heads' = [heads EXCEPT ![i] = key] /\ UNCHANGED next
     \/ \E last \in Bucket(key) :
          next[last] = Null /\ next' = [next EXCEPT ![last] = key] /\ UNCHANGED heads
  /\ size' = size + 1
  /\ newHeads' = IF 4 * size' < 3 * length THEN NoArray ELSE [j \in 0 .. 2 * length - 1 |-> Null]

Put(key, v) ==
  /\ Ready
  /\ \/ ~Contained(key) /\ Insert(key)
     \/ Contained(key) /\ UNCHANGED <<heads, next, size, newHeads>>
  /\ value' = [value EXCEPT ![key] = v]
  /\ answer' = OldValue(key)
  /\ UNCHANGED <<length, slot, current>>

Get(key) == /\ Ready /\ answer' = OldValue(key)
            /\ UNCHANGED <<heads, length, next, value, size, newHeads, slot, current>>

\* Mutant: a node in the middle is unlinked together with its successors.
Unlink_Rest(key, pre) == next' = [next EXCEPT ![pre] = Null, ![key] = Null]

\* The predecessor takes over the node's successor; the node is garbage.
Unlink(key, pre) == next' = [next EXCEPT ![pre] = next[key], ![key] = Null]

RemoveFound(key) ==
  /\ LET i == Index(key, length) IN
     \/ /\ heads[i] = key
        /\ heads' = [heads EXCEPT ![i] = next[key]]
        /\ next' = [next EXCEPT ![key] = Null]
     \/ /\ heads[i] # key /\ UNCHANGED heads
        /\ \E pre \in Bucket(key) : next[pre] = key /\ Unlink(key, pre)
  /\ value' = [value EXCEPT ![key] = Null]
  /\ size' = size - 1

Remove(key) == /\ Ready
               /\ \/ Contained(key) /\ RemoveFound(key)
                  \/ ~Contained(key) /\ UNCHANGED <<heads, next, value, size>>
               /\ answer' = OldValue(key)
               /\ UNCHANGED <<length, newHeads, slot, current>>

\* The loop over the old array.
TakeSlot == /\ ~Ready /\ current = Null /\ slot < length
            /\ current' = heads[slot] /\ slot' = slot + 1
            /\ UNCHANGED <<heads, length, next, newHeads>>

\* Mutant: the successor is read after the link was changed, where the slot has a head.
Move_LateNext ==
  /\ current # Null
  /\ LET i == Index(current, 2 * length) IN
     /\ next' = [next EXCEPT ![current] = newHeads[i]]
     /\ newHeads' = [newHeads EXCEPT ![i] = current]
     /\ current' = IF newHeads[i] = Null THEN next[current] ELSE newHeads[i]
  /\ UNCHANGED <<heads, length, slot>>

\* A node goes to the front of its new slot; the first one ends the chain.
Move ==
  /\ current # Null
  /\ LET i == Index(current, 2 * length) IN
     /\ next' = [next EXCEPT ![current] = newHeads[i]]
     /\ newHeads' = [newHeads EXCEPT ![i] = current]
  /\ current' = next[current]
  /\ UNCHANGED <<heads, length, slot>>

\* The new array takes the place of the old one, and put returns.
Replace == /\ ~Ready /\ current = Null /\ slot = length
           /\ heads' = newHeads /\ length' = 2 * length
           /\ newHeads' = NoArray /\ slot' = 0
           /\ UNCHANGED <<next, current>>

Expand == (TakeSlot \/ Move \/ Replace) /\ UNCHANGED <<value, size, answer>>

-----------------------------------------------------------------------------
(* What the nodes stand for *)

\* Where the nodes are found: in what is left of the array, in the new one, and at hand.
Starts == {heads[i] : i \in slot .. length - 1} \cup {newHeads[i] : i \in DOMAIN newHeads} \cup {current}

\* The map.
Table == [k \in Nodes(Starts, next) |-> value[k]]

\* No two references lead to one node: neither slots, nor links, nor the node at hand.
ReferredOnce ==
  /\ \A i, j \in slot .. length - 1 : heads[i] = heads[j] /\ heads[i] # Null => i = j
  /\ \A i, j \in DOMAIN newHeads : newHeads[i] = newHeads[j] /\ newHeads[i] # Null => i = j
  /\ \A i \in slot .. length - 1 : \A j \in DOMAIN newHeads : heads[i] # Null => heads[i] # newHeads[j]
  /\ current # Null => /\ \A i \in slot .. length - 1 : heads[i] # current
                       /\ \A j \in DOMAIN newHeads : newHeads[j] # current
  /\ \A x, y \in Keys : next[x] = next[y] /\ next[x] # Null => x = y
  /\ \A x \in Keys : next[x] # Null => next[x] \notin Starts
=============================================================================
