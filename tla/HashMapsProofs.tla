--------------------------- MODULE HashMapsProofs ---------------------------
(***************************************************************************)
(* The three maps for any keys, values, hash codes and lengths: each is a  *)
(* finite map, and under the same calls they agree.                        *)
(***************************************************************************)
EXTENDS HashMaps, FiniteSetTheorems, SequenceTheorems, TLAPS

Nodes(from, links) == Dynamic!Nodes(from, links)
Index(key, n) == Dynamic!Index(key, n)
Present == Nodes(Dynamic!Starts, next)
Refs == Keys \cup {Null}

\* What put and remove make of a map.
Added(t, key, v) == [k \in DOMAIN t \cup {key} |-> IF k = key THEN v ELSE t[k]]
Without(t, key) == [k \in DOMAIN t \ {key} |-> t[k]]

-----------------------------------------------------------------------------
(* Nodes that are found *)

\* What is found has what one starts from, and what its own nodes link to.
LEMMA Closed == ASSUME NEW from \in SUBSET Refs, NEW links \in [Keys -> Refs]
                PROVE  /\ Nodes(from, links) \in SUBSET Keys /\ from \ {Null} \subseteq Nodes(from, links)
                       /\ \A x \in Nodes(from, links) : links[x] # Null => links[x] \in Nodes(from, links)
<1>1. Nodes(from, links) \in SUBSET Keys
  BY DEF Nodes, Dynamic!Nodes
<1>2. ASSUME NEW k \in from \ {Null} PROVE k \in Nodes(from, links)
  BY DEF Nodes, Dynamic!Nodes, Refs
<1>3. ASSUME NEW x \in Nodes(from, links), links[x] # Null PROVE links[x] \in Nodes(from, links)
  <2>1. x \in Keys /\ links[x] \in Keys
    BY <1>3, <1>1 DEF Refs
  <2>2. ASSUME NEW S \in SUBSET Keys, (from \cup {links[y] : y \in S}) \ {Null} \subseteq S PROVE links[x] \in S
    <3>1. x \in S
      BY <2>2 DEF Nodes, Dynamic!Nodes
    <3>2. QED
      BY <3>1, <2>2, <1>3
  <2>3. QED
    BY <2>1, <2>2 DEF Nodes, Dynamic!Nodes
<1>4. QED
  BY <1>1, <1>2, <1>3

\* It is the least such set.
LEMMA Least == ASSUME NEW from \in SUBSET Refs, NEW links \in [Keys -> Refs], NEW S \in SUBSET Keys,
                      from \ {Null} \subseteq S, \A x \in S : links[x] # Null => links[x] \in S
               PROVE  Nodes(from, links) \subseteq S
<1>1. (from \cup {links[x] : x \in S}) \ {Null} \subseteq S
  OBVIOUS
<1>2. QED
  BY <1>1 DEF Nodes, Dynamic!Nodes

\* A node is where one starts, or another node links to it.
LEMMA Referred == ASSUME NEW from \in SUBSET Refs, NEW links \in [Keys -> Refs], NEW k \in Nodes(from, links)
                  PROVE  k \in from \/ \E x \in Nodes(from, links) : x # k /\ links[x] = k
<1> SUFFICES ASSUME k \notin from, \A x \in Nodes(from, links) : x # k => links[x] # k PROVE FALSE
  OBVIOUS
<1> DEFINE S == Nodes(from, links) \ {k}
<1>1. S \in SUBSET Keys /\ from \ {Null} \subseteq S
  BY Closed
<1>2. \A x \in S : links[x] # Null => links[x] \in S
  BY Closed
<1>3. Nodes(from, links) \subseteq S
  <2> HIDE DEF S
  <2> QED
    BY <1>1, <1>2, Least
<1>4. QED
  BY <1>3

\* A node that is given its successor by another one, which held it, or is put into a free place, joins them.
LEMMA Joins == ASSUME NEW from \in SUBSET Refs, NEW links \in [Keys -> Refs],
                      NEW from2 \in SUBSET Refs, NEW links2 \in [Keys -> Refs],
                      NEW key \in Keys, links[key] = Null, links2[key] = Null,
                      \/ links2 = links /\ from2 \ {Null} = (from \ {Null}) \cup {key}
                      \/ /\ from2 \ {Null} = from \ {Null}
                         /\ \E last \in Nodes(from, links) : links[last] = Null
                                                             /\ links2 = [links EXCEPT ![last] = key]
               PROVE  Nodes(from2, links2) = Nodes(from, links) \cup {key}
<1> DEFINE T == Nodes(from, links)
           U == Nodes(from2, links2)
<1>1. /\ T \in SUBSET Keys /\ from \ {Null} \subseteq T /\ \A x \in T : links[x] # Null => links[x] \in T
      /\ U \in SUBSET Keys /\ from2 \ {Null} \subseteq U /\ \A x \in U : links2[x] # Null => links2[x] \in U
  BY Closed
<1>2. U \subseteq T \cup {key}
  <2>1. from2 \ {Null} \subseteq T \cup {key} /\ T \cup {key} \in SUBSET Keys
    BY <1>1
  <2>2. \A x \in T \cup {key} : links2[x] # Null => links2[x] \in T \cup {key}
    BY <1>1
  <2> DEFINE S == T \cup {key}
  <2>3. S \in SUBSET Keys /\ from2 \ {Null} \subseteq S /\ \A x \in S : links2[x] # Null => links2[x] \in S
    BY <2>1, <2>2
  <2> HIDE DEF S
  <2>4. Nodes(from2, links2) \subseteq S
    BY <2>3, Least
  <2>5. QED
    BY <2>4 DEF S
<1>3. T \subseteq U
  <2>1. from \ {Null} \subseteq U
    BY <1>1
  <2>2. \A x \in U : links[x] # Null => links[x] \in U
    BY <1>1
  <2>3. QED
    <3> HIDE DEF U
    <3> QED
      BY <1>1, <2>1, <2>2, Least
<1>4. key \in U
  <2> HIDE DEF T, U
  <2>1. key # Null
    BY HashAssumption
  <2>2. CASE from2 \ {Null} = (from \ {Null}) \cup {key}
    BY <2>1, <2>2, <1>1
  <2>3. CASE \E last \in T : links2 = [links EXCEPT ![last] = key]
    <3>1. PICK last \in T : links2 = [links EXCEPT ![last] = key]
      BY <2>3
    <3>2. last \in U /\ links2[last] = key
      BY <3>1, <1>1, <1>3
    <3>3. QED
      BY <3>2, <2>1, <1>1
  <2>4. QED
    BY <2>2, <2>3 DEF T
<1>5. QED
  BY <1>2, <1>3, <1>4

\* Null is no place to start from.
LEMMA SameStarts == ASSUME NEW from \in SUBSET Refs, NEW from2 \in SUBSET Refs, NEW links \in [Keys -> Refs],
                           from2 \ {Null} = from \ {Null}
                    PROVE  Nodes(from2, links) = Nodes(from, links)
<1>1. Nodes(from2, links) \subseteq Nodes(from, links)
  BY Closed, Least
<1>2. Nodes(from, links) \subseteq Nodes(from2, links)
  BY Closed, Least
<1>3. QED
  BY <1>1, <1>2

\* A node that takes the place of another start, which it links to from then on, loses none.
LEMMA Rotates == ASSUME NEW from \in SUBSET Refs, NEW from2 \in SUBSET Refs, NEW links \in [Keys -> Refs],
                        NEW c \in Keys, NEW h \in Refs, c \in from, h \in from,
                        from2 \subseteq from \cup {links[c]}, from \ {h} \subseteq from2 \cup {c},
                        c \in from2, links[c] \in from2,
                        NEW links2 \in [Keys -> Refs], links2[c] = h, \A x \in Keys : x # c => links2[x] = links[x]
                 PROVE  Nodes(from2, links2) = Nodes(from, links)
<1> DEFINE T == Nodes(from, links)
           U == Nodes(from2, links2)
<1>0. links2 \in [Keys -> Refs] /\ links2[c] = h /\ \A x \in Keys : x # c => links2[x] = links[x]
  OBVIOUS
<1>1. /\ T \in SUBSET Keys /\ from \ {Null} \subseteq T /\ \A x \in T : links[x] # Null => links[x] \in T
      /\ U \in SUBSET Keys /\ from2 \ {Null} \subseteq U /\ \A x \in U : links2[x] # Null => links2[x] \in U
  BY Closed
<1>2. c # Null
  BY HashAssumption
<1>3. U \subseteq T
  <2> HIDE DEF T
  <2>1. from2 \ {Null} \subseteq T /\ \A x \in T : links2[x] # Null => links2[x] \in T
    BY <1>0, <1>1, <1>2
  <2>2. QED
    BY <1>0, <1>1, <2>1, Least
<1>4. T \subseteq U
  <2> HIDE DEF U
  <2>1. c \in U /\ (h # Null => h \in U)
    BY <1>0, <1>1, <1>2
  <2>2. from \ {Null} \subseteq U /\ \A x \in U : links[x] # Null => links[x] \in U
    BY <1>0, <1>1, <1>2, <2>1
  <2>3. QED
    BY <1>1, <2>2, Least
<1>5. QED
  BY <1>3, <1>4

\* A node that only one other refers to leaves when that one takes over its successor.
LEMMA Leaves == ASSUME NEW from \in SUBSET Refs, NEW from2 \in SUBSET Refs,
                       NEW links \in [Keys -> Refs], NEW links2 \in [Keys -> Refs],
                       NEW key \in Nodes(from, links),
                       \A x, y \in Keys : links[x] = links[y] /\ links[x] # Null => x = y,
                       \A x \in Keys : links[x] # Null => links[x] \notin from,
                       \/ /\ key \in from /\ from2 \ {Null} = ((from \ {key}) \cup {links[key]}) \ {Null}
                          /\ links2 = [links EXCEPT ![key] = Null]
                       \/ /\ key \notin from /\ from2 = from
                          /\ \E pre \in Nodes(from, links) :
                               links[pre] = key /\ links2 = [links EXCEPT ![pre] = links[key], ![key] = Null]
                PROVE  Nodes(from2, links2) = Nodes(from, links) \ {key}
<1> DEFINE T == Nodes(from, links)
           U == Nodes(from2, links2)
<1>1. /\ T \in SUBSET Keys /\ from \ {Null} \subseteq T /\ \A x \in T : links[x] # Null => links[x] \in T
      /\ U \in SUBSET Keys /\ from2 \ {Null} \subseteq U /\ \A x \in U : links2[x] # Null => links2[x] \in U
  BY Closed
<1>2. key \in T /\ key \in Keys /\ key # Null
  BY <1>1, HashAssumption
<1>3. key \notin from => \E x \in T : x # key /\ links[x] = key
  BY Referred
<1>4. ASSUME NEW S \in SUBSET Keys, from2 \ {Null} \subseteq S, \A x \in S : links2[x] # Null => links2[x] \in S
      PROVE  U \subseteq S
  BY <1>4, Least
<1>5. ASSUME NEW S \in SUBSET Keys, from \ {Null} \subseteq S, \A x \in S : links[x] # Null => links[x] \in S
      PROVE  T \subseteq S
  BY <1>5, Least
<1> HIDE DEF T, U
<1>6. CASE key \in from /\ from2 \ {Null} = ((from \ {key}) \cup {links[key]}) \ {Null}
           /\ links2 = [links EXCEPT ![key] = Null]
  <2>1. links[key] # key /\ \A x \in Keys : links[x] # key
    BY <1>6, <1>2
  <2>2. from2 \ {Null} \subseteq T \ {key} /\ \A x \in T \ {key} : links2[x] # Null => links2[x] \in T \ {key}
    BY <1>1, <1>2, <1>6, <2>1
  <2>3. U \subseteq T \ {key}
    BY <1>1, <1>4, <2>2
  <2>4. from \ {Null} \subseteq U \cup {key} /\ \A x \in U \cup {key} : links[x] # Null => links[x] \in U \cup {key}
    BY <1>1, <1>2, <1>6, <2>3
  <2>5. T \subseteq U \cup {key}
    <3> DEFINE V == U \cup {key}
    <3>1. V \in SUBSET Keys /\ from \ {Null} \subseteq V /\ \A x \in V : links[x] # Null => links[x] \in V
      BY <1>1, <1>2, <2>4
    <3> HIDE DEF V
    <3>2. T \subseteq V
      BY <1>5, <3>1
    <3>3. QED
      BY <3>2 DEF V
  <2>6. QED
    BY <2>3, <2>5 DEF T, U
<1>7. CASE key \notin from
  <2>1. PICK pre \in T : links[pre] = key /\ links2 = [links EXCEPT ![pre] = links[key], ![key] = Null]
    BY <1>7 DEF T
  <2>2. from2 = from
    BY <1>7
  <2>3. pre # key /\ pre \in Keys
    BY <1>1, <1>2, <1>3, <1>7, <2>1
  <2>4. links[key] # key /\ \A x \in Keys : links[x] = key => x = pre
    BY <1>2, <2>1, <2>3
  <2>5. links2[pre] = links[key] /\ links2[key] = Null /\ \A x \in Keys : x # pre /\ x # key => links2[x] = links[x]
    BY <1>2, <2>1, <2>3
  <2>6. from2 \ {Null} \subseteq T \ {key} /\ \A x \in T \ {key} : links2[x] # Null => links2[x] \in T \ {key}
    BY <1>1, <1>2, <1>7, <2>2, <2>4, <2>5
  <2>7. U \subseteq T \ {key}
    BY <1>1, <1>4, <2>6
  <2>8. pre \in U
    <3> SUFFICES ASSUME pre \notin U PROVE FALSE
      OBVIOUS
    <3>1. \A x \in U : links[x] # Null => links[x] \in U
      BY <1>1, <2>5, <2>7
    <3>2. QED
      BY <1>1, <1>5, <2>1, <2>2, <3>1
  <2>9. from \ {Null} \subseteq U \cup {key} /\ \A x \in U \cup {key} : links[x] # Null => links[x] \in U \cup {key}
    BY <1>1, <1>2, <2>1, <2>2, <2>5, <2>7, <2>8
  <2>10. T \subseteq U \cup {key}
    <3> DEFINE V == U \cup {key}
    <3>1. V \in SUBSET Keys /\ from \ {Null} \subseteq V /\ \A x \in V : links[x] # Null => links[x] \in V
      BY <1>1, <1>2, <2>9
    <3> HIDE DEF V
    <3>2. T \subseteq V
      BY <1>5, <3>1
    <3>3. QED
      BY <3>2 DEF V
  <2>11. QED
    BY <2>7, <2>10 DEF T, U
<1>8. QED
  BY <1>6, <1>7

-----------------------------------------------------------------------------
(* The dynamic map *)

\* What its variables are.
DynamicTypes ==
  /\ length \in Nat \ {0} /\ heads \in [0 .. length - 1 -> Refs]
  /\ newHeads \in [DOMAIN newHeads -> Refs] /\ DOMAIN newHeads \in {{}, 0 .. 2 * length - 1}
  /\ slot \in 0 .. length /\ current \in Refs
  /\ next \in [Keys -> Refs] /\ value \in [Keys -> Values \cup {Null}]

\* Only nodes that are found link to others.
Fresh == \A k \in Keys \ Present : next[k] = Null

\* The nodes in their new slots.
NewHeads == {newHeads[i] : i \in DOMAIN newHeads}
Moved == Nodes(NewHeads, next)

\* A chain has the nodes of its slot; while nodes migrate, this is so in the new array.
InSlots ==
  /\ Dynamic!Ready => /\ slot = 0 /\ current = Null
                      /\ \A i \in 0 .. length - 1 : heads[i] # Null => Index(heads[i], length) = i
                      /\ \A x \in Keys : next[x] # Null => Index(next[x], length) = Index(x, length)
  /\ ~Dynamic!Ready => /\ \A i \in DOMAIN newHeads : newHeads[i] # Null => Index(newHeads[i], 2 * length) = i
                       /\ \A x \in Moved : next[x] # Null => Index(next[x], 2 * length) = Index(x, 2 * length)

Shape == Fresh /\ InSlots /\ Dynamic!ReferredOnce

\* The sets and indices at hand.
LEMMA Basics == ASSUME DynamicTypes
                PROVE  /\ Dynamic!Starts \in SUBSET Refs /\ NewHeads \in SUBSET Refs /\ NewHeads \subseteq Dynamic!Starts
                       /\ Present \in SUBSET Keys /\ Dynamic!Starts \ {Null} \subseteq Present
                       /\ \A x \in Present : next[x] # Null => next[x] \in Present
                       /\ \A k \in Keys : /\ Index(k, length) \in 0 .. length - 1
                                          /\ Index(k, 2 * length) \in 0 .. 2 * length - 1
                       /\ Dynamic!Ready <=> DOMAIN newHeads = {}
<1>1. Dynamic!Starts \in SUBSET Refs /\ NewHeads \in SUBSET Refs /\ NewHeads \subseteq Dynamic!Starts
  BY DEF DynamicTypes, Dynamic!Starts, NewHeads
<1>2. /\ Present \in SUBSET Keys /\ Dynamic!Starts \ {Null} \subseteq Present
      /\ \A x \in Present : next[x] # Null => next[x] \in Present
  BY <1>1, Closed DEF Present, DynamicTypes
<1>3. \A k \in Keys : Index(k, length) \in 0 .. length - 1 /\ Index(k, 2 * length) \in 0 .. 2 * length - 1
  <2>1. \A n \in Nat \ {0} : \A k \in Keys : Index(k, n) \in 0 .. n - 1
    BY HashAssumption DEF Index, Dynamic!Index
  <2>2. length \in Nat \ {0} /\ 2 * length \in Nat \ {0}
    BY DEF DynamicTypes
  <2>3. QED
    BY <2>1, <2>2
<1>4. Dynamic!Ready <=> DOMAIN newHeads = {}
  BY DEF DynamicTypes, Dynamic!Ready, Dynamic!NoArray
<1>5. QED
  BY <1>1, <1>2, <1>3, <1>4

\* Between the calls every node is found from the slot of its key.
LEMMA ContainedIs == ASSUME DynamicTypes, InSlots, Dynamic!Ready
                     PROVE  /\ \A key \in Keys : /\ Dynamic!Contained(key) <=> key \in Present
                                                 /\ Dynamic!Bucket(key) \in SUBSET Present
                            /\ Dynamic!Starts \ {Null} = {heads[i] : i \in 0 .. length - 1} \ {Null}
<1> DEFINE B(key) == Nodes({heads[Index(key, length)]}, next)
<1>1. \A key \in Keys : Dynamic!Bucket(key) = B(key)
  BY DEF Dynamic!Bucket, Nodes, Index
<1>2. Dynamic!Starts \ {Null} = {heads[i] : i \in 0 .. length - 1} \ {Null}
  BY Basics DEF InSlots, Dynamic!Starts
<1>3. ASSUME NEW key \in Keys
      PROVE  /\ heads[Index(key, length)] \in Refs /\ B(key) \in SUBSET Keys /\ B(key) \subseteq Present
             /\ heads[Index(key, length)] # Null => heads[Index(key, length)] \in B(key)
             /\ \A x \in B(key) : next[x] # Null => next[x] \in B(key)
  <2> DEFINE h == heads[Index(key, length)]
  <2>1. h \in Refs /\ (h # Null => h \in Present)
    BY <1>2, Basics DEF DynamicTypes
  <2>2. next \in [Keys -> Refs] /\ {h} \in SUBSET Refs
    BY <2>1 DEF DynamicTypes
  <2> HIDE DEF h
  <2>3. /\ Nodes({h}, next) \in SUBSET Keys /\ {h} \ {Null} \subseteq Nodes({h}, next)
        /\ \A x \in Nodes({h}, next) : next[x] # Null => next[x] \in Nodes({h}, next)
    BY <2>2, Closed
  <2>4. Nodes({h}, next) \subseteq Present
    BY <2>1, <2>2, Basics, Least
  <2>5. QED
    BY <2>1, <2>3, <2>4 DEF h
<1> HIDE DEF B
<1>4. Present \subseteq {k \in Present : k \in B(k)}
  <2> DEFINE S == {k \in Present : k \in B(k)}
  <2>1. S \in SUBSET Keys
    BY Basics
  <2>2. Dynamic!Starts \ {Null} \subseteq S
    <3>1. ASSUME NEW i \in 0 .. length - 1, heads[i] # Null PROVE heads[i] \in S
      <4>1. heads[i] \in Keys /\ Index(heads[i], length) = i /\ heads[i] \in Present
        BY <3>1, <1>2, Basics DEF InSlots, DynamicTypes
      <4>2. QED
        BY <4>1, <3>1, <1>3
    <3>2. QED
      BY <3>1, <1>2
  <2>3. ASSUME NEW x \in S, next[x] # Null PROVE next[x] \in S
    <3>1. x \in Keys /\ next[x] \in Present /\ next[x] \in Keys /\ Index(next[x], length) = Index(x, length)
      BY <2>3, Basics DEF InSlots
    <3>2. B(next[x]) = B(x)
      BY <3>1 DEF B
    <3>3. QED
      BY <3>1, <3>2, <2>3, <1>3
  <2> HIDE DEF S
  <2>4. Present \subseteq S
    BY <2>1, <2>2, <2>3, Least, Basics DEF Present, DynamicTypes
  <2>5. QED
    BY <2>4 DEF S
<1>5. QED
  BY <1>1, <1>2, <1>3, <1>4, Basics DEF Dynamic!Contained

\* The nodes of a chain have the index of its slot.
LEMMA BucketSlot == ASSUME DynamicTypes, InSlots, Dynamic!Ready, NEW key \in Keys
                    PROVE  \A k \in Dynamic!Bucket(key) : k \in Keys /\ Index(k, length) = Index(key, length)
<1> DEFINE h == heads[Index(key, length)]
           S == {k \in Keys : Index(k, length) = Index(key, length)}
<1>1. h \in Refs /\ (h # Null => h \in S)
  BY Basics DEF DynamicTypes, InSlots, Refs
<1>2. ASSUME NEW x \in S, next[x] # Null PROVE next[x] \in S
  BY <1>2 DEF DynamicTypes, InSlots, Refs
<1>3. S \in SUBSET Keys /\ next \in [Keys -> Refs]
  BY DEF DynamicTypes
<1>4. Dynamic!Bucket(key) = Nodes({h}, next)
  BY DEF Dynamic!Bucket, Nodes, Index
<1> HIDE DEF h
<1>5. Nodes({h}, next) \subseteq S
  <2> HIDE DEF S
  <2> QED
    BY <1>1, <1>2, <1>3, Least
<1>6. QED
  BY <1>4, <1>5

\* put of a new key adds its node, at the end of its chain, and may begin a migration.
LEMMA InsertStep == ASSUME DynamicTypes, Shape, Dynamic!Ready, NEW key \in Keys, key \notin Present, Dynamic!Insert(key),
                           UNCHANGED <<length, slot, current>>, value' \in [Keys -> Values \cup {Null}]
                    PROVE  DynamicTypes' /\ Shape' /\ Present' = Present \cup {key}
<1> DEFINE i == Index(key, length)
<1>0. /\ i \in 0 .. length - 1 /\ length \in Nat \ {0} /\ heads \in [0 .. length - 1 -> Refs] /\ next \in [Keys -> Refs]
      /\ DOMAIN newHeads = {} /\ slot = 0 /\ current = Null /\ key # Null /\ key \in Refs
  BY Basics, HashAssumption DEF DynamicTypes, Shape, InSlots, Refs
<1>1. next[key] = Null /\ (\A x \in Keys : next[x] # key) /\ (\A j \in 0 .. length - 1 : heads[j] # key)
  <2>1. \A x \in Keys : next[x] # Null => next[x] \in Present
    BY Basics DEF Shape, Fresh
  <2>2. \A j \in 0 .. length - 1 : heads[j] # Null => heads[j] \in Present
    BY ContainedIs, Basics DEF Shape
  <2>3. QED
    BY <1>0, <2>1, <2>2 DEF Shape, Fresh
<1>2. \/ heads[i] = Null /\ heads' = [heads EXCEPT ![i] = key] /\ next' = next
      \/ heads' = heads /\ \E last \in Present : next[last] = Null /\ next' = [next EXCEPT ![last] = key]
  BY ContainedIs DEF Dynamic!Insert, Shape, Index
<1>3. /\ heads' \in [0 .. length - 1 -> Refs] /\ next' \in [Keys -> Refs] /\ next'[key] = Null
      /\ length' = length /\ slot' = 0 /\ current' = Null
  <2>1. heads' \in [0 .. length - 1 -> Refs]
    BY <1>0, <1>2
  <2>2. next' \in [Keys -> Refs]
    BY <1>0, <1>2
  <2>3. next'[key] = Null
    <3>1. key \notin Present /\ next[key] = Null /\ next \in [Keys -> Refs]
      BY <1>0, <1>1
    <3>2. QED
      BY <3>1, <1>2
  <2>4. QED
    BY <2>1, <2>2, <2>3, <1>0
<1>4. newHeads' = [j \in {} |-> Null] \/ newHeads' = [j \in 0 .. 2 * length - 1 |-> Null]
  BY DEF Dynamic!Insert, Dynamic!NoArray
<1>5. DynamicTypes'
  BY <1>0, <1>3, <1>4 DEF DynamicTypes, Refs
<1>6. \A j \in DOMAIN newHeads' : newHeads'[j] = Null
  BY <1>4
<1>7. Dynamic!Starts' \ {Null} = {heads'[j] : j \in 0 .. length - 1} \ {Null}
  BY <1>3, <1>6 DEF Dynamic!Starts
<1>8. Present' = Present \cup {key}
  <2>1. Dynamic!Starts \in SUBSET Refs /\ Dynamic!Starts' \in SUBSET Refs
    BY <1>5, <1>3, <1>6, <1>7, Basics DEF Refs
  <2>2. Dynamic!Starts \ {Null} = {heads[j] : j \in 0 .. length - 1} \ {Null}
    BY ContainedIs DEF Shape
  <2>3. \/ next' = next /\ Dynamic!Starts' \ {Null} = (Dynamic!Starts \ {Null}) \cup {key}
        \/ /\ Dynamic!Starts' \ {Null} = Dynamic!Starts \ {Null}
           /\ \E last \in Nodes(Dynamic!Starts, next) : next[last] = Null /\ next' = [next EXCEPT ![last] = key]
    <3>1. CASE heads[i] = Null /\ heads' = [heads EXCEPT ![i] = key] /\ next' = next
      <4>1. {heads'[j] : j \in 0 .. length - 1} \ {Null} = ({heads[j] : j \in 0 .. length - 1} \ {Null}) \cup {key}
        BY <3>1, <1>0
      <4>2. QED
        BY <4>1, <3>1, <1>7, <2>2
    <3>2. CASE heads' = heads /\ \E last \in Present : next[last] = Null /\ next' = [next EXCEPT ![last] = key]
      <4>1. Dynamic!Starts' \ {Null} = Dynamic!Starts \ {Null}
        BY <3>2, <1>7, <2>2
      <4>2. \E last \in Nodes(Dynamic!Starts, next) : next[last] = Null /\ next' = [next EXCEPT ![last] = key]
        BY <3>2 DEF Present
      <4>3. QED
        BY <4>1, <4>2
    <3>3. QED
      BY <3>1, <3>2, <1>2
  <2>4. Nodes(Dynamic!Starts', next') = Nodes(Dynamic!Starts, next) \cup {key}
    BY <2>1, <2>3, <1>0, <1>1, <1>3, Joins
  <2>5. QED
    BY <2>4 DEF Present
<1>9. Fresh'
  BY <1>0, <1>2, <1>3, <1>8 DEF Fresh, Shape
<1>10. InSlots'
  <2>1. \A j \in 0 .. length - 1 : heads'[j] # Null => Index(heads'[j], length) = j
    BY <1>0, <1>2 DEF Shape, InSlots
  <2>2. \A x \in Keys : next'[x] # Null => Index(next'[x], length) = Index(x, length)
    <3>1. CASE next' = next
      BY <3>1 DEF Shape, InSlots
    <3>2. CASE \E last \in Dynamic!Bucket(key) : next' = [next EXCEPT ![last] = key]
      <4>1. PICK last \in Dynamic!Bucket(key) : next' = [next EXCEPT ![last] = key]
        BY <3>2
      <4>2. last \in Keys /\ Index(last, length) = Index(key, length)
        BY <4>1, BucketSlot DEF Shape
      <4>3. QED
        BY <4>1, <4>2, <1>0 DEF Shape, InSlots
    <3>3. QED
      BY <3>1, <3>2 DEF Dynamic!Insert
  <2>3. Moved' = {}
    <3>1. NewHeads' \in SUBSET Refs /\ NewHeads' \ {Null} \subseteq {}
      BY <1>6 DEF NewHeads, Refs
    <3>2. Nodes(NewHeads', next') \subseteq {}
      BY <3>1, <1>3, Least
    <3>3. QED
      BY <3>2 DEF Moved
  <2>4. QED
    BY <2>1, <2>2, <2>3, <1>3, <1>6 DEF InSlots
<1>11. Dynamic!ReferredOnce'
  <2>1. /\ \A j, k \in 0 .. length - 1 : heads[j] = heads[k] /\ heads[j] # Null => j = k
        /\ \A x, y \in Keys : next[x] = next[y] /\ next[x] # Null => x = y
        /\ \A x \in Keys : next[x] # Null => \A j \in 0 .. length - 1 : next[x] # heads[j]
    BY <1>0, ContainedIs DEF Shape, Dynamic!ReferredOnce, Dynamic!Starts
  <2>2. /\ \A j, k \in 0 .. length - 1 : heads'[j] = heads'[k] /\ heads'[j] # Null => j = k
        /\ \A x, y \in Keys : next'[x] = next'[y] /\ next'[x] # Null => x = y
        /\ \A x \in Keys : next'[x] # Null => \A j \in 0 .. length - 1 : next'[x] # heads'[j]
    <3>1. CASE heads[i] = Null /\ heads' = [heads EXCEPT ![i] = key] /\ next' = next
      BY <3>1, <2>1, <1>0, <1>1
    <3>2. CASE heads' = heads /\ \E last \in Present : next[last] = Null /\ next' = [next EXCEPT ![last] = key]
      BY <3>2, <2>1, <1>0, <1>1
    <3>3. QED
      BY <3>1, <3>2, <1>2
  <2>3. QED
    BY <2>2, <1>3, <1>6, <1>7 DEF Dynamic!ReferredOnce
<1>12. QED
  BY <1>5, <1>8, <1>9, <1>10, <1>11 DEF Shape

\* remove of a key takes its node out of its chain.
LEMMA RemoveStep == ASSUME DynamicTypes, Shape, Dynamic!Ready, NEW key \in Present, Dynamic!RemoveFound(key),
                           UNCHANGED <<length, newHeads, slot, current>>
                    PROVE  DynamicTypes' /\ Shape' /\ Present' = Present \ {key}
<1> DEFINE i == Index(key, length)
<1>0. /\ key \in Keys /\ i \in 0 .. length - 1 /\ length \in Nat \ {0} /\ heads \in [0 .. length - 1 -> Refs]
      /\ next \in [Keys -> Refs] /\ DOMAIN newHeads = {} /\ slot = 0 /\ current = Null
      /\ key # Null /\ Null \in Refs
  BY Basics, HashAssumption DEF DynamicTypes, Shape, InSlots, Refs
<1>1. /\ \A j, k \in 0 .. length - 1 : heads[j] = heads[k] /\ heads[j] # Null => j = k
      /\ \A x, y \in Keys : next[x] = next[y] /\ next[x] # Null => x = y
      /\ \A x \in Keys : next[x] # Null => next[x] \notin Dynamic!Starts /\ \A j \in 0 .. length - 1 : next[x] # heads[j]
      /\ \A j \in 0 .. length - 1 : heads[j] # Null => Index(heads[j], length) = j
      /\ \A x \in Keys : next[x] # Null => Index(next[x], length) = Index(x, length)
      /\ Dynamic!Starts \ {Null} = {heads[j] : j \in 0 .. length - 1} \ {Null}
  BY <1>0, ContainedIs DEF Shape, InSlots, Dynamic!ReferredOnce, Dynamic!Starts
<1>2. \/ /\ heads[i] = key /\ heads' = [heads EXCEPT ![i] = next[key]] /\ next' = [next EXCEPT ![key] = Null]
      \/ /\ heads[i] # key /\ heads' = heads
         /\ \E pre \in Present : next[pre] = key /\ next' = [next EXCEPT ![pre] = next[key], ![key] = Null]
  BY <1>0, ContainedIs DEF Dynamic!RemoveFound, Dynamic!Unlink, Shape, Index
<1>3. /\ heads' \in [0 .. length - 1 -> Refs] /\ next' \in [Keys -> Refs]
      /\ length' = length /\ newHeads' = newHeads /\ slot' = 0 /\ current' = Null
  BY <1>0, <1>2
<1>4. DynamicTypes'
  <2>1. value' \in [Keys -> Values \cup {Null}]
    BY <1>0 DEF Dynamic!RemoveFound, DynamicTypes
  <2>2. QED
    BY <2>1, <1>0, <1>3 DEF DynamicTypes
<1>5. Dynamic!Starts' \ {Null} = {heads'[j] : j \in 0 .. length - 1} \ {Null}
  BY <1>0, <1>3 DEF Dynamic!Starts
<1>6. Present' = Present \ {key}
  <2>1. Dynamic!Starts \in SUBSET Refs /\ Dynamic!Starts' \in SUBSET Refs /\ key \in Nodes(Dynamic!Starts, next)
    BY <1>0, <1>3, <1>5, Basics DEF Present, Refs
  <2>2. \/ /\ key \in Dynamic!Starts /\ Dynamic!Starts' \ {Null} = ((Dynamic!Starts \ {key}) \cup {next[key]}) \ {Null}
           /\ next' = [next EXCEPT ![key] = Null]
        \/ /\ key \notin Dynamic!Starts /\ Dynamic!Starts' = Dynamic!Starts
           /\ \E p \in Nodes(Dynamic!Starts, next) : next[p] = key /\ next' = [next EXCEPT ![p] = next[key], ![key] = Null]
    <3>1. CASE heads[i] = key /\ heads' = [heads EXCEPT ![i] = next[key]] /\ next' = [next EXCEPT ![key] = Null]
      <4>1. key \in Dynamic!Starts
        BY <3>1, <1>0, <1>1
      <4>2. {heads'[j] : j \in 0 .. length - 1} \ {Null}
              = (({heads[j] : j \in 0 .. length - 1} \ {key}) \cup {next[key]}) \ {Null}
        <5>1. \A j \in 0 .. length - 1 : heads'[j] = IF j = i THEN next[key] ELSE heads[j]
          BY <3>1, <1>0
        <5>2. \A j \in 0 .. length - 1 : heads[j] = key <=> j = i
          BY <3>1, <1>0, <1>1
        <5>3. QED
          BY <5>1, <5>2, <1>0
      <4>3. Dynamic!Starts' \ {Null} = ((Dynamic!Starts \ {key}) \cup {next[key]}) \ {Null}
        BY <4>2, <1>1, <1>5
      <4>4. QED
        BY <4>1, <4>3, <3>1
    <3>2. CASE heads[i] # key /\ heads' = heads
      <4>1. Dynamic!Starts' = Dynamic!Starts
        BY <3>2, <1>0, <1>3 DEF Dynamic!Starts
      <4>2. key \notin Dynamic!Starts
        BY <3>2, <1>0, <1>1
      <4>3. PICK pre \in Present : next[pre] = key /\ next' = [next EXCEPT ![pre] = next[key], ![key] = Null]
        BY <3>2, <1>2
      <4>4. \E p \in Nodes(Dynamic!Starts, next) : next[p] = key /\ next' = [next EXCEPT ![p] = next[key], ![key] = Null]
        BY <4>3 DEF Present
      <4>5. QED
        BY <4>1, <4>2, <4>4
    <3>3. QED
      BY <3>1, <3>2, <1>2
  <2>3. Nodes(Dynamic!Starts', next') = Nodes(Dynamic!Starts, next) \ {key}
    BY <2>1, <2>2, <1>0, <1>1, <1>3, Leaves
  <2>4. QED
    BY <2>3 DEF Present
<1>7. Fresh'
  <2>1. next'[key] = Null
    BY <1>0, <1>2
  <2>2. \A k \in Keys \ Present : next[k] = Null /\ next'[k] = Null
    BY <1>0, <1>2 DEF Shape, Fresh
  <2>3. QED
    BY <2>1, <2>2, <1>3, <1>6 DEF Fresh
<1>8. /\ \A j \in 0 .. length - 1 : heads'[j] # Null => Index(heads'[j], length) = j
      /\ \A x \in Keys : next'[x] # Null => Index(next'[x], length) = Index(x, length)
      /\ \A j, k \in 0 .. length - 1 : heads'[j] = heads'[k] /\ heads'[j] # Null => j = k
      /\ \A x, y \in Keys : next'[x] = next'[y] /\ next'[x] # Null => x = y
      /\ \A x \in Keys : next'[x] # Null => \A j \in 0 .. length - 1 : next'[x] # heads'[j]
  <2>1. CASE heads[i] = key /\ heads' = [heads EXCEPT ![i] = next[key]] /\ next' = [next EXCEPT ![key] = Null]
    BY <2>1, <1>0, <1>1
  <2>2. CASE heads' = heads /\ \E pre \in Present : next[pre] = key /\ next' = [next EXCEPT ![pre] = next[key], ![key] = Null]
    <3>1. PICK pre \in Keys : next[pre] = key /\ next' = [next EXCEPT ![pre] = next[key], ![key] = Null]
      BY <2>2, Basics
    <3>2. /\ next'[key] = Null /\ (pre # key => next'[pre] = next[key])
          /\ \A x \in Keys : x # pre /\ x # key => next'[x] = next[x]
      BY <3>1, <1>0
    <3>3. \A x \in Keys : next'[x] # Null => Index(next'[x], length) = Index(x, length)
      BY <3>1, <3>2, <1>0, <1>1
    <3>4. \A x, y \in Keys : next'[x] = next'[y] /\ next'[x] # Null => x = y
      BY <3>1, <3>2, <1>0, <1>1
    <3>5. \A x \in Keys : next'[x] # Null => \A j \in 0 .. length - 1 : next'[x] # heads[j]
      BY <3>1, <3>2, <1>0, <1>1
    <3>6. QED
      BY <2>2, <3>3, <3>4, <3>5, <1>1
  <2>3. QED
    BY <2>1, <2>2, <1>2
<1>9. InSlots'
  <2>1. Dynamic!Ready'
    BY <1>3 DEF Dynamic!Ready, Dynamic!NoArray
  <2>2. QED
    BY <2>1, <1>3, <1>8 DEF InSlots
<1>10. Dynamic!ReferredOnce'
  BY <1>0, <1>3, <1>5, <1>8 DEF Dynamic!ReferredOnce
<1>11. QED
  BY <1>4, <1>6, <1>7, <1>9, <1>10 DEF Shape

\* The migration takes up the next chain.
LEMMA TakeSlotStep == ASSUME DynamicTypes, Shape, Dynamic!TakeSlot, value' = value
                      PROVE  DynamicTypes' /\ Shape' /\ Present' = Present
<1>0. /\ current = Null /\ slot \in 0 .. length - 1 /\ current' = heads[slot] /\ slot' = slot + 1 /\ ~Dynamic!Ready
      /\ heads' = heads /\ length' = length /\ next' = next /\ newHeads' = newHeads /\ length \in Nat
  BY DEF Dynamic!TakeSlot, DynamicTypes
<1>1. DynamicTypes'
  BY <1>0 DEF DynamicTypes
<1>2. Dynamic!Starts' \in SUBSET Refs /\ Dynamic!Starts \in SUBSET Refs /\ Dynamic!Starts' \ {Null} = Dynamic!Starts \ {Null}
  <2>1. Dynamic!Starts' = {heads[j] : j \in slot + 1 .. length - 1} \cup NewHeads \cup {heads[slot]}
    BY <1>0 DEF Dynamic!Starts, NewHeads
  <2>2. Dynamic!Starts = {heads[j] : j \in slot .. length - 1} \cup NewHeads \cup {Null}
    BY <1>0 DEF Dynamic!Starts, NewHeads
  <2>3. {heads[j] : j \in slot .. length - 1} = {heads[j] : j \in slot + 1 .. length - 1} \cup {heads[slot]}
    <3>1. slot .. length - 1 = (slot + 1 .. length - 1) \cup {slot}
      BY <1>0
    <3>2. QED
      BY <3>1
  <2>4. Dynamic!Starts \in SUBSET Refs
    BY Basics
  <2>5. QED
    BY <2>1, <2>2, <2>3, <2>4
<1>3. Present' = Present
  <2>1. Nodes(Dynamic!Starts', next) = Nodes(Dynamic!Starts, next)
    BY <1>2, SameStarts DEF DynamicTypes
  <2>2. QED
    BY <2>1, <1>0 DEF Present
<1>4. Fresh'
  BY <1>0, <1>3 DEF Fresh, Shape
<1>5. InSlots'
  <2>1. Moved' = Moved
    BY <1>0 DEF Moved, NewHeads
  <2>2. Dynamic!Ready' = Dynamic!Ready
    BY <1>0 DEF Dynamic!Ready, Dynamic!NoArray
  <2>3. QED
    BY <2>1, <2>2, <1>0 DEF InSlots, Shape
<1>6. Dynamic!ReferredOnce'
  <2>1. \A x \in Keys : next[x] # Null => next[x] \notin Dynamic!Starts'
    BY <1>2 DEF Shape, Dynamic!ReferredOnce
  <2>2. \A i \in slot + 1 .. length - 1 : i \in slot .. length - 1 /\ i # slot
    BY <1>0
  <2>3. slot \in slot .. length - 1
    BY <1>0
  <2>4. QED
    BY <2>1, <2>2, <2>3, <1>0 DEF Shape, Dynamic!ReferredOnce
<1>7. QED
  BY <1>1, <1>3, <1>4, <1>5, <1>6 DEF Shape

\* The migration moves a node to the front of its new chain.
LEMMA MoveStep == ASSUME DynamicTypes, Shape, Dynamic!Move, value' = value
                  PROVE  DynamicTypes' /\ Shape' /\ Present' = Present
<1> DEFINE i == Index(current, 2 * length)
           h == newHeads[i]
<1>0. /\ current # Null /\ current \in Keys /\ ~Dynamic!Ready /\ DOMAIN newHeads = 0 .. 2 * length - 1
      /\ i \in DOMAIN newHeads /\ h \in Refs /\ next \in [Keys -> Refs] /\ length \in Nat \ {0} /\ slot \in 0 .. length
      /\ heads \in [0 .. length - 1 -> Refs] /\ newHeads \in [DOMAIN newHeads -> Refs] /\ next[current] \in Refs
  BY Basics DEF Dynamic!Move, DynamicTypes, Shape, InSlots, Refs
<1>1. /\ next' = [next EXCEPT ![current] = h] /\ newHeads' = [newHeads EXCEPT ![i] = current] /\ current' = next[current]
      /\ heads' = heads /\ length' = length /\ slot' = slot
  BY DEF Dynamic!Move, Index
<1>2. DynamicTypes'
  BY <1>0, <1>1 DEF DynamicTypes, Refs
<1>3. /\ current \in Dynamic!Starts /\ h \in Dynamic!Starts
      /\ Dynamic!Starts' \subseteq Dynamic!Starts \cup {next[current]}
      /\ Dynamic!Starts \ {h} \subseteq Dynamic!Starts' \cup {current}
      /\ current \in Dynamic!Starts' /\ next[current] \in Dynamic!Starts'
      /\ Dynamic!Starts' \in SUBSET Refs /\ Dynamic!Starts \in SUBSET Refs
  <2>1. Dynamic!Starts = {heads[j] : j \in slot .. length - 1} \cup NewHeads \cup {current}
    BY DEF Dynamic!Starts, NewHeads
  <2>2. Dynamic!Starts' = {heads[j] : j \in slot .. length - 1} \cup NewHeads' \cup {next[current]}
    BY <1>1 DEF Dynamic!Starts, NewHeads
  <2>3. /\ NewHeads' \subseteq NewHeads \cup {current} /\ NewHeads \ {h} \subseteq NewHeads' /\ current \in NewHeads'
        /\ h \in NewHeads
    BY <1>0, <1>1 DEF NewHeads
  <2>4. Dynamic!Starts \in SUBSET Refs
    BY Basics
  <2>5. QED
    BY <2>1, <2>2, <2>3, <2>4, <1>0
<1> HIDE DEF h
<1>4. Present' = Present
  <2>1. Nodes(Dynamic!Starts', next') = Nodes(Dynamic!Starts, next)
    <3>1. /\ next' \in [Keys -> Refs] /\ next \in [Keys -> Refs] /\ next'[current] = h
          /\ \A x \in Keys : x # current => next'[x] = next[x]
      BY <1>0, <1>1, <1>2 DEF DynamicTypes
    <3>2. current \in Keys /\ h \in Refs
      BY <1>0
    <3> QED
      BY <3>1, <3>2, <1>3, Rotates
  <2>2. QED
    BY <2>1, <1>1 DEF Present
<1>5. Fresh'
  <2>1. current \in Present
    BY <1>0, <1>3, Basics
  <2>2. QED
    BY <2>1, <1>0, <1>1, <1>4 DEF Fresh, Shape
<1>6. InSlots'
  <2>1. ~Dynamic!Ready'
    BY <1>0, <1>1 DEF Dynamic!Ready, Dynamic!NoArray
  <2>2. Moved' \subseteq Moved \cup {current}
    <3> DEFINE S == Moved \cup {current}
    <3>1. NewHeads \in SUBSET Refs /\ NewHeads' \in SUBSET Refs
      BY <1>2, Basics, <1>0, <1>1 DEF NewHeads, DynamicTypes
    <3>2. Moved \in SUBSET Keys /\ NewHeads \ {Null} \subseteq Moved /\ \A x \in Moved : next[x] # Null => next[x] \in Moved
      BY <3>1, <1>0, Closed DEF Moved
    <3>3. h \in NewHeads /\ NewHeads' \ {Null} \subseteq S
      BY <3>2, <1>0, <1>1 DEF NewHeads, h
    <3>4. S \in SUBSET Keys /\ \A x \in S : next'[x] # Null => next'[x] \in S
      BY <3>2, <3>3, <1>0, <1>1
    <3>5. next' \in [Keys -> Refs]
      BY <1>2 DEF DynamicTypes
    <3> HIDE DEF S
    <3>6. Nodes(NewHeads', next') \subseteq S
      BY <3>1, <3>3, <3>4, <3>5, Least
    <3>7. QED
      BY <3>6 DEF S, Moved
  <2>3. h # Null => Index(h, 2 * length) = i
    BY <1>0 DEF InSlots, Shape, h
  <2>4. \A j \in DOMAIN newHeads : newHeads'[j] # Null => Index(newHeads'[j], 2 * length) = j
    BY <1>0, <1>1 DEF InSlots, Shape
  <2>5. \A x \in Moved : x # current /\ next[x] # Null => Index(next[x], 2 * length) = Index(x, 2 * length)
    BY <1>0 DEF InSlots, Shape
  <2>6. \A x \in Moved' : x \in Keys
    BY <2>2, <1>0, Basics, Closed DEF Moved, DynamicTypes
  <2>7. \A x \in Moved' : next'[x] # Null => Index(next'[x], 2 * length) = Index(x, 2 * length)
    BY <2>2, <2>3, <2>5, <2>6, <1>0, <1>1
  <2>8. QED
    BY <2>1, <2>4, <2>7, <1>0, <1>1 DEF InSlots
<1>7. Dynamic!ReferredOnce'
  <2> DEFINE Left == slot .. length - 1
  <2>1. /\ \A j, k \in Left : heads[j] = heads[k] /\ heads[j] # Null => j = k
        /\ \A j, k \in DOMAIN newHeads : newHeads[j] = newHeads[k] /\ newHeads[j] # Null => j = k
        /\ \A j \in Left : \A k \in DOMAIN newHeads : heads[j] # Null => heads[j] # newHeads[k]
        /\ (\A j \in Left : heads[j] # current) /\ (\A k \in DOMAIN newHeads : newHeads[k] # current)
        /\ \A x, y \in Keys : next[x] = next[y] /\ next[x] # Null => x = y
        /\ \A x \in Keys : next[x] # Null => /\ \A j \in Left : next[x] # heads[j]
                                             /\ \A k \in DOMAIN newHeads : next[x] # newHeads[k]
                                             /\ next[x] # current
    BY <1>0 DEF Shape, Dynamic!ReferredOnce, Dynamic!Starts
  <2>2. /\ newHeads'[i] = current /\ next'[current] = h /\ newHeads[i] = h
        /\ \A k \in DOMAIN newHeads : k # i => newHeads'[k] = newHeads[k]
        /\ \A x \in Keys : x # current => next'[x] = next[x]
        /\ DOMAIN newHeads' = DOMAIN newHeads
    BY <1>0, <1>1 DEF h
  <2> HIDE DEF Left
  <2>3. /\ \A j, k \in DOMAIN newHeads : newHeads'[j] = newHeads'[k] /\ newHeads'[j] # Null => j = k
        /\ \A j \in Left : \A k \in DOMAIN newHeads : heads[j] # Null => heads[j] # newHeads'[k]
        /\ next[current] # Null => /\ \A j \in Left : heads[j] # next[current]
                                   /\ \A k \in DOMAIN newHeads : newHeads'[k] # next[current]
    BY <1>0, <2>1, <2>2
  <2>4. \A x, y \in Keys : next'[x] = next'[y] /\ next'[x] # Null => x = y
    BY <1>0, <2>1, <2>2
  <2>5. \A x \in Keys : next'[x] # Null => /\ \A j \in Left : next'[x] # heads[j]
                                           /\ \A k \in DOMAIN newHeads : next'[x] # newHeads'[k]
                                           /\ next'[x] # next[current]
    BY <1>0, <2>1, <2>2
  <2>6. \A x \in Keys : next'[x] # Null => next'[x] \notin Dynamic!Starts'
    BY <2>2, <2>5, <1>1 DEF Dynamic!Starts, Left
  <2>7. QED
    BY <2>1, <2>2, <2>3, <2>4, <2>6, <1>1 DEF Dynamic!ReferredOnce, Left
<1>8. QED
  BY <1>2, <1>4, <1>5, <1>6, <1>7 DEF Shape

\* The new array takes the place of the old.
LEMMA ReplaceStep == ASSUME DynamicTypes, Shape, Dynamic!Replace, value' = value
                     PROVE  DynamicTypes' /\ Shape' /\ Present' = Present
<1>0. /\ ~Dynamic!Ready /\ current = Null /\ slot = length /\ heads' = newHeads /\ length' = 2 * length
      /\ newHeads' = [j \in {} |-> Null] /\ slot' = 0 /\ next' = next /\ current' = current
      /\ length \in Nat \ {0} /\ DOMAIN newHeads = 0 .. 2 * length - 1 /\ next \in [Keys -> Refs]
      /\ newHeads \in [DOMAIN newHeads -> Refs]
  BY Basics DEF Dynamic!Replace, Dynamic!NoArray, DynamicTypes
<1>1. DynamicTypes'
  BY <1>0 DEF DynamicTypes
<1>2. /\ Dynamic!Starts = NewHeads \cup {Null} /\ Dynamic!Starts' = Dynamic!Starts
      /\ NewHeads \in SUBSET Refs /\ Dynamic!Starts \in SUBSET Refs
  <2>1. slot .. length - 1 = {}
    BY <1>0
  <2>2. Dynamic!Starts = NewHeads \cup {Null}
    BY <1>0, <2>1 DEF Dynamic!Starts, NewHeads
  <2>3. Dynamic!Starts' = NewHeads \cup {Null}
    BY <1>0 DEF Dynamic!Starts, NewHeads
  <2>4. QED
    BY <2>2, <2>3, Basics
<1>3. Present' = Present
  BY <1>0, <1>2 DEF Present
<1>4. Present = Moved
  <2>1. Nodes(Dynamic!Starts, next) = Nodes(NewHeads, next)
    BY <1>0, <1>2, SameStarts
  <2>2. QED
    BY <2>1 DEF Present, Moved
<1>5. Fresh'
  BY <1>0, <1>3 DEF Fresh, Shape
<1>6. InSlots'
  <2>1. Dynamic!Ready'
    BY <1>0 DEF Dynamic!Ready, Dynamic!NoArray
  <2>2. \A x \in Keys : next[x] # Null => x \in Moved
    BY <1>4 DEF Fresh, Shape
  <2>3. QED
    BY <2>1, <2>2, <1>0 DEF InSlots, Shape
<1>7. Dynamic!ReferredOnce'
  <2>1. \A x \in Keys : next'[x] # Null => next'[x] \notin Dynamic!Starts'
    BY <1>0, <1>2 DEF Shape, Dynamic!ReferredOnce
  <2>2. DOMAIN newHeads' = {} /\ slot' .. length' - 1 = DOMAIN newHeads
    BY <1>0
  <2>3. QED
    BY <2>1, <2>2, <1>0 DEF Shape, Dynamic!ReferredOnce
<1>8. QED
  BY <1>1, <1>3, <1>5, <1>6, <1>7 DEF Shape

\* size counts the nodes.
Counted == IsFiniteSet(Present) /\ dynamicSize = Cardinality(Present)

DynamicInv == DynamicTypes /\ Shape /\ Counted

\* What a call is answered.
LEMMA AnswerIs == ASSUME DynamicInv, Dynamic!Ready
                  PROVE  /\ \A key \in Keys : Dynamic!OldValue(key) = Map!Old(Dynamic!Table, key)
                         /\ DOMAIN Dynamic!Table = Present
  BY ContainedIs DEF DynamicInv, Shape, Dynamic!OldValue, Map!Old, Dynamic!Table, Present, Nodes

\* What leaves the nodes alone leaves the map alone.
LEMMA DynamicStays == ASSUME DynamicInv, UNCHANGED <<heads, length, next, value, dynamicSize, newHeads, slot, current>>
                      PROVE  DynamicInv' /\ Dynamic!Table' = Dynamic!Table
<1>1. Present' = Present /\ DynamicTypes'
  BY DEF Present, Dynamic!Starts, DynamicInv, DynamicTypes
<1>2. Shape' /\ Counted'
  BY <1>1 DEF DynamicInv, Shape, Fresh, InSlots, Dynamic!ReferredOnce, Dynamic!Starts, Dynamic!Ready, Dynamic!NoArray,
              Moved, NewHeads, Counted
<1>3. Dynamic!Table' = Dynamic!Table
  <2>1. Dynamic!Table = [k \in Present |-> value[k]] /\ Dynamic!Table' = [k \in Present' |-> value'[k]]
    BY DEF Dynamic!Table, Present, Nodes
  <2>2. QED
    BY <2>1, <1>1
<1>4. QED
  BY <1>1, <1>2, <1>3 DEF DynamicInv

\* put is Put of the finite map.
LEMMA DynamicPut == ASSUME DynamicInv, NEW key \in Keys, NEW v \in Values, Dynamic!Put(key, v)
                    PROVE  /\ DynamicInv' /\ Dynamic!Table' = Added(Dynamic!Table, key, v)
                           /\ dynamicAnswer' = Map!Old(Dynamic!Table, key)
                           /\ dynamicSize' = IF key \in DOMAIN Dynamic!Table THEN dynamicSize ELSE dynamicSize + 1
<1>1. /\ Dynamic!Ready /\ value' = [value EXCEPT ![key] = v] /\ dynamicAnswer' = Map!Old(Dynamic!Table, key)
      /\ value' \in [Keys -> Values \cup {Null}] /\ DOMAIN Dynamic!Table = Present
  BY AnswerIs DEF Dynamic!Put, DynamicInv, DynamicTypes
<1>2. Dynamic!Contained(key) <=> key \in Present
  BY <1>1, ContainedIs DEF DynamicInv, Shape
<1>3. Present' = Present \cup {key} => Dynamic!Table' = Added(Dynamic!Table, key, v)
  <2> SUFFICES ASSUME Present' = Present \cup {key} PROVE Dynamic!Table' = Added(Dynamic!Table, key, v)
    OBVIOUS
  <2>1. Dynamic!Table = [k \in Present |-> value[k]] /\ Dynamic!Table' = [k \in Present' |-> value'[k]]
    BY DEF Dynamic!Table, Present, Nodes
  <2>2. Present \in SUBSET Keys /\ value \in [Keys -> Values \cup {Null}]
    BY Basics DEF DynamicInv, DynamicTypes
  <2>3. QED
    BY <2>1, <2>2, <1>1 DEF Added
<1>4. CASE key \in Present
  <2>1. UNCHANGED <<heads, length, next, dynamicSize, newHeads, slot, current>>
    BY <1>1, <1>2, <1>4 DEF Dynamic!Put
  <2>2. Present' = Present /\ DynamicTypes'
    BY <2>1, <1>1 DEF Present, Dynamic!Starts, DynamicInv, DynamicTypes
  <2>3. Shape' /\ Counted'
    BY <2>1, <2>2 DEF DynamicInv, Shape, Fresh, InSlots, Dynamic!ReferredOnce, Dynamic!Starts, Dynamic!Ready, Dynamic!NoArray,
                      Moved, NewHeads, Counted
  <2>4. Present' = Present \cup {key}
    BY <2>2, <1>4
  <2>5. QED
    BY <2>1, <2>2, <2>3, <2>4, <1>1, <1>3, <1>4 DEF DynamicInv
<1>5. CASE key \notin Present
  <2>1. Dynamic!Insert(key) /\ UNCHANGED <<length, slot, current>>
    BY <1>1, <1>2, <1>5 DEF Dynamic!Put
  <2>2. DynamicTypes' /\ Shape' /\ Present' = Present \cup {key}
    BY <2>1, <1>1, <1>5, InsertStep DEF DynamicInv
  <2>3. dynamicSize' = dynamicSize + 1
    BY <2>1 DEF Dynamic!Insert
  <2>4. Counted'
    BY <2>2, <2>3, <1>5, FS_AddElement DEF Counted, DynamicInv
  <2>5. QED
    BY <2>2, <2>3, <2>4, <1>1, <1>3, <1>5 DEF DynamicInv
<1>6. QED
  BY <1>4, <1>5

\* get is Get of the finite map.
LEMMA DynamicGet == ASSUME DynamicInv, NEW key \in Keys, Dynamic!Get(key)
                    PROVE  /\ DynamicInv' /\ Dynamic!Table' = Dynamic!Table /\ dynamicAnswer' = Map!Old(Dynamic!Table, key)
                           /\ dynamicSize' = dynamicSize
<1>1. dynamicAnswer' = Map!Old(Dynamic!Table, key)
  BY AnswerIs DEF Dynamic!Get
<1>2. UNCHANGED <<heads, length, next, value, dynamicSize, newHeads, slot, current>>
  BY DEF Dynamic!Get
<1>3. QED
  BY <1>1, <1>2, DynamicStays

\* remove is Remove of the finite map.
LEMMA DynamicRemove == ASSUME DynamicInv, NEW key \in Keys, Dynamic!Remove(key)
                       PROVE  /\ DynamicInv' /\ Dynamic!Table' = Without(Dynamic!Table, key)
                              /\ dynamicAnswer' = Map!Old(Dynamic!Table, key)
                              /\ dynamicSize' = IF key \in DOMAIN Dynamic!Table THEN dynamicSize - 1 ELSE dynamicSize
<1>1. Dynamic!Ready /\ dynamicAnswer' = Map!Old(Dynamic!Table, key) /\ DOMAIN Dynamic!Table = Present
  BY AnswerIs DEF Dynamic!Remove
<1>2. Dynamic!Contained(key) <=> key \in Present
  BY <1>1, ContainedIs DEF DynamicInv, Shape
<1>3. Dynamic!Table = [k \in Present |-> value[k]] /\ Dynamic!Table' = [k \in Present' |-> value'[k]]
  BY DEF Dynamic!Table, Present, Nodes
<1>4. CASE key \in Present
  <2>1. Dynamic!RemoveFound(key) /\ UNCHANGED <<length, newHeads, slot, current>>
    BY <1>2, <1>4 DEF Dynamic!Remove
  <2>2. DynamicTypes' /\ Shape' /\ Present' = Present \ {key}
    BY <2>1, <1>1, <1>4, RemoveStep DEF DynamicInv
  <2>3. dynamicSize' = dynamicSize - 1 /\ value' = [value EXCEPT ![key] = Null]
    BY <2>1 DEF Dynamic!RemoveFound
  <2>4. Counted'
    BY <2>2, <2>3, <1>4, FS_RemoveElement DEF Counted, DynamicInv
  <2>5. Present \in SUBSET Keys /\ value \in [Keys -> Values \cup {Null}]
    BY Basics DEF DynamicInv, DynamicTypes
  <2>6. Dynamic!Table' = Without(Dynamic!Table, key)
    BY <2>2, <2>3, <2>5, <1>3 DEF Without
  <2>7. QED
    BY <2>2, <2>3, <2>4, <2>6, <1>1, <1>4 DEF DynamicInv
<1>5. CASE key \notin Present
  <2>1. UNCHANGED <<heads, length, next, value, dynamicSize, newHeads, slot, current>>
    BY <1>2, <1>5 DEF Dynamic!Remove
  <2>2. DynamicInv' /\ Dynamic!Table' = Dynamic!Table
    BY <2>1, DynamicStays
  <2>3. Without(Dynamic!Table, key) = Dynamic!Table
    BY <1>3, <1>5 DEF Without
  <2>4. QED
    BY <2>1, <2>2, <2>3, <1>1, <1>5
<1>6. QED
  BY <1>4, <1>5

\* The migration changes nothing of the map.
LEMMA DynamicExpand == ASSUME DynamicInv, Dynamic!Expand
                       PROVE  /\ DynamicInv' /\ Dynamic!Table' = Dynamic!Table
                              /\ dynamicAnswer' = dynamicAnswer /\ dynamicSize' = dynamicSize
<1>1. UNCHANGED <<value, dynamicSize, dynamicAnswer>> /\ (Dynamic!TakeSlot \/ Dynamic!Move \/ Dynamic!Replace)
  BY DEF Dynamic!Expand
<1>2. DynamicTypes' /\ Shape' /\ Present' = Present
  BY <1>1, TakeSlotStep, MoveStep, ReplaceStep DEF DynamicInv
<1>3. Counted'
  BY <1>1, <1>2 DEF Counted, DynamicInv
<1>4. Dynamic!Table' = Dynamic!Table
  <2>1. Dynamic!Table = [k \in Present |-> value[k]] /\ Dynamic!Table' = [k \in Present' |-> value'[k]]
    BY DEF Dynamic!Table, Present, Nodes
  <2>2. QED
    BY <2>1, <1>1, <1>2
<1>5. QED
  BY <1>1, <1>2, <1>3, <1>4 DEF DynamicInv

-----------------------------------------------------------------------------
(* Lists of pairs *)

\* A key is in one pair of the list.
Distinct(s) == \A i, j \in 1 .. Len(s) : s[i].key = s[j].key => i = j

\* The pair of a key, found from the start of the list, and the value a loop reads there.
FirstOf(s, key) == {i \in DOMAIN s : s[i].key = key /\ \A j \in 1 .. i - 1 : s[j].key # key}
ReadFrom(s, key) == IF FirstOf(s, key) = {} THEN Null ELSE LET i == CHOOSE i \in FirstOf(s, key) : TRUE IN s[i].value

\* The map of a list.
TableOf(s) == [k \in {s[i].key : i \in 1 .. Len(s)} |-> ReadFrom(s, k)]

\* Of a key the loop finds the only pair.
LEMMA Reads == ASSUME NEW s \in Seq(Pairs), Distinct(s)
               PROVE  /\ \A i \in 1 .. Len(s) : /\ s[i].key \in Keys /\ s[i].value \in Values
                                                /\ FirstOf(s, s[i].key) = {i} /\ ReadFrom(s, s[i].key) = s[i].value
                      /\ \A k : (\A i \in 1 .. Len(s) : s[i].key # k) => FirstOf(s, k) = {} /\ ReadFrom(s, k) = Null
                      /\ \A k : ReadFrom(s, k) = Map!Old(TableOf(s), k)
                      /\ \A k : FirstOf(s, k) = {} <=> k \notin DOMAIN TableOf(s)
                      /\ DOMAIN TableOf(s) \in SUBSET Keys
<1>1. ASSUME NEW i \in 1 .. Len(s)
      PROVE  /\ s[i].key \in Keys /\ s[i].value \in Values
             /\ FirstOf(s, s[i].key) = {i} /\ ReadFrom(s, s[i].key) = s[i].value
  <2>1. s[i] \in Pairs
    OBVIOUS
  <2>2. FirstOf(s, s[i].key) = {i}
    BY DEF Distinct, FirstOf
  <2>3. QED
    BY <2>1, <2>2 DEF ReadFrom, Pairs
<1>2. \A k : (\A i \in 1 .. Len(s) : s[i].key # k) => FirstOf(s, k) = {} /\ ReadFrom(s, k) = Null
  BY DEF FirstOf, ReadFrom
<1>3. DOMAIN TableOf(s) = {s[i].key : i \in 1 .. Len(s)}
  BY DEF TableOf
<1>4. \A k : ReadFrom(s, k) = Map!Old(TableOf(s), k)
  BY <1>2, <1>3 DEF TableOf, Map!Old
<1>5. QED
  BY <1>1, <1>2, <1>3, <1>4

\* A new pair at the end adds its key.
LEMMA Appends == ASSUME NEW s \in Seq(Pairs), Distinct(s), NEW key \in Keys, NEW v \in Values, key \notin DOMAIN TableOf(s)
                 PROVE  LET t == Append(s, [key |-> key, value |-> v]) IN
                        /\ t \in Seq(Pairs) /\ Distinct(t) /\ Len(t) = Len(s) + 1
                        /\ TableOf(t) = Added(TableOf(s), key, v)
<1> DEFINE p == [key |-> key, value |-> v]
           t == Append(s, p)
<1>1. p \in Pairs /\ p.key = key /\ p.value = v
  BY DEF Pairs
<1> HIDE DEF p
<1>2. /\ t \in Seq(Pairs) /\ Len(t) = Len(s) + 1 /\ t[Len(s) + 1] = p /\ \A i \in 1 .. Len(s) : t[i] = s[i]
      /\ Len(s) \in Nat
  BY <1>1
<1> HIDE DEF t
<1>3. \A i \in 1 .. Len(s) : s[i].key # key
  BY DEF TableOf
<1>4. Distinct(t)
  BY <1>1, <1>2, <1>3 DEF Distinct
<1>5. \A i \in 1 .. Len(t) : i \in 1 .. Len(s) \/ i = Len(s) + 1
  BY <1>2
<1>6. DOMAIN TableOf(t) = DOMAIN TableOf(s) \cup {key}
  <2>1. {t[i].key : i \in 1 .. Len(t)} = {s[i].key : i \in 1 .. Len(s)} \cup {key}
    BY <1>1, <1>2, <1>5
  <2>2. QED
    BY <2>1 DEF TableOf
<1>7. ASSUME NEW k \in DOMAIN TableOf(t) PROVE TableOf(t)[k] = Added(TableOf(s), key, v)[k]
  <2>1. CASE k = key
    <3>1. ReadFrom(t, key) = v
      BY <1>1, <1>2, <1>4, Reads
    <3>2. QED
      BY <2>1, <3>1, <1>6 DEF TableOf, Added
  <2>2. CASE k # key
    <3>1. PICK i \in 1 .. Len(s) : s[i].key = k
      BY <2>2, <1>6 DEF TableOf
    <3>2. ReadFrom(t, k) = ReadFrom(s, k)
      BY <3>1, <1>2, <1>4, Reads
    <3>3. QED
      BY <2>2, <3>2, <1>6 DEF TableOf, Added
  <2>3. QED
    BY <2>1, <2>2
<1>8. TableOf(t) = Added(TableOf(s), key, v)
  BY <1>6, <1>7 DEF TableOf, Added
<1>9. QED
  BY <1>2, <1>4, <1>8 DEF t, p

Updated(s, i, v) == [s EXCEPT ![i].value = v]

\* A new value in the pair of a key changes the value of this key.
LEMMA Updates == ASSUME NEW s \in Seq(Pairs), Distinct(s), NEW key \in Keys, NEW v \in Values, NEW i \in FirstOf(s, key)
                 PROVE  LET t == Updated(s, i, v) IN
                        /\ t \in Seq(Pairs) /\ Distinct(t) /\ Len(t) = Len(s)
                        /\ TableOf(t) = Added(TableOf(s), key, v)
<1> DEFINE t == Updated(s, i, v)
<1>1. i \in 1 .. Len(s) /\ s[i].key = key
  BY DEF FirstOf
<1>2. /\ t \in Seq(Pairs) /\ Len(t) = Len(s) /\ t[i].key = key /\ t[i].value = v
      /\ \A j \in 1 .. Len(s) : j # i => t[j] = s[j]
  <2>1. s[i] \in Pairs
    BY <1>1
  <2>2. /\ [s[i] EXCEPT !.value = v] \in Pairs /\ [s[i] EXCEPT !.value = v].key = s[i].key
        /\ [s[i] EXCEPT !.value = v].value = v
    BY <2>1 DEF Pairs
  <2>3. QED
    BY <1>1, <2>2 DEF Updated
<1> HIDE DEF t
<1>3. \A j \in 1 .. Len(s) : t[j].key = s[j].key
  BY <1>1, <1>2
<1>4. Distinct(t)
  BY <1>2, <1>3 DEF Distinct
<1>5. DOMAIN TableOf(t) = DOMAIN TableOf(s) /\ key \in DOMAIN TableOf(s)
  <2>1. {t[j].key : j \in 1 .. Len(t)} = {s[j].key : j \in 1 .. Len(s)}
    BY <1>2, <1>3
  <2>2. QED
    BY <2>1, <1>1 DEF TableOf
<1>6. ASSUME NEW k \in DOMAIN TableOf(t) PROVE TableOf(t)[k] = Added(TableOf(s), key, v)[k]
  <2>1. PICK j \in 1 .. Len(s) : s[j].key = k /\ t[j].key = k
    BY <1>2, <1>3 DEF TableOf
  <2>2. ReadFrom(t, k) = t[j].value /\ ReadFrom(s, k) = s[j].value
    BY <2>1, <1>2, <1>4, Reads
  <2>3. k = key <=> j = i
    BY <2>1, <1>1 DEF Distinct
  <2>4. t[j].value = IF k = key THEN v ELSE s[j].value
    BY <2>3, <1>2
  <2>5. QED
    BY <2>2, <2>4, <1>5 DEF TableOf, Added
<1>7. TableOf(t) = Added(TableOf(s), key, v)
  <2>1. DOMAIN Added(TableOf(s), key, v) = DOMAIN TableOf(t)
    BY <1>5 DEF Added
  <2>2. TableOf(t) = [k \in DOMAIN TableOf(t) |-> TableOf(t)[k]]
    BY DEF TableOf
  <2>3. Added(TableOf(s), key, v) = [k \in DOMAIN TableOf(t) |-> Added(TableOf(s), key, v)[k]]
    BY <2>1 DEF Added
  <2>4. QED
    BY <2>2, <2>3, <1>6
<1>8. QED
  BY <1>2, <1>4, <1>7 DEF t

\* The list without the pair of a key has lost this key.
LEMMA Drops == ASSUME NEW s \in Seq(Pairs), Distinct(s), NEW key \in Keys, NEW i \in FirstOf(s, key)
               PROVE  LET t == SubSeq(s, 1, i - 1) \o SubSeq(s, i + 1, Len(s)) IN
                      /\ t \in Seq(Pairs) /\ Distinct(t) /\ Len(t) = Len(s) - 1
                      /\ TableOf(t) = Without(TableOf(s), key)
<1> DEFINE a == SubSeq(s, 1, i - 1)
           b == SubSeq(s, i + 1, Len(s))
           t == a \o b
<1>1. i \in 1 .. Len(s) /\ s[i].key = key /\ Len(s) \in Nat
  BY DEF FirstOf
<1>2. a \in Seq(Pairs) /\ Len(a) = i - 1 /\ \A j \in 1 .. i - 1 : a[j] = s[j]
  BY <1>1, SubSeqProperties
<1>3. b \in Seq(Pairs) /\ Len(b) = Len(s) - i /\ \A j \in 1 .. Len(s) - i : b[j] = s[i + j]
  BY <1>1, SubSeqProperties
<1> HIDE DEF a, b
<1>4. /\ t \in Seq(Pairs) /\ Len(t) = Len(s) - 1
      /\ \A j \in 1 .. Len(s) - 1 : t[j] = IF j < i THEN s[j] ELSE s[j + 1]
  <2>1. t \in Seq(Pairs) /\ Len(t) = Len(s) - 1
    BY <1>1, <1>2, <1>3, ConcatProperties
  <2>2. \A j \in 1 .. Len(s) - 1 : t[j] = IF j <= i - 1 THEN a[j] ELSE b[j - (i - 1)]
    BY <1>1, <1>2, <1>3, ConcatProperties
  <2>3. ASSUME NEW j \in 1 .. Len(s) - 1, ~(j < i) PROVE b[j - (i - 1)] = s[j + 1]
    <3>1. j - (i - 1) \in 1 .. Len(s) - i /\ i + (j - (i - 1)) = j + 1
      BY <2>3, <1>1
    <3>2. QED
      BY <3>1, <1>3
  <2> HIDE DEF t
  <2>4. ASSUME NEW j \in 1 .. Len(s) - 1 PROVE t[j] = IF j < i THEN s[j] ELSE s[j + 1]
    <3>1. CASE j < i
      <4>1. j \in 1 .. i - 1 /\ j <= i - 1
        BY <3>1, <1>1
      <4>2. QED
        BY <3>1, <4>1, <2>2, <1>2
    <3>2. CASE ~(j < i)
      <4>1. ~(j <= i - 1)
        BY <3>2, <1>1
      <4>2. QED
        BY <3>2, <4>1, <2>2, <2>3
    <3>3. QED
      BY <3>1, <3>2
  <2>5. QED
    BY <2>1, <2>4
<1> HIDE DEF t
<1>5. Distinct(t)
  <2> DEFINE At(j) == IF j < i THEN j ELSE j + 1
  <2>1. \A j \in 1 .. Len(t) : At(j) \in 1 .. Len(s) /\ t[j] = s[At(j)]
    BY <1>1, <1>4
  <2>2. \A j, h \in 1 .. Len(t) : At(j) = At(h) => j = h
    BY <1>1, <1>4
  <2> HIDE DEF At
  <2>3. QED
    BY <2>1, <2>2 DEF Distinct
<1>6. \A k : (\E j \in 1 .. Len(t) : t[j].key = k) <=> k # key /\ \E j \in 1 .. Len(s) : s[j].key = k
  <2> SUFFICES ASSUME NEW k PROVE (\E j \in 1 .. Len(t) : t[j].key = k) <=> k # key /\ \E j \in 1 .. Len(s) : s[j].key = k
    OBVIOUS
  <2>1. ASSUME NEW j \in 1 .. Len(t), t[j].key = k PROVE k # key /\ \E h \in 1 .. Len(s) : s[h].key = k
    <3>1. PICK h \in 1 .. Len(s) : h # i /\ t[j] = s[h]
      <4>1. (j < i => j \in 1 .. Len(s) /\ t[j] = s[j]) /\ (~(j < i) => j + 1 \in 1 .. Len(s) /\ t[j] = s[j + 1])
        BY <1>1, <1>4
      <4>2. (j < i => j # i) /\ (~(j < i) => j + 1 # i)
        BY <1>1, <1>4
      <4>3. QED
        BY <4>1, <4>2
    <3>2. QED
      BY <2>1, <3>1, <1>1 DEF Distinct
  <2>2. ASSUME NEW j \in 1 .. Len(s), s[j].key = k, k # key PROVE \E h \in 1 .. Len(t) : t[h].key = k
    <3>1. CASE j < i
      BY <2>2, <3>1, <1>1, <1>4
    <3>2. CASE j > i
      <4>1. j - 1 \in 1 .. Len(t) /\ t[j - 1] = s[j]
        BY <3>2, <1>1, <1>4
      <4>2. QED
        BY <4>1, <2>2
    <3>3. QED
      BY <2>2, <3>1, <3>2, <1>1
  <2>3. QED
    BY <2>1, <2>2
<1>7. DOMAIN TableOf(t) = DOMAIN TableOf(s) \ {key}
  <2>1. {t[j].key : j \in 1 .. Len(t)} = {s[j].key : j \in 1 .. Len(s)} \ {key}
    <3>1. \A k : k \in {t[j].key : j \in 1 .. Len(t)} <=> \E j \in 1 .. Len(t) : t[j].key = k
      OBVIOUS
    <3>2. \A k : k \in {s[j].key : j \in 1 .. Len(s)} <=> \E j \in 1 .. Len(s) : s[j].key = k
      OBVIOUS
    <3>3. QED
      BY <3>1, <3>2, <1>6
  <2>2. QED
    BY <2>1 DEF TableOf
<1>8. ASSUME NEW k \in DOMAIN TableOf(t) PROVE TableOf(t)[k] = TableOf(s)[k]
  <2>1. PICK j \in 1 .. Len(t) : t[j].key = k
    BY <1>4 DEF TableOf
  <2>2. PICK h \in 1 .. Len(s) : t[j] = s[h]
    <3>1. j \in 1 .. Len(s) - 1 /\ j \in 1 .. Len(s) /\ j + 1 \in 1 .. Len(s)
      BY <1>1, <1>4
    <3>2. t[j] = s[j] \/ t[j] = s[j + 1]
      BY <3>1, <1>4
    <3>3. QED
      BY <3>1, <3>2
  <2>3. ReadFrom(t, k) = ReadFrom(s, k)
    <3>1. ReadFrom(t, t[j].key) = t[j].value
      BY <1>4, <1>5, Reads
    <3>2. ReadFrom(s, s[h].key) = s[h].value
      BY Reads
    <3>3. QED
      BY <3>1, <3>2, <2>1, <2>2
  <2>4. QED
    BY <2>3, <1>7 DEF TableOf
<1>9. TableOf(t) = Without(TableOf(s), key)
  BY <1>7, <1>8 DEF TableOf, Without
<1>10. QED
  BY <1>4, <1>5, <1>9 DEF t, a, b

-----------------------------------------------------------------------------
(* The array map *)

ArrayInv == pairs \in Seq(Pairs) /\ Distinct(pairs)

\* Its loops read the list of pairs.
LEMMA ArrayIs == /\ \A k : Array!Found(k) = FirstOf(pairs, k) /\ Array!OldValue(k) = ReadFrom(pairs, k)
                 /\ pairs \in Seq(Pairs) => Array!Table = TableOf(pairs)
                 /\ pairs' \in Seq(Pairs) => Array!Table' = TableOf(pairs')
<1>1. \A k : Array!Found(k) = FirstOf(pairs, k)
  BY DEF Array!Found, FirstOf
<1>2. \A k : Array!OldValue(k) = ReadFrom(pairs, k)
  BY DEF Array!OldValue, Array!Found, ReadFrom, FirstOf
<1>3. pairs \in Seq(Pairs) => Array!Table = TableOf(pairs)
  BY <1>2 DEF Array!Table, TableOf
<1>4. \A k : Array!OldValue(k)' = ReadFrom(pairs', k)
  BY DEF Array!OldValue, Array!Found, ReadFrom, FirstOf
<1>5. pairs' \in Seq(Pairs) => Array!Table' = TableOf(pairs')
  BY <1>4 DEF Array!Table, TableOf
<1>6. QED
  BY <1>1, <1>2, <1>3, <1>5

\* put is Put of the finite map.
LEMMA ArrayPut == ASSUME ArrayInv, NEW key \in Keys, NEW v \in Values, Array!Put(key, v)
                  PROVE  /\ ArrayInv' /\ Array!Table' = Added(Array!Table, key, v)
                         /\ arrayAnswer' = Map!Old(Array!Table, key)
                         /\ Len(pairs') = IF key \in DOMAIN Array!Table THEN Len(pairs) ELSE Len(pairs) + 1
<1>1. Array!Table = TableOf(pairs) /\ arrayAnswer' = Map!Old(Array!Table, key)
  BY ArrayIs, Reads DEF ArrayInv, Array!Put
<1>2. FirstOf(pairs, key) = {} <=> key \notin DOMAIN TableOf(pairs)
  BY Reads DEF ArrayInv
<1>3. CASE FirstOf(pairs, key) = {} /\ pairs' = Append(pairs, [key |-> key, value |-> v])
  <2>1. /\ pairs' \in Seq(Pairs) /\ Distinct(pairs') /\ Len(pairs') = Len(pairs) + 1
        /\ TableOf(pairs') = Added(TableOf(pairs), key, v)
    BY <1>2, <1>3, Appends DEF ArrayInv
  <2>2. QED
    BY <2>1, <1>1, <1>2, <1>3, ArrayIs DEF ArrayInv
<1>4. CASE \E i \in FirstOf(pairs, key) : pairs' = [pairs EXCEPT ![i].value = v]
  <2>1. PICK i \in FirstOf(pairs, key) : pairs' = Updated(pairs, i, v)
    BY <1>4 DEF Updated
  <2>2. /\ pairs' \in Seq(Pairs) /\ Distinct(pairs') /\ Len(pairs') = Len(pairs)
        /\ TableOf(pairs') = Added(TableOf(pairs), key, v)
    BY <2>1, Updates DEF ArrayInv
  <2>3. QED
    BY <2>1, <2>2, <1>1, <1>2, ArrayIs DEF ArrayInv
<1>5. QED
  BY <1>3, <1>4, ArrayIs DEF Array!Put

\* remove is Remove of the finite map.
LEMMA ArrayRemove == ASSUME ArrayInv, NEW key \in Keys, Array!Remove(key)
                     PROVE  /\ ArrayInv' /\ Array!Table' = Without(Array!Table, key)
                            /\ arrayAnswer' = Map!Old(Array!Table, key)
                            /\ Len(pairs') = IF key \in DOMAIN Array!Table THEN Len(pairs) - 1 ELSE Len(pairs)
<1>1. Array!Table = TableOf(pairs) /\ arrayAnswer' = Map!Old(Array!Table, key)
  BY ArrayIs, Reads DEF ArrayInv, Array!Remove
<1>2. FirstOf(pairs, key) = {} <=> key \notin DOMAIN TableOf(pairs)
  BY Reads DEF ArrayInv
<1>3. CASE FirstOf(pairs, key) = {} /\ pairs' = pairs
  <2>1. Without(TableOf(pairs), key) = TableOf(pairs)
    BY <1>2, <1>3 DEF Without, TableOf
  <2>2. QED
    BY <2>1, <1>1, <1>2, <1>3, ArrayIs DEF ArrayInv
<1>4. CASE \E i \in FirstOf(pairs, key) : pairs' = SubSeq(pairs, 1, i - 1) \o SubSeq(pairs, i + 1, Len(pairs))
  <2>1. PICK i \in FirstOf(pairs, key) : pairs' = SubSeq(pairs, 1, i - 1) \o SubSeq(pairs, i + 1, Len(pairs))
    BY <1>4
  <2>2. /\ pairs' \in Seq(Pairs) /\ Distinct(pairs') /\ Len(pairs') = Len(pairs) - 1
        /\ TableOf(pairs') = Without(TableOf(pairs), key)
    BY <2>1, Drops DEF ArrayInv
  <2>3. QED
    BY <2>1, <2>2, <1>1, <1>2, ArrayIs DEF ArrayInv
<1>5. QED
  BY <1>3, <1>4, ArrayIs DEF Array!Remove

-----------------------------------------------------------------------------
(* The fixed map *)

Chains == [0 .. FixedLength - 1 -> Seq(Pairs)]

\* Each key of a chain belongs there, and only once.
WellChained(c) == \A i \in 0 .. FixedLength - 1 : /\ Distinct(c[i])
                                                  /\ \A k \in DOMAIN TableOf(c[i]) : Fixed!Index(k) = i

\* The map of the chains.
MapOf(c) == [k \in UNION {DOMAIN TableOf(c[i]) : i \in 0 .. FixedLength - 1} |-> ReadFrom(c[Fixed!Index(k)], k)]

FixedInv == /\ chains \in Chains /\ WellChained(chains)
            /\ IsFiniteSet(DOMAIN MapOf(chains)) /\ fixedSize = Cardinality(DOMAIN MapOf(chains))

\* Java's remainder is less than the length, and negative for some keys.
LEMMA IndexFacts == /\ \A k \in Keys : Fixed!Index(k) \in Int /\ Fixed!Index(k) < FixedLength
                    /\ \A k \in Indexed : k \in Keys /\ Fixed!Index(k) \in 0 .. FixedLength - 1
<1>1. ASSUME NEW k \in Keys PROVE Fixed!Index(k) \in Int /\ Fixed!Index(k) < FixedLength
  <2>1. Hash[k] \in Int /\ FixedLength \in Nat \ {0}
    BY HashAssumption
  <2>2. CASE Hash[k] >= 0
    BY <2>1, <2>2 DEF Fixed!Index
  <2>3. CASE ~(Hash[k] >= 0)
    <3>1. (-Hash[k]) % FixedLength \in Nat
      BY <2>1, <2>3
    <3>2. QED
      BY <3>1, <2>1, <2>3 DEF Fixed!Index
  <2>4. QED
    BY <2>2, <2>3
<1>2. ASSUME NEW k \in Indexed PROVE k \in Keys /\ Fixed!Index(k) \in 0 .. FixedLength - 1
  BY <1>1, HashAssumption DEF Indexed
<1>3. QED
  BY <1>1, <1>2

\* The key of a chain is one of the map, with its value.
LEMMA MapFacts == ASSUME NEW c \in Chains, WellChained(c)
                  PROVE  /\ DOMAIN MapOf(c) \in SUBSET Indexed
                         /\ \A k \in Indexed : /\ k \in DOMAIN MapOf(c) <=> k \in DOMAIN TableOf(c[Fixed!Index(k)])
                                               /\ ReadFrom(c[Fixed!Index(k)], k) = Map!Old(MapOf(c), k)
<1>1. ASSUME NEW i \in 0 .. FixedLength - 1 PROVE DOMAIN TableOf(c[i]) \in SUBSET Keys
  BY <1>1, Reads DEF WellChained, Chains
<1>2. DOMAIN MapOf(c) \in SUBSET Indexed
  <2>1. ASSUME NEW i \in 0 .. FixedLength - 1, NEW k \in DOMAIN TableOf(c[i]) PROVE k \in Indexed
    BY <2>1, <1>1 DEF WellChained, Indexed
  <2>2. QED
    BY <2>1 DEF MapOf
<1>3. ASSUME NEW k \in Indexed PROVE k \in DOMAIN MapOf(c) <=> k \in DOMAIN TableOf(c[Fixed!Index(k)])
  BY <1>3, IndexFacts DEF MapOf, WellChained
<1>4. ASSUME NEW k \in Indexed PROVE ReadFrom(c[Fixed!Index(k)], k) = Map!Old(MapOf(c), k)
  <2>1. c[Fixed!Index(k)] \in Seq(Pairs) /\ Distinct(c[Fixed!Index(k)])
    BY <1>4, IndexFacts DEF Chains, WellChained
  <2>2. k \notin DOMAIN TableOf(c[Fixed!Index(k)]) => ReadFrom(c[Fixed!Index(k)], k) = Null
    BY <2>1, Reads DEF Map!Old
  <2>3. QED
    BY <2>2, <1>3, <1>4 DEF Map!Old, MapOf
<1>5. QED
  BY <1>2, <1>3, <1>4

\* Its loops read the chain of the key.
LEMMA FixedIs == /\ \A k : Fixed!Found(k) = FirstOf(chains[Fixed!Index(k)], k)
                 /\ \A k : Fixed!OldValue(k) = ReadFrom(chains[Fixed!Index(k)], k)
                 /\ chains \in Chains => Fixed!Table = MapOf(chains)
                 /\ chains' \in Chains => Fixed!Table' = MapOf(chains')
<1>1. \A k : Fixed!Found(k) = FirstOf(chains[Fixed!Index(k)], k)
  BY DEF Fixed!Found, Fixed!Chain, FirstOf
<1>2. \A k : Fixed!OldValue(k) = ReadFrom(chains[Fixed!Index(k)], k)
  BY DEF Fixed!OldValue, Fixed!Found, Fixed!Chain, ReadFrom, FirstOf
<1>3. ASSUME NEW c \in Chains
      PROVE  UNION {{c[i][j].key : j \in DOMAIN c[i]} : i \in 0 .. FixedLength - 1}
               = UNION {DOMAIN TableOf(c[i]) : i \in 0 .. FixedLength - 1}
  <2>1. ASSUME NEW i \in 0 .. FixedLength - 1 PROVE {c[i][j].key : j \in DOMAIN c[i]} = DOMAIN TableOf(c[i])
    BY DEF TableOf, Chains
  <2> DEFINE K(i) == {c[i][j].key : j \in DOMAIN c[i]}
             D(i) == DOMAIN TableOf(c[i])
  <2>2. \A i \in 0 .. FixedLength - 1 : K(i) = D(i)
    BY <2>1
  <2> HIDE DEF K, D
  <2>3. UNION {K(i) : i \in 0 .. FixedLength - 1} = UNION {D(i) : i \in 0 .. FixedLength - 1}
    BY <2>2
  <2>4. QED
    BY <2>3 DEF K, D
<1>4. chains \in Chains => Fixed!Table = MapOf(chains)
  BY <1>2, <1>3 DEF Fixed!Table, MapOf
<1>5. \A k : Fixed!OldValue(k)' = ReadFrom(chains'[Fixed!Index(k)], k)
  BY DEF Fixed!OldValue, Fixed!Found, Fixed!Chain, ReadFrom, FirstOf, Fixed!Index
<1>6. chains' \in Chains => Fixed!Table' = MapOf(chains')
  BY <1>5, <1>3 DEF Fixed!Table, MapOf
<1>7. QED
  BY <1>1, <1>2, <1>4, <1>6

\* The chain at an index is replaced.
Rehung(c, i, t) == [c EXCEPT ![i] = t]

\* What a call makes of the chain of its key it makes of the map.
LEMMA ChainChanges == ASSUME NEW c \in Chains, WellChained(c), NEW key \in Indexed, NEW v \in Values,
                             NEW t \in Seq(Pairs), Distinct(t),
                             \/ TableOf(t) = Added(TableOf(c[Fixed!Index(key)]), key, v)
                             \/ TableOf(t) = Without(TableOf(c[Fixed!Index(key)]), key)
                      PROVE  LET d == Rehung(c, Fixed!Index(key), t) IN
                             /\ d \in Chains /\ WellChained(d)
                             /\ TableOf(t) = Added(TableOf(c[Fixed!Index(key)]), key, v)
                                  => MapOf(d) = Added(MapOf(c), key, v)
                             /\ TableOf(t) = Without(TableOf(c[Fixed!Index(key)]), key)
                                  => MapOf(d) = Without(MapOf(c), key)
<1> DEFINE i == Fixed!Index(key)
           d == Rehung(c, i, t)
<1>1. key \in Keys /\ i \in 0 .. FixedLength - 1
  BY IndexFacts
<1>2. d \in Chains /\ d[i] = t /\ \A j \in 0 .. FixedLength - 1 : j # i => d[j] = c[j]
  BY <1>1 DEF Chains, Rehung
<1>3. /\ DOMAIN TableOf(t) \subseteq DOMAIN TableOf(c[i]) \cup {key}
      /\ \A x : x # key => /\ x \in DOMAIN TableOf(t) <=> x \in DOMAIN TableOf(c[i])
                           /\ Map!Old(TableOf(t), x) = Map!Old(TableOf(c[i]), x)
  BY DEF Added, Without, Map!Old
<1> HIDE DEF d
<1>4. WellChained(d)
  <2>1. \A x \in DOMAIN TableOf(t) : Fixed!Index(x) = i
    BY <1>1, <1>3 DEF WellChained
  <2> HIDE DEF i
  <2>2. QED
    BY <1>2, <2>1 DEF WellChained
<1>5. /\ DOMAIN MapOf(c) \in SUBSET Indexed /\ DOMAIN MapOf(d) \in SUBSET Indexed
      /\ \A x \in Indexed : /\ x \in DOMAIN MapOf(c) <=> x \in DOMAIN TableOf(c[Fixed!Index(x)])
                            /\ ReadFrom(c[Fixed!Index(x)], x) = Map!Old(MapOf(c), x)
                            /\ x \in DOMAIN MapOf(d) <=> x \in DOMAIN TableOf(d[Fixed!Index(x)])
                            /\ ReadFrom(d[Fixed!Index(x)], x) = Map!Old(MapOf(d), x)
  BY <1>2, <1>4, MapFacts
<1>6. \A x : /\ ReadFrom(t, x) = Map!Old(TableOf(t), x)
             /\ ReadFrom(c[i], x) = Map!Old(TableOf(c[i]), x)
  <2>1. c[i] \in Seq(Pairs) /\ Distinct(c[i])
    BY <1>1 DEF Chains, WellChained
  <2>2. QED
    BY <2>1, Reads
<1>7. ASSUME NEW x \in Indexed, x # key
      PROVE  /\ x \in DOMAIN MapOf(d) <=> x \in DOMAIN MapOf(c)
             /\ Map!Old(MapOf(d), x) = Map!Old(MapOf(c), x)
  <2>1. CASE Fixed!Index(x) = i
    BY <1>2, <1>3, <1>5, <1>6, <1>7, <2>1
  <2>2. CASE Fixed!Index(x) # i
    <3>1. d[Fixed!Index(x)] = c[Fixed!Index(x)]
      BY <2>2, <1>2, <1>7, IndexFacts
    <3>2. QED
      BY <3>1, <1>5, <1>7
  <2>3. QED
    BY <2>1, <2>2
<1>8. /\ key \in DOMAIN MapOf(d) <=> key \in DOMAIN TableOf(t)
      /\ Map!Old(MapOf(d), key) = Map!Old(TableOf(t), key)
  BY <1>2, <1>5, <1>6
<1>9. ASSUME TableOf(t) = Added(TableOf(c[i]), key, v) PROVE MapOf(d) = Added(MapOf(c), key, v)
  <2>1. key \in DOMAIN MapOf(d) /\ Map!Old(MapOf(d), key) = v
    BY <1>8, <1>9 DEF Added, Map!Old
  <2>2. DOMAIN MapOf(d) = DOMAIN MapOf(c) \cup {key}
    BY <2>1, <1>5, <1>7
  <2>3. ASSUME NEW x \in DOMAIN MapOf(d) PROVE MapOf(d)[x] = IF x = key THEN v ELSE MapOf(c)[x]
    <3>1. MapOf(d)[x] = Map!Old(MapOf(d), x)
      BY <2>3 DEF Map!Old
    <3>2. x # key => MapOf(c)[x] = Map!Old(MapOf(c), x)
      BY <2>2, <2>3 DEF Map!Old
    <3>3. QED
      BY <3>1, <3>2, <2>1, <1>5, <1>7, <2>3
  <2>4. MapOf(d) = [x \in DOMAIN MapOf(d) |-> MapOf(d)[x]]
    BY DEF MapOf
  <2>5. QED
    BY <2>2, <2>3, <2>4 DEF Added
<1>10. ASSUME TableOf(t) = Without(TableOf(c[i]), key) PROVE MapOf(d) = Without(MapOf(c), key)
  <2>1. key \notin DOMAIN MapOf(d)
    BY <1>8, <1>10 DEF Without
  <2>2. DOMAIN MapOf(d) = DOMAIN MapOf(c) \ {key}
    BY <2>1, <1>5, <1>7
  <2>3. ASSUME NEW x \in DOMAIN MapOf(d) PROVE MapOf(d)[x] = MapOf(c)[x]
    <3>1. MapOf(d)[x] = Map!Old(MapOf(d), x) /\ MapOf(c)[x] = Map!Old(MapOf(c), x) /\ x # key /\ x \in Indexed
      BY <2>2, <2>3, <1>5 DEF Map!Old
    <3>2. QED
      BY <3>1, <1>7
  <2>4. MapOf(d) = [x \in DOMAIN MapOf(d) |-> MapOf(d)[x]]
    BY DEF MapOf
  <2>5. QED
    BY <2>2, <2>3, <2>4 DEF Without
<1>11. QED
  BY <1>2, <1>4, <1>9, <1>10 DEF d

\* What is known of the chain of a key.
LEMMA ChainFacts == ASSUME FixedInv, NEW key \in Indexed
                    PROVE  LET s == chains[Fixed!Index(key)] IN
                           /\ Fixed!Index(key) >= 0 /\ Fixed!Table = MapOf(chains)
                           /\ s \in Seq(Pairs) /\ Distinct(s) /\ Fixed!Found(key) = FirstOf(s, key)
                           /\ FirstOf(s, key) = {} <=> key \notin DOMAIN MapOf(chains)
                           /\ key \notin DOMAIN MapOf(chains) <=> key \notin DOMAIN TableOf(s)
                           /\ Fixed!OldValue(key) = Map!Old(Fixed!Table, key)
<1> DEFINE s == chains[Fixed!Index(key)]
<1>1. s \in Seq(Pairs) /\ Distinct(s) /\ Fixed!Index(key) >= 0
  BY IndexFacts DEF FixedInv, Chains, WellChained
<1>2. /\ Fixed!Table = MapOf(chains) /\ Fixed!Found(key) = FirstOf(s, key)
      /\ Fixed!OldValue(key) = ReadFrom(s, key)
  BY FixedIs DEF FixedInv
<1>3. /\ ReadFrom(s, key) = Map!Old(MapOf(chains), key)
      /\ key \in DOMAIN MapOf(chains) <=> key \in DOMAIN TableOf(s)
  BY MapFacts DEF FixedInv
<1>4. FirstOf(s, key) = {} <=> key \notin DOMAIN TableOf(s)
  BY <1>1, Reads
<1>5. QED
  BY <1>1, <1>2, <1>3, <1>4

\* A call with a key of negative index throws and leaves the map alone.
LEMMA FixedThrows == ASSUME FixedInv, NEW key \in Keys \ Indexed,
                            (Fixed!Throws(key) \/ Fixed!Index(key) >= 0)
                     PROVE  /\ FixedInv' /\ Fixed!Table' = Fixed!Table /\ fixedAnswer' = Exception
<1>1. Fixed!Throws(key)
  BY DEF Indexed
<1>2. UNCHANGED <<chains, fixedSize>> /\ fixedAnswer' = Exception
  BY <1>1 DEF Fixed!Throws
<1>3. FixedInv'
  BY <1>2 DEF FixedInv, WellChained, MapOf
<1>4. Fixed!Table' = Fixed!Table
  BY <1>2, <1>3, FixedIs DEF FixedInv
<1>5. QED
  BY <1>2, <1>3, <1>4

\* put is Put of the finite map.
LEMMA FixedPut == ASSUME FixedInv, NEW key \in Indexed, NEW v \in Values, Fixed!Put(key, v)
                  PROVE  /\ FixedInv' /\ Fixed!Table' = Added(Fixed!Table, key, v)
                         /\ fixedAnswer' = Map!Old(Fixed!Table, key)
<1> DEFINE i == Fixed!Index(key)
           s == chains[i]
<1>1. /\ key \in Keys /\ i \in 0 .. FixedLength - 1 /\ Fixed!Table = MapOf(chains)
      /\ s \in Seq(Pairs) /\ Distinct(s) /\ Fixed!Found(key) = FirstOf(s, key)
      /\ FirstOf(s, key) = {} <=> key \notin DOMAIN MapOf(chains)
      /\ FirstOf(s, key) = {} <=> key \notin DOMAIN TableOf(s)
      /\ Fixed!OldValue(key) = Map!Old(Fixed!Table, key) /\ chains \in Chains /\ WellChained(chains)
  BY ChainFacts, IndexFacts DEF FixedInv
<1>2. /\ ~Fixed!Throws(key) /\ fixedAnswer' = Map!Old(Fixed!Table, key)
  BY <1>1 DEF Fixed!Put, Fixed!Throws
<1>3. ASSUME NEW t \in Seq(Pairs), Distinct(t), TableOf(t) = Added(TableOf(s), key, v), chains' = Rehung(chains, i, t)
      PROVE  chains' \in Chains /\ WellChained(chains') /\ MapOf(chains') = Added(MapOf(chains), key, v)
  BY <1>1, <1>3, ChainChanges
<1>4. CASE FirstOf(s, key) = {} /\ fixedSize' = fixedSize + 1
           /\ chains' = [chains EXCEPT ![i] = Append(@, [key |-> key, value |-> v])]
  <2> DEFINE t == Append(s, [key |-> key, value |-> v])
  <2>1. t \in Seq(Pairs) /\ Distinct(t) /\ TableOf(t) = Added(TableOf(s), key, v)
    BY <1>1, <1>4, Appends
  <2>2. chains' = Rehung(chains, i, t)
    BY <1>4 DEF Rehung
  <2> HIDE DEF t
  <2>3. chains' \in Chains /\ WellChained(chains') /\ MapOf(chains') = Added(MapOf(chains), key, v)
    BY <2>1, <2>2, <1>3
  <2>4. DOMAIN MapOf(chains') = DOMAIN MapOf(chains) \cup {key} /\ key \notin DOMAIN MapOf(chains)
    BY <2>3, <1>1, <1>4 DEF Added
  <2>5. FixedInv'
    BY <2>3, <2>4, <1>4, FS_AddElement DEF FixedInv
  <2>6. QED
    BY <2>3, <2>5, <1>1, <1>2, FixedIs
<1>5. CASE (\E j \in FirstOf(s, key) : chains' = [chains EXCEPT ![i][j].value = v]) /\ UNCHANGED fixedSize
  <2>1. PICK j \in FirstOf(s, key) : chains' = [chains EXCEPT ![i][j].value = v]
    BY <1>5
  <2> DEFINE t == Updated(s, j, v)
  <2>2. t \in Seq(Pairs) /\ Distinct(t) /\ TableOf(t) = Added(TableOf(s), key, v)
    BY <1>1, Updates
  <2>3. chains' = Rehung(chains, i, t)
    BY <2>1 DEF Rehung, Updated
  <2> HIDE DEF t
  <2>4. chains' \in Chains /\ WellChained(chains') /\ MapOf(chains') = Added(MapOf(chains), key, v)
    BY <2>2, <2>3, <1>3
  <2>5. DOMAIN MapOf(chains') = DOMAIN MapOf(chains)
    BY <2>4, <1>1 DEF Added
  <2>6. FixedInv'
    BY <2>4, <2>5, <1>5 DEF FixedInv
  <2>7. QED
    BY <2>4, <2>6, <1>1, <1>2, FixedIs
<1>6. QED
  BY <1>1, <1>2, <1>4, <1>5 DEF Fixed!Put

\* get is Get of the finite map.
LEMMA FixedGet == ASSUME FixedInv, NEW key \in Indexed, Fixed!Get(key)
                  PROVE  /\ FixedInv' /\ Fixed!Table' = Fixed!Table
                         /\ fixedAnswer' = Map!Old(Fixed!Table, key)
<1>1. Fixed!Index(key) >= 0 /\ Fixed!Index(key) \in Int /\ Fixed!OldValue(key) = Map!Old(Fixed!Table, key)
  BY ChainFacts, IndexFacts
<1>2. UNCHANGED <<chains, fixedSize>> /\ fixedAnswer' = Map!Old(Fixed!Table, key)
  BY <1>1 DEF Fixed!Get, Fixed!Throws
<1>3. FixedInv'
  BY <1>2 DEF FixedInv, WellChained, MapOf
<1>4. Fixed!Table' = Fixed!Table
  BY <1>2, <1>3, FixedIs DEF FixedInv
<1>5. QED
  BY <1>2, <1>3, <1>4

\* remove is Remove of the finite map.
LEMMA FixedRemove == ASSUME FixedInv, NEW key \in Indexed, Fixed!Remove(key)
                     PROVE  /\ FixedInv' /\ Fixed!Table' = Without(Fixed!Table, key)
                            /\ fixedAnswer' = Map!Old(Fixed!Table, key)
<1> DEFINE i == Fixed!Index(key)
           s == chains[i]
<1>1. /\ key \in Keys /\ i \in 0 .. FixedLength - 1 /\ Fixed!Table = MapOf(chains)
      /\ s \in Seq(Pairs) /\ Distinct(s) /\ Fixed!Found(key) = FirstOf(s, key)
      /\ FirstOf(s, key) = {} <=> key \notin DOMAIN MapOf(chains)
      /\ Fixed!OldValue(key) = Map!Old(Fixed!Table, key) /\ chains \in Chains /\ WellChained(chains)
  BY ChainFacts, IndexFacts DEF FixedInv
<1>2. /\ ~Fixed!Throws(key) /\ fixedAnswer' = Map!Old(Fixed!Table, key)
  BY <1>1 DEF Fixed!Remove, Fixed!Throws
<1>3. CASE FirstOf(s, key) = {} /\ UNCHANGED <<chains, fixedSize>>
  <2>1. Without(MapOf(chains), key) = MapOf(chains)
    BY <1>1, <1>3 DEF Without, MapOf
  <2>2. FixedInv'
    BY <1>3 DEF FixedInv, WellChained, MapOf
  <2>3. QED
    BY <2>1, <2>2, <1>1, <1>2, <1>3, FixedIs DEF FixedInv
<1>4. CASE \E j \in FirstOf(s, key) : /\ chains' = [chains EXCEPT ![i] = SubSeq(@, 1, j - 1) \o SubSeq(@, j + 1, Len(@))]
                                      /\ fixedSize' = fixedSize - 1
  <2>1. PICK j \in FirstOf(s, key) : /\ chains' = [chains EXCEPT ![i] = SubSeq(@, 1, j - 1) \o SubSeq(@, j + 1, Len(@))]
                                     /\ fixedSize' = fixedSize - 1
    BY <1>4
  <2> DEFINE t == SubSeq(s, 1, j - 1) \o SubSeq(s, j + 1, Len(s))
  <2>2. t \in Seq(Pairs) /\ Distinct(t) /\ TableOf(t) = Without(TableOf(s), key)
    BY <1>1, Drops
  <2>3. chains' = Rehung(chains, i, t)
    BY <2>1 DEF Rehung
  <2> HIDE DEF t
  <2>4. PICK v \in Values : TRUE
    <3>1. s[j] \in Pairs
      BY <1>1 DEF FirstOf
    <3>2. QED
      BY <3>1 DEF Pairs
  <2>5. chains' \in Chains /\ WellChained(chains') /\ MapOf(chains') = Without(MapOf(chains), key)
    BY <2>2, <2>3, <2>4, <1>1, ChainChanges
  <2>6. DOMAIN MapOf(chains') = DOMAIN MapOf(chains) \ {key} /\ key \in DOMAIN MapOf(chains)
    BY <2>5, <2>1, <1>1 DEF Without
  <2>7. FixedInv'
    BY <2>1, <2>5, <2>6, FS_RemoveElement DEF FixedInv
  <2>8. QED
    BY <2>5, <2>7, <1>1, <1>2, FixedIs
<1>5. QED
  BY <1>1, <1>2, <1>3, <1>4 DEF Fixed!Remove

-----------------------------------------------------------------------------
(* The three maps *)

\* What a map with keys of any index leaves of another map.
Narrow(t) == [k \in DOMAIN t \cap Indexed |-> t[k]]

\* A key that has an index is added to both and taken from both; another changes nothing.
LEMMA Narrows == ASSUME NEW t, t = [k \in DOMAIN t |-> t[k]], NEW key, NEW v
                 PROVE  /\ key \in Indexed => /\ Narrow(Added(t, key, v)) = Added(Narrow(t), key, v)
                                              /\ Narrow(Without(t, key)) = Without(Narrow(t), key)
                                              /\ Map!Old(Narrow(t), key) = Map!Old(t, key)
                        /\ key \notin Indexed => /\ Narrow(Added(t, key, v)) = Narrow(t)
                                                 /\ Narrow(Without(t, key)) = Narrow(t)
<1>1. ASSUME key \in Indexed
      PROVE  /\ Narrow(Added(t, key, v)) = Added(Narrow(t), key, v)
             /\ Narrow(Without(t, key)) = Without(Narrow(t), key)
             /\ Map!Old(Narrow(t), key) = Map!Old(t, key)
  <2>1. Narrow(Added(t, key, v)) = Added(Narrow(t), key, v)
    BY <1>1 DEF Narrow, Added
  <2>2. Narrow(Without(t, key)) = Without(Narrow(t), key)
    BY <1>1 DEF Narrow, Without
  <2>3. Map!Old(Narrow(t), key) = Map!Old(t, key)
    BY <1>1 DEF Narrow, Map!Old
  <2>4. QED
    BY <2>1, <2>2, <2>3
<1>2. ASSUME key \notin Indexed
      PROVE  Narrow(Added(t, key, v)) = Narrow(t) /\ Narrow(Without(t, key)) = Narrow(t)
  <2>1. Narrow(Added(t, key, v)) = Narrow(t)
    BY <1>2 DEF Narrow, Added
  <2>2. Narrow(Without(t, key)) = Narrow(t)
    BY <1>2 DEF Narrow, Without
  <2>3. QED
    BY <2>1, <2>2
<1>3. QED
  BY <1>1, <1>2

\* The three hold the same and answer the same.
Same == /\ Array!Table = Dynamic!Table /\ Len(pairs) = dynamicSize /\ arrayAnswer = dynamicAnswer
        /\ Fixed!Table = Narrow(Dynamic!Table) /\ fixedAnswer \in {dynamicAnswer, Exception}

IInv == DynamicInv /\ ArrayInv /\ FixedInv /\ Same

\* Empty maps.
LEMMA InitIInv == Init => IInv /\ Map!Init
<1> SUFFICES ASSUME Init PROVE IInv /\ Map!Init
  OBVIOUS
<1> USE DEF Init
<1>1. /\ heads = [i \in 0 .. InitialLength - 1 |-> Null] /\ length = InitialLength /\ length \in Nat \ {0}
      /\ next = [k \in Keys |-> Null] /\ value = [k \in Keys |-> Null] /\ dynamicSize = 0
      /\ newHeads = [i \in {} |-> Null] /\ slot = 0 /\ current = Null /\ dynamicAnswer = Null
  BY HashAssumption DEF Dynamic!Init, Dynamic!NoArray
<1>2. DynamicTypes
  BY <1>1 DEF DynamicTypes, Refs
<1>3. Dynamic!Starts \subseteq {Null}
  BY <1>1 DEF Dynamic!Starts
<1>4. Present = {}
  <2>1. Present \subseteq {}
    BY <1>2, <1>3, Basics, Least DEF Present, DynamicTypes
  <2>2. QED
    BY <2>1
<1>5. Shape
  BY <1>1 DEF Shape, Fresh, InSlots, Dynamic!ReferredOnce, Dynamic!Starts, Dynamic!Ready, Dynamic!NoArray
<1>6. Counted
  BY <1>1, <1>4, FS_EmptySet DEF Counted
<1>7. Dynamic!Table = [k \in {} |-> Null]
  BY <1>4 DEF Dynamic!Table, Present, Nodes
<1>8. ArrayInv /\ Array!Table = [k \in {} |-> Null] /\ Len(pairs) = 0 /\ arrayAnswer = Null
  <2>1. pairs = <<>> /\ arrayAnswer = Null /\ pairs \in Seq(Pairs) /\ Len(pairs) = 0
    BY DEF Array!Init
  <2>2. Distinct(pairs) /\ TableOf(pairs) = [k \in {} |-> Null]
    BY <2>1 DEF Distinct, TableOf
  <2>3. QED
    BY <2>1, <2>2, ArrayIs DEF ArrayInv
<1>9. FixedInv /\ Fixed!Table = [k \in {} |-> Null] /\ fixedAnswer = Null
  <2>1. chains = [i \in 0 .. FixedLength - 1 |-> <<>>] /\ fixedSize = 0 /\ fixedAnswer = Null
    BY DEF Fixed!Init
  <2>2. \A i \in 0 .. FixedLength - 1 : /\ chains[i] = <<>> /\ Distinct(chains[i]) /\ DOMAIN TableOf(chains[i]) = {}
    BY <2>1 DEF Distinct, TableOf
  <2>3. chains \in Chains /\ WellChained(chains) /\ MapOf(chains) = [k \in {} |-> Null]
    <3>1. chains \in Chains /\ WellChained(chains)
      BY <2>1, <2>2 DEF Chains, WellChained
    <3>2. UNION {DOMAIN TableOf(chains[i]) : i \in 0 .. FixedLength - 1} = {}
      BY <2>2
    <3>3. QED
      BY <3>1, <3>2 DEF MapOf
  <2>4. DOMAIN MapOf(chains) = {}
    BY <2>3
  <2>5. FixedInv
    BY <2>1, <2>3, <2>4, FS_EmptySet DEF FixedInv
  <2>6. QED
    BY <2>1, <2>3, <2>5, FixedIs
<1>10. Narrow(Dynamic!Table) = [k \in {} |-> Null]
  BY <1>7 DEF Narrow
<1>11. Same
  BY <1>1, <1>7, <1>8, <1>9, <1>10 DEF Same
<1>12. Map!Init
  BY <1>1, <1>7 DEF Map!Init
<1>13. QED
  BY <1>2, <1>5, <1>6, <1>8, <1>9, <1>11, <1>12 DEF IInv, DynamicInv

\* What leaves a list or the chains alone leaves their map alone.
LEMMA OthersStay == /\ ArrayInv /\ UNCHANGED pairs => ArrayInv' /\ Array!Table' = Array!Table
                    /\ FixedInv /\ UNCHANGED <<chains, fixedSize>> => FixedInv' /\ Fixed!Table' = Fixed!Table
<1>1. ASSUME ArrayInv, UNCHANGED pairs PROVE ArrayInv' /\ Array!Table' = Array!Table
  BY <1>1, ArrayIs DEF ArrayInv
<1>2. ASSUME FixedInv, UNCHANGED <<chains, fixedSize>> PROVE FixedInv' /\ Fixed!Table' = Fixed!Table
  <2>1. FixedInv'
    BY <1>2 DEF FixedInv, WellChained, MapOf
  <2>2. QED
    BY <1>2, <2>1, FixedIs DEF FixedInv
<1>3. QED
  BY <1>1, <1>2

\* Each step is a step of the finite map, or none, and leaves the maps the same.
LEMMA NextIInv == IInv /\ [Next]_vars => IInv' /\ [Map!Next]_<<Dynamic!Table, dynamicAnswer>>
<1> SUFFICES ASSUME IInv, [Next]_vars PROVE IInv' /\ [Map!Next]_<<Dynamic!Table, dynamicAnswer>>
  OBVIOUS
<1> DEFINE table == Dynamic!Table
<1>1. /\ DynamicInv /\ ArrayInv /\ FixedInv /\ Len(pairs) = dynamicSize /\ Array!Table = table
      /\ arrayAnswer = dynamicAnswer /\ Fixed!Table = Narrow(table) /\ fixedAnswer \in {dynamicAnswer, Exception}
  BY DEF IInv, Same
<1>2. table = [k \in DOMAIN table |-> table[k]]
  BY DEF Dynamic!Table
<1>3. CASE Expand
  <2>1. DynamicInv' /\ Dynamic!Table' = table /\ dynamicAnswer' = dynamicAnswer /\ dynamicSize' = dynamicSize
    BY <1>1, <1>3, DynamicExpand DEF Expand
  <2>2. UNCHANGED <<pairs, arrayAnswer, chains, fixedSize, fixedAnswer>>
    BY <1>3 DEF Expand, arrayVars, fixedVars
  <2>3. ArrayInv' /\ Array!Table' = Array!Table /\ FixedInv' /\ Fixed!Table' = Fixed!Table
    BY <1>1, <2>2, OthersStay
  <2> HIDE DEF table
  <2>4. Same'
    BY <1>1, <2>1, <2>2, <2>3 DEF Same, Narrow, Indexed, Fixed!Index
  <2>5. QED
    BY <2>1, <2>3, <2>4 DEF IInv, table
<1>4. ASSUME NEW key \in Keys, Get(key) PROVE IInv' /\ [Map!Next]_<<Dynamic!Table, dynamicAnswer>>
  <2>1. /\ DynamicInv' /\ Dynamic!Table' = table /\ dynamicAnswer' = Map!Old(table, key)
        /\ dynamicSize' = dynamicSize
    BY <1>1, <1>4, DynamicGet DEF Get
  <2>2. ArrayInv' /\ Array!Table' = Array!Table /\ arrayAnswer' = Map!Old(Array!Table, key) /\ Len(pairs') = Len(pairs)
    BY <1>1, <1>4, OthersStay, ArrayIs, Reads DEF Get, Array!Get, ArrayInv
  <2>3. /\ FixedInv' /\ Fixed!Table' = Fixed!Table
        /\ fixedAnswer' \in {Map!Old(table, key), Exception}
    <3>1. CASE key \in Indexed
      BY <3>1, <1>1, <1>2, <1>4, FixedGet, Narrows DEF Get
    <3>2. CASE key \notin Indexed
      BY <3>2, <1>1, <1>4, FixedThrows DEF Get, Fixed!Get
    <3>3. QED
      BY <3>1, <3>2
  <2>4. Map!Next
    BY <2>1 DEF Map!Next, Map!Get
  <2> HIDE DEF table
  <2>5. Same'
    BY <1>1, <2>1, <2>2, <2>3 DEF Same, Narrow, Indexed, Fixed!Index
  <2>6. QED
    BY <2>1, <2>2, <2>3, <2>4, <2>5 DEF IInv
<1>5. ASSUME NEW key \in Keys, Remove(key) PROVE IInv' /\ [Map!Next]_<<Dynamic!Table, dynamicAnswer>>
  <2>1. /\ DynamicInv' /\ Dynamic!Table' = Without(table, key) /\ dynamicAnswer' = Map!Old(table, key)
        /\ dynamicSize' = IF key \in DOMAIN table THEN dynamicSize - 1 ELSE dynamicSize
    BY <1>1, <1>5, DynamicRemove DEF Remove
  <2>2. /\ ArrayInv' /\ Array!Table' = Without(Array!Table, key) /\ arrayAnswer' = Map!Old(Array!Table, key)
        /\ Len(pairs') = IF key \in DOMAIN Array!Table THEN Len(pairs) - 1 ELSE Len(pairs)
    BY <1>1, <1>5, ArrayRemove DEF Remove
  <2>3. /\ FixedInv' /\ Fixed!Table' = Narrow(Without(table, key))
        /\ fixedAnswer' \in {Map!Old(table, key), Exception}
    <3>1. CASE key \in Indexed
      BY <3>1, <1>1, <1>2, <1>5, FixedRemove, Narrows DEF Remove
    <3>2. CASE key \notin Indexed
      BY <3>2, <1>1, <1>2, <1>5, FixedThrows, Narrows DEF Remove, Fixed!Remove
    <3>3. QED
      BY <3>1, <3>2
  <2>4. Map!Next
    BY <2>1 DEF Map!Next, Map!Remove, Without
  <2> HIDE DEF table
  <2>5. Same'
    BY <1>1, <2>1, <2>2, <2>3 DEF Same, Narrow, Indexed, Fixed!Index
  <2>6. QED
    BY <2>1, <2>2, <2>3, <2>4, <2>5 DEF IInv
<1>6. ASSUME NEW key \in Keys, NEW v \in Values, Put(key, v) PROVE IInv' /\ [Map!Next]_<<Dynamic!Table, dynamicAnswer>>
  <2>1. /\ DynamicInv' /\ Dynamic!Table' = Added(table, key, v) /\ dynamicAnswer' = Map!Old(table, key)
        /\ dynamicSize' = IF key \in DOMAIN table THEN dynamicSize ELSE dynamicSize + 1
    BY <1>1, <1>6, DynamicPut DEF Put
  <2>2. /\ ArrayInv' /\ Array!Table' = Added(Array!Table, key, v) /\ arrayAnswer' = Map!Old(Array!Table, key)
        /\ Len(pairs') = IF key \in DOMAIN Array!Table THEN Len(pairs) ELSE Len(pairs) + 1
    BY <1>1, <1>6, ArrayPut DEF Put
  <2>3. /\ FixedInv' /\ Fixed!Table' = Narrow(Added(table, key, v))
        /\ fixedAnswer' \in {Map!Old(table, key), Exception}
    <3>1. CASE key \in Indexed
      BY <3>1, <1>1, <1>2, <1>6, FixedPut, Narrows DEF Put
    <3>2. CASE key \notin Indexed
      BY <3>2, <1>1, <1>2, <1>6, FixedThrows, Narrows DEF Put, Fixed!Put
    <3>3. QED
      BY <3>1, <3>2
  <2>4. Map!Next
    BY <2>1 DEF Map!Next, Map!Put, Added
  <2> HIDE DEF table
  <2>5. Same'
    BY <1>1, <2>1, <2>2, <2>3 DEF Same, Narrow, Indexed, Fixed!Index
  <2>6. QED
    BY <2>1, <2>2, <2>3, <2>4, <2>5 DEF IInv
<1>7. CASE UNCHANGED vars
  <2>1. /\ UNCHANGED <<heads, length, next, value, dynamicSize, newHeads, slot, current>>
        /\ UNCHANGED <<pairs, arrayAnswer, chains, fixedSize, fixedAnswer, dynamicAnswer>>
    BY <1>7 DEF vars, arrayVars, fixedVars, dynamicVars
  <2>2. DynamicInv' /\ Dynamic!Table' = table
    BY <1>1, <2>1, DynamicStays
  <2>3. ArrayInv' /\ Array!Table' = Array!Table /\ FixedInv' /\ Fixed!Table' = Fixed!Table
    BY <1>1, <2>1, OthersStay
  <2> HIDE DEF table
  <2>4. Same'
    BY <1>1, <2>1, <2>2, <2>3 DEF Same, Narrow, Indexed, Fixed!Index
  <2>5. QED
    BY <2>1, <2>2, <2>3, <2>4 DEF IInv, table
<1>8. QED
  BY <1>3, <1>4, <1>5, <1>6, <1>7 DEF Next

\* The invariant says what AllAgree says.
LEMMA IInvAgrees == IInv => AllAgree
<1> SUFFICES ASSUME IInv PROVE AllAgree
  OBVIOUS
<1> DEFINE table == Dynamic!Table
<1>1. DynamicInv /\ ArrayInv /\ FixedInv /\ Same
  BY DEF IInv
<1>2. DOMAIN table = Present /\ IsFiniteSet(Present) /\ dynamicSize = Cardinality(Present)
  BY <1>1 DEF DynamicInv, Counted, Dynamic!Table, Present, Nodes
<1>3. DOMAIN Narrow(table) = DOMAIN table \cap Indexed /\ Fixed!Table = MapOf(chains)
  BY <1>1, FixedIs DEF Narrow, FixedInv
<1>4. fixedSize = Cardinality(DOMAIN table \cap Indexed) /\ fixedSize \in Nat /\ dynamicSize \in Nat
  BY <1>1, <1>2, <1>3, FS_CardinalityType DEF Same, FixedInv
<1>5. TypeOK
  BY <1>1, <1>4 DEF TypeOK, DynamicInv, DynamicTypes, ArrayInv, FixedInv, Chains, Refs
<1>6. Chained
  <2>1. Dynamic!Ready => \A k \in Present : Dynamic!Contained(k)
    BY <1>1, Basics, ContainedIs DEF DynamicInv, Shape
  <2>2. QED
    BY <1>1, <1>2, <2>1 DEF Chained, DynamicInv, Shape
<1>7. Agree
  BY <1>1, <1>4 DEF Agree, Same, Narrow
<1>8. QED
  BY <1>5, <1>6, <1>7 DEF AllAgree

\* The maps of the three classes agree: whatever is put, looked up and removed, and
\* whatever nodes migrate between, the list, the chains and the growing array hold the
\* same pairs and answer the same, save the exception for a negative index (AllAgree).
THEOREM MapsAgree == Spec => []AllAgree
<1>1. Init => IInv
  BY InitIInv
<1>2. IInv /\ [Next]_vars => IInv'
  BY NextIInv
<1>3. IInv => AllAgree
  BY IInvAgrees
<1>4. QED
  BY <1>1, <1>2, <1>3, PTL DEF Spec

\* MyDynamicHashMap implements the finite map that MyHashMapInter promises, through
\* every migration: each call reads and changes it, and the nodes that move do not.
THEOREM DynamicMapIsAMap == Spec => DynamicIsAMap
<1>1. Init => IInv /\ Map!Init
  BY InitIInv
<1>2. IInv /\ [Next]_vars => IInv' /\ [Map!Next]_<<Dynamic!Table, dynamicAnswer>>
  BY NextIInv
<1>3. QED
  BY <1>1, <1>2, PTL DEF Spec, DynamicIsAMap, Map!Spec
=============================================================================
