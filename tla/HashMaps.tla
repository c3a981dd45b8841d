------------------------------ MODULE HashMaps ------------------------------
(***************************************************************************)
(* The three maps of handTearing/hashMap under the same calls.             *)
(***************************************************************************)
EXTENDS Integers, Sequences, FiniteSets

CONSTANTS Keys, Values, Null, Exception, Hash, FixedLength, InitialLength

ASSUME HashAssumption == /\ Hash \in [Keys -> Int] /\ Null \notin Keys
                         /\ FixedLength \in Nat \ {0} /\ InitialLength \in Nat \ {0}

\* The hash codes TLC is given: those of the bytes with these bits (Byte.hashCode).
ByteHash == [k \in Keys |-> IF k < 128 THEN k ELSE k - 256]

VARIABLES pairs, arrayAnswer,
          chains, fixedSize, fixedAnswer,
          heads, length, next, value, dynamicSize, dynamicAnswer, newHeads, slot, current

arrayVars == <<pairs, arrayAnswer>>
fixedVars == <<chains, fixedSize, fixedAnswer>>
dynamicVars == <<heads, length, next, value, dynamicSize, dynamicAnswer, newHeads, slot, current>>
vars == <<arrayVars, fixedVars, dynamicVars>>

Array == INSTANCE MyArrayHashMap WITH answer <- arrayAnswer
Fixed == INSTANCE MyFixedHashMap WITH Length <- FixedLength, size <- fixedSize, answer <- fixedAnswer
Dynamic == INSTANCE MyDynamicHashMap WITH size <- dynamicSize, answer <- dynamicAnswer

Init == Array!Init /\ Fixed!Init /\ Dynamic!Init

Put(key, v) == Array!Put(key, v) /\ Fixed!Put(key, v) /\ Dynamic!Put(key, v)
Get(key) == Array!Get(key) /\ Fixed!Get(key) /\ Dynamic!Get(key)
Remove(key) == Array!Remove(key) /\ Fixed!Remove(key) /\ Dynamic!Remove(key)
Expand == Dynamic!Expand /\ UNCHANGED <<arrayVars, fixedVars>>

Next == \/ Expand
        \/ \E key \in Keys : \/ Get(key) \/ Remove(key)
                             \/ \E v \in Values : Put(key, v)

\* The loop of expandIfNeeded goes on when it can.
Spec == Init /\ [][Next]_vars /\ WF_vars(Expand)

-----------------------------------------------------------------------------
(* Properties *)

Pairs == [key : Keys, value : Values]
TypeOK == /\ pairs \in Seq(Pairs) /\ chains \in [0 .. FixedLength - 1 -> Seq(Pairs)]
          /\ fixedSize \in Nat /\ dynamicSize \in Nat /\ length \in Nat \ {0}
          /\ heads \in [0 .. length - 1 -> Keys \cup {Null}]
          /\ newHeads \in [DOMAIN newHeads -> Keys \cup {Null}]
          /\ DOMAIN newHeads \in {{}, 0 .. 2 * length - 1}
          /\ slot \in 0 .. length /\ current \in Keys \cup {Null}
          /\ next \in [Keys -> Keys \cup {Null}] /\ value \in [Keys -> Values \cup {Null}]

\* MyDynamicHashMap is a finite map: whatever was put, removed and migrated,
\* every call answers what the map says, and the migration changes nothing of it.
Map == INSTANCE FiniteMap WITH table <- Dynamic!Table, answer <- dynamicAnswer
DynamicIsAMap == Map!Spec

\* Every node hangs in the slot of its key, nothing else leads to it, and size counts the nodes.
Chained == LET table == Dynamic!Table IN
           /\ Dynamic!Ready => \A k \in DOMAIN table : Dynamic!Contained(k)
           /\ Dynamic!ReferredOnce
           /\ dynamicSize = Cardinality(DOMAIN table)

\* The other maps hold the same and answer the same; MyFixedHashMap only
\* for the keys whose index is not negative.
Indexed == {k \in Keys : Fixed!Index(k) >= 0}
Agree == LET table == Dynamic!Table IN
         /\ Array!Table = table /\ Len(pairs) = dynamicSize
         /\ arrayAnswer = dynamicAnswer
         /\ Fixed!Table = [k \in DOMAIN table \cap Indexed |-> table[k]]
         /\ fixedSize = Cardinality(DOMAIN table \cap Indexed)
         /\ fixedAnswer \in {dynamicAnswer, Exception}

\* The three maps stay well formed and agree under the same calls.
AllAgree == TypeOK /\ Chained /\ Agree

\* The migration, which walks along links that it changes, comes to its end (L56).
MigrationEnds == ~Dynamic!Ready ~> Dynamic!Ready
=============================================================================
