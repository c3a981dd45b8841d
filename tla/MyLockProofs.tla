---------------------------- MODULE MyLockProofs ----------------------------
(***************************************************************************)
(* Mutual exclusion of MyLock for any number of threads and calls, proved   *)
(* from an inductive invariant that ties isLocked and holdThread to where   *)
(* the threads stand.  The callers may include strangers, who call unlock() *)
(* at any time; they may not include careless threads (see NotCareless).    *)
(***************************************************************************)
EXTENDS MyLock, TLAPS

\* Nobody calls unlock() a second time: holdThread still names who unlocked last
\* (L106-110), so without this the theorems are false.
NotCareless == Careless = {}

\* The part of TypeOK the argument needs.
Typed == /\ isLocked \in BOOLEAN
         /\ holdThread \in Lockers \cup {Null}
         /\ pc \in [Threads -> Labels]

\* isLocked is up exactly while some thread owns the lock.
WordAgrees == isLocked <=> \E t \in Threads : Owns(t)

\* From the write of holdThread to the release, holdThread is the owner.
HolderRecorded == \A t \in Threads :
                    pc[t] \in {"cut", "setHead", "critical", "release"} => holdThread = t

\* A stranger never gets past the check of unlock().
StrangersIdle == \A t \in Strangers : pc[t] = "idle"

IInv == Typed /\ WordAgrees /\ MutualExclusion /\ HolderRecorded /\ StrangersIdle

\* The initial state: nobody owns anything.
LEMMA InitIInv == Init => IInv
  BY LockAssumption DEF Init, IInv, Typed, WordAgrees, MutualExclusion, HolderRecorded,
                        StrangersIdle, Owns, Inside, Threads, Labels

\* Every step keeps the invariant, one case per action.
LEMMA NextIInv == ASSUME NotCareless, IInv, [Next]_vars PROVE IInv'
<1> USE LockAssumption DEF IInv, Typed, WordAgrees, MutualExclusion, HolderRecorded,
        StrangersIdle, Owns, Inside, Threads, Labels, Goto, fields
<1>1. ASSUME NEW t \in Threads, LockFair(t) PROVE IInv'
  BY <1>1 DEF LockFair, Enter
<1>2. ASSUME NEW t \in Threads, Barge(t) PROVE IInv'
  BY <1>2 DEF Barge, Enter
<1>3. ASSUME NEW t \in Threads, BargeFails(t) PROVE IInv'
  BY <1>3 DEF BargeFails, Enter
<1>4. ASSUME NEW t \in Threads, BargeHold(t) PROVE IInv'
  BY <1>4 DEF BargeHold
<1>5. ASSUME NEW t \in Threads, ReadTail(t) \/ CasTail(t) \/ CasTailFails(t) \/ Link(t)
      PROVE IInv'
  BY <1>5 DEF ReadTail, CasTail, CasTailFails, Link
<1>6. ASSUME NEW t \in Threads, ReadHead(t) PROVE IInv'
  BY <1>6 DEF ReadHead
<1>7. ASSUME NEW t \in Threads, ReadNext(t) PROVE IInv'
  BY <1>7 DEF ReadNext
<1>8. ASSUME NEW t \in Threads, CasLock(t) PROVE IInv'
  BY <1>8 DEF CasLock
<1>9. ASSUME NEW t \in Threads, CasLockFails(t) \/ Park(t) \/ SpuriousWakeup(t) PROVE IInv'
  BY <1>9 DEF CasLockFails, Park, SpuriousWakeup
<1>10. ASSUME NEW t \in Threads, SetHold(t) PROVE IInv'
  BY <1>10 DEF SetHold
<1>11. ASSUME NEW t \in Threads, Cut(t) \/ SetHead(t) PROVE IInv'
  BY <1>11 DEF Cut, SetHead
<1>12. ASSUME NEW t \in Threads, UnlockAllowed(t) PROVE IInv'
  BY <1>12, NotCareless DEF UnlockAllowed, CallsUnlock, NotCareless
<1>13. ASSUME NEW t \in Threads, UnlockRefused(t) PROVE IInv'
  BY <1>13, NotCareless DEF UnlockRefused, CallsUnlock, NotCareless
<1>14. ASSUME NEW t \in Threads, Release(t) PROVE IInv'
  BY <1>14 DEF Release
<1>15. ASSUME NEW t \in Threads, ReadHeadU(t) \/ ReadNextU(t) \/ Unpark(t) PROVE IInv'
  BY <1>15 DEF ReadHeadU, ReadNextU, Unpark
<1>16. CASE UNCHANGED vars
  BY <1>16 DEF vars
<1>17. QED
  BY <1>1, <1>2, <1>3, <1>4, <1>5, <1>6, <1>7, <1>8, <1>9, <1>10, <1>11, <1>12, <1>13,
     <1>14, <1>15, <1>16 DEF Next, Running

\* No two threads own the lock at once, whatever the number of threads and
\* calls, fair or not, as long as no thread unlocks twice.
THEOREM MutualExclusionHolds == NotCareless /\ Spec => []MutualExclusion
<1>1. IInv => MutualExclusion
  BY DEF IInv
<1>2. NotCareless /\ IInv /\ [Next]_vars => IInv'
  BY NextIInv
<1>3. ASSUME NotCareless PROVE Spec => []MutualExclusion
  BY <1>3, <1>1, <1>2, InitIInv, PTL DEF Spec
<1>4. QED
  BY <1>3

\* A thread in its critical section is never refused by its own unlock().
THEOREM HolderNeverRefused == NotCareless /\ Spec => HolderIsNotRefused
<1> DEFINE NoRefusal == \A t \in Threads : pc[t] = "critical" => pc'[t] # "idle"
<1>1. ASSUME IInv, [Next]_vars PROVE [NoRefusal]_vars
  <2>1. ASSUME NEW t \in Threads, UnlockRefused(t) PROVE NoRefusal
    BY <1>1, <2>1 DEF UnlockRefused, CallsUnlock, IInv, Typed, HolderRecorded, Labels
  <2>2. ASSUME NEW t \in Threads, UnlockAllowed(t) \/ LockFair(t) \/ Barge(t) \/ BargeFails(t)
        PROVE NoRefusal
    BY <1>1, <2>2 DEF UnlockAllowed, LockFair, Barge, BargeFails, Goto, IInv, Typed, Labels
  <2>3. ASSUME NEW t \in Threads, Running(t) \/ SpuriousWakeup(t) PROVE NoRefusal
    BY <1>1, <2>3 DEF Running, BargeHold, ReadTail, CasTail, CasTailFails, Link, ReadHead,
       ReadNext, CasLock, CasLockFails, Park, SetHold, Cut, SetHead, Release, ReadHeadU,
       ReadNextU, Unpark, SpuriousWakeup, Goto, IInv, Typed, Labels
  <2>4. QED
    BY <1>1, <2>1, <2>2, <2>3 DEF Next
<1>2. NotCareless /\ IInv /\ [Next]_vars => IInv'
  BY NextIInv
<1>3. ASSUME NotCareless PROVE Spec => [][NoRefusal]_vars
  BY <1>3, <1>1, <1>2, InitIInv, PTL DEF Spec
<1>4. QED
  BY <1>3 DEF HolderIsNotRefused

-----------------------------------------------------------------------------
(* The queue *)

\* The thread was served and has not moved head to its node yet.
Advancing(t) == pc[t] \in {"setHold", "cut", "setHead"}

\* The node of the thread served last: head, or what head is about to be.
Served == IF \E t \in Threads : Advancing(t) THEN Node(CHOOSE t \in Threads : Advancing(t)) ELSE head

\* The node before the i-th waiting thread, as tail was when that thread swung it.
Pred(i) == IF i = 1 THEN Served ELSE Node(arrivals[i - 1])

InQueue(n) == \E i \in 1 .. Len(arrivals) : n = Node(arrivals[i])

\* A node that may have been in the queue; a call makes its node when it swings tail.
Made(n) == \/ n = Dummy
           \/ n[2] < calls[n[1]]
           \/ n[2] = calls[n[1]] /\ pc[n[1]] \notin {"readTail", "casTail"}

\* arrivals are the queued threads, each once; only its first tries for the lock.
Members == /\ \A t \in Threads : Queued(t) <=> \E i \in 1 .. Len(arrivals) : arrivals[i] = t
           /\ \A i, j \in 1 .. Len(arrivals) : arrivals[i] = arrivals[j] => i = j
           /\ \A t \in Threads : pc[t] = "casLock" => arrivals # <<>> /\ arrivals[1] = t

\* The i-th thread is linked behind its predecessor, or swung tail and is about to be.
Hangs(i) == IF pc[arrivals[i]] = "link"
            THEN local[arrivals[i]] = Pred(i) /\ next[Pred(i)] = Null
            ELSE next[Pred(i)] = Node(arrivals[i]) /\ prev[Node(arrivals[i])] = Pred(i)

\* The nodes are linked in the order of arrivals, from the one served last to tail.
Linked == /\ \A i \in 1 .. Len(arrivals) : Hangs(i)
          /\ tail = Pred(Len(arrivals) + 1) /\ next[tail] = Null
          /\ \A t \in Threads : /\ Advancing(t) => head # Node(t)
                                /\ pc[t] \in {"setHold", "cut"} => prev[Node(t)] = head

\* No other node points into the queue.
NoOtherLinks == \A n \in Nodes : next[n] # Null =>
                  \/ \E i \in 1 .. Len(arrivals) : n = Pred(i) /\ next[n] = Node(arrivals[i])
                  \/ n = head /\ \E t \in Threads : pc[t] \in {"setHold", "cut"} /\ next[n] = Node(t)

\* Nodes at hand were in the queue before; what was head is in it no more.
MadeBefore == /\ Made(head) /\ Made(tail) /\ ~InQueue(head)
              /\ \A t \in Threads : /\ local[t] # Null => Made(local[t])
                                    /\ pc[t] \in {"casTail", "link", "readNext", "readNextU"} => local[t] # Null
                                    /\ pc[t] = "readNext" => ~InQueue(local[t])
                                    /\ pc[t] = "unpark" => local[t] \notin {Null, Dummy}
                                    /\ pc[t] # "idle" => t \in Lockers /\ calls[t] \in 1 .. CallsOf(t)

\* Somebody will free the lock or is on the way to wake t.
WillWake(t) == isLocked \/ \E u \in Threads : \/ pc[u] = "readHeadU"
                                              \/ pc[u] = "readNextU" /\ next[local[u]] = Node(t)
                                              \/ pc[u] = "unpark" /\ ThreadOf(local[u]) = t

\* The first of the queue goes to sleep or sleeps: it read next of a node that is head no more.
Sleepy(t) == /\ arrivals # <<>> /\ arrivals[1] = t /\ ~permit[t]
             /\ pc[t] = "park" \/ (pc[t] = "readNext" /\ local[t] # Served)

\* FirstIsWoken already when the first goes to sleep.
Woken == \A t \in Threads : Sleepy(t) => WillWake(t)

QInv == TypeOK /\ Members /\ Linked /\ NoOtherLinks /\ MadeBefore /\ Woken

\* The nodes are pairs of a locker and the number of a call, but for the dummy.
LEMMA NodeFacts == /\ \A t \in Lockers : CallsOf(t) \in Nat
                   /\ \A t \in Lockers : \A k \in 1 .. CallsOf(t) : <<t, k>> \in Nodes
                   /\ \A t \in Lockers : \A k \in Nat : <<t, k>> # Dummy
                   /\ \A n \in Nodes : n # Dummy => /\ n[1] \in Lockers /\ n[2] \in 1 .. CallsOf(n[1])
                                                    /\ n = <<n[1], n[2]>>
                   /\ Dummy \in Nodes /\ Null \notin Nodes
<1>1. \A t \in Lockers : CallsOf(t) \in Nat
  BY LockAssumption DEF CallsOf
<1>2. \A t \in Lockers : \A k \in 1 .. CallsOf(t) : <<t, k>> \in Nodes
  BY DEF Nodes
<1>3. \A t \in Lockers : \A k \in Nat : <<t, k>> # Dummy
  BY LockAssumption
<1>4. \A n \in Nodes : n # Dummy => /\ n[1] \in Lockers /\ n[2] \in 1 .. CallsOf(n[1])
                                    /\ n = <<n[1], n[2]>>
  BY DEF Nodes
<1>5. QED
  BY <1>1, <1>2, <1>3, <1>4, LockAssumption DEF Nodes

\* What Served is, without its choice: at most one thread advances.
ServedDefined == /\ \A t \in Threads : Advancing(t) => Served = Node(t)
                 /\ (\A t \in Threads : ~Advancing(t)) => Served = head

\* Mutual exclusion makes it so.
LEMMA ServedIs == IInv => ServedDefined
<1>1. ASSUME IInv, NEW t \in Threads, Advancing(t) PROVE Served = Node(t)
  <2>1. \A u \in Threads : Advancing(u) => u = t
    BY <1>1 DEF IInv, MutualExclusion, Owns, Inside, Advancing
  <2>2. (CHOOSE u \in Threads : Advancing(u)) = t
    BY <1>1, <2>1
  <2>3. QED
    BY <1>1, <2>2 DEF Served
<1>2. QED
  BY <1>1 DEF Served, ServedDefined

\* Served stays while head does and the same threads advance.
LEMMA ServedStays == ASSUME IInv, IInv', head' = head,
                            \A t \in Threads : Advancing(t)' <=> Advancing(t),
                            \A t \in Threads : Advancing(t) => calls'[t] = calls[t]
                     PROVE  Served' = Served
<1>1. ServedDefined /\ ServedDefined'
  BY ServedIs, PTL
<1>2. \A t \in Threads : Advancing(t) => Node(t)' = Node(t)
  BY DEF Node
<1>3. QED
  BY <1>1, <1>2 DEF ServedDefined

\* Steps that leave the list alone and move no thread into or out of the queue.
LEMMA QuietStep ==
  ASSUME IInv, IInv', QInv, UNCHANGED <<head, tail, next, prev, arrivals>>,
         \A t \in Threads : pc[t] # "idle" => calls'[t] = calls[t],
         \A t \in Threads : /\ Queued(t)' <=> Queued(t)
                            /\ Advancing(t)' <=> Advancing(t)
                            /\ pc'[t] = "link" <=> pc[t] = "link"
                            /\ pc[t] = "link" => local'[t] = local[t]
                            /\ pc'[t] \in {"setHold", "cut"} <=> pc[t] \in {"setHold", "cut"}
                            /\ pc'[t] = "casLock" => arrivals # <<>> /\ arrivals[1] = t
  PROVE  Served' = Served /\ Members' /\ Linked' /\ NoOtherLinks'
<1>0. /\ arrivals \in Seq(Lockers) /\ Lockers \subseteq Threads
      /\ \A i \in 1 .. Len(arrivals) : arrivals[i] \in Threads /\ Queued(arrivals[i])
  BY DEF QInv, TypeOK, Members, Threads
<1>1. Served' = Served
  BY ServedStays DEF Advancing
<1>2. \A t \in Threads : Queued(t) \/ Advancing(t) => Node(t)' = Node(t)
  BY DEF Node, Queued, Advancing
<1>3. \A i \in 1 .. Len(arrivals) + 1 : Pred(i)' = Pred(i)
  BY <1>0, <1>1, <1>2 DEF Pred
<1>4. Members'
  BY DEF QInv, Members
<1>5. Linked'
  BY <1>0, <1>2, <1>3 DEF QInv, Linked, Hangs, Advancing
<1>6. NoOtherLinks'
  BY <1>0, <1>2, <1>3 DEF QInv, NoOtherLinks, Advancing
<1>7. QED
  BY <1>1, <1>4, <1>5, <1>6

\* The node of a call under way.
LEMMA OwnNode == ASSUME QInv, NEW t \in Threads, pc[t] # "idle"
                 PROVE  t \in Lockers /\ Node(t) \in Nodes \ {Dummy} /\ Node(t)[1] = t
  BY NodeFacts DEF QInv, MadeBefore, Node

\* Every step keeps the types.
LEMMA TypeStep == ASSUME QInv, [Next]_vars PROVE TypeOK'
<1> USE DEF QInv, TypeOK, Goto, fields
<1>0. Labels = {"idle", "readTail", "casTail", "unpark", "readHeadU", "readNextU", "bargeHold", "setHold",
                "cut", "setHead", "critical", "release", "link", "readHead", "readNext", "casLock", "park"}
  BY DEF Labels, Inside
<1>1. ASSUME NEW t \in Threads, LockFair(t) \/ Barge(t) \/ BargeFails(t) PROVE TypeOK'
  <2>1. t \in Lockers /\ calls[t] < CallsOf(t) /\ calls' = [calls EXCEPT ![t] = calls[t] + 1]
    BY <1>1 DEF LockFair, Barge, BargeFails, Enter
  <2>2. calls' \in [Threads -> Nat] /\ \A u \in Lockers : calls'[u] <= CallsOf(u)
    BY <2>1, NodeFacts DEF Threads
  <2>3. QED
    BY <1>0, <1>1, <2>2 DEF LockFair, Barge, BargeFails
<1>2. ASSUME NEW t \in Threads, BargeHold(t) \/ SetHold(t) PROVE TypeOK'
  BY <1>0, <1>2, OwnNode DEF BargeHold, SetHold
<1>3. ASSUME NEW t \in Threads, ReadTail(t) \/ ReadHead(t) \/ ReadHeadU(t) PROVE TypeOK'
  BY <1>0, <1>3, ZenonT(40) DEF ReadTail, ReadHead, ReadHeadU
<1>4. ASSUME NEW t \in Threads, CasTail(t) PROVE TypeOK'
  BY <1>0, <1>4, OwnNode DEF CasTail
<1>5. ASSUME NEW t \in Threads, CasTailFails(t) \/ CasLockFails(t) \/ Park(t) \/ SpuriousWakeup(t)
      PROVE  TypeOK'
  BY <1>0, <1>5 DEF CasTailFails, CasLockFails, Park, SpuriousWakeup
<1>6. ASSUME NEW t \in Threads, Link(t) PROVE TypeOK'
  BY <1>0, <1>6, OwnNode DEF Link
<1>7. ASSUME NEW t \in Threads, ReadNext(t) PROVE TypeOK'
  BY <1>0, <1>7 DEF ReadNext
<1>8. ASSUME NEW t \in Threads, CasLock(t) PROVE TypeOK'
  BY <1>0, <1>8 DEF CasLock, Members
<1>9. ASSUME NEW t \in Threads, Cut(t) \/ SetHead(t) PROVE TypeOK'
  BY <1>0, <1>9, OwnNode DEF Cut, SetHead
<1>10. ASSUME NEW t \in Threads, UnlockAllowed(t) \/ UnlockRefused(t) \/ Release(t) PROVE TypeOK'
  BY <1>0, <1>10 DEF UnlockAllowed, UnlockRefused, Release
<1>11. ASSUME NEW t \in Threads, ReadNextU(t) PROVE TypeOK'
  BY <1>0, <1>11 DEF ReadNextU, MadeBefore
<1>12. ASSUME NEW t \in Threads, Unpark(t) PROVE TypeOK'
  BY <1>0, <1>12 DEF Unpark
<1>13. CASE UNCHANGED vars
  BY <1>13 DEF vars
<1>14. QED
  BY <1>1, <1>2, <1>3, <1>4, <1>5, <1>6, <1>7, <1>8, <1>9, <1>10, <1>11, <1>12, <1>13
     DEF Next, Running

\* Whoever waits is a locker with a node.
LEMMA Waiting == ASSUME QInv, NEW i \in 1 .. Len(arrivals)
                 PROVE  /\ arrivals[i] \in Lockers /\ arrivals[i] \in Threads /\ Queued(arrivals[i])
                        /\ pc[arrivals[i]] # "idle" /\ Node(arrivals[i]) \in Nodes \ {Dummy}
                        /\ Node(arrivals[i])[1] = arrivals[i] /\ Made(Node(arrivals[i]))
<1>1. arrivals[i] \in Lockers /\ arrivals[i] \in Threads
  BY DEF QInv, TypeOK, Threads
<1>2. Queued(arrivals[i])
  BY <1>1 DEF QInv, Members
<1>3. pc[arrivals[i]] \notin {"idle", "readTail", "casTail"}
  BY <1>2 DEF Queued
<1>4. QED
  BY <1>1, <1>2, <1>3, OwnNode DEF Made, Node

\* The predecessors of the waiting threads are different nodes, and the first is none of theirs.
LEMMA Preds == ASSUME IInv, QInv
               PROVE  /\ Served \in Nodes /\ Made(Served) /\ ~InQueue(Served)
                      /\ \A i \in 1 .. Len(arrivals) + 1 : Pred(i) \in Nodes /\ Made(Pred(i))
                      /\ \A i, j \in 1 .. Len(arrivals) + 1 : Pred(i) = Pred(j) => i = j
<1>0. Len(arrivals) \in Nat
  BY DEF QInv, TypeOK
<1>1. ASSUME NEW t \in Threads, Advancing(t) PROVE Served \in Nodes /\ Made(Served) /\ ~InQueue(Served)
  <2>1. Served = Node(t) /\ pc[t] \notin {"idle", "readTail", "casTail"} /\ ~Queued(t)
    BY <1>1, ServedIs DEF ServedDefined, Advancing, Queued
  <2>2. Node(t) \in Nodes /\ Made(Node(t)) /\ Node(t)[1] = t
    BY <2>1, OwnNode DEF Made, Node
  <2>3. ~InQueue(Node(t))
    BY <2>1, <2>2, Waiting DEF InQueue
  <2>4. QED
    BY <2>1, <2>2, <2>3
<1>2. (\A t \in Threads : ~Advancing(t)) => Served \in Nodes /\ Made(Served) /\ ~InQueue(Served)
  BY ServedIs DEF ServedDefined, QInv, MadeBefore, TypeOK
<1>3. Served \in Nodes /\ Made(Served) /\ ~InQueue(Served)
  BY <1>1, <1>2
<1>4. \A i \in 1 .. Len(arrivals) + 1 : i # 1 => i - 1 \in 1 .. Len(arrivals) /\ Pred(i) = Node(arrivals[i - 1])
  BY <1>0 DEF Pred
<1>5. \A i \in 1 .. Len(arrivals) + 1 : Pred(i) \in Nodes /\ Made(Pred(i))
  BY <1>3, <1>4, Waiting DEF Pred
<1>6. ASSUME NEW i \in 1 .. Len(arrivals) + 1, NEW j \in 1 .. Len(arrivals) + 1, Pred(i) = Pred(j)
      PROVE  i = j
  <2>1. CASE i = 1 \/ j = 1
    BY <1>3, <1>4, <1>6, <2>1 DEF InQueue, Pred
  <2>2. CASE i # 1 /\ j # 1
    <3>1. arrivals[i - 1] = arrivals[j - 1]
      BY <1>4, <1>6, <2>2, Waiting
    <3>2. i - 1 = j - 1
      BY <1>4, <2>2, <3>1 DEF QInv, Members
    <3>3. QED
      BY <3>2, <1>0
  <2>3. QED
    BY <2>1, <2>2
<1>7. QED
  BY <1>3, <1>5, <1>6

\* The threads in between taking and giving back the lock are one: it advances or nobody does.
LEMMA OneAdvances == ASSUME IInv, NEW t \in Threads, Advancing(t)
                     PROVE  isLocked /\ \A u \in Threads : Advancing(u) => u = t
  BY DEF IInv, WordAgrees, MutualExclusion, Owns, Inside, Advancing

\* The order of the list: what the parts of the invariant say of it.
InOrder == Members /\ Linked /\ NoOtherLinks

\* A thread that swings tail becomes the last of the queue, not yet linked.
LEMMA CasTailStep == ASSUME IInv, IInv', QInv, NEW t \in Threads, CasTail(t) PROVE InOrder'
<1> DEFINE n == Len(arrivals)
<1>1. /\ pc[t] = "casTail" /\ pc' = [pc EXCEPT ![t] = "link"] /\ tail = local[t] /\ tail' = Node(t)
      /\ arrivals' = Append(arrivals, t)
      /\ UNCHANGED <<head, next, prev, calls, local>>
  BY DEF CasTail, Goto
<1>2. /\ pc \in [Threads -> Labels] /\ arrivals \in Seq(Lockers) /\ n \in Nat /\ t \in Lockers
      /\ Node(t) \in Nodes /\ ~Made(Node(t))
  BY <1>1, OwnNode DEF QInv, TypeOK, Made, Node
<1>3. /\ Len(arrivals') = n + 1 /\ arrivals'[n + 1] = t /\ \A i \in 1 .. n : arrivals'[i] = arrivals[i]
  BY <1>1, <1>2
<1>4. \A i \in 1 .. n : arrivals[i] # t /\ arrivals[i] \in Threads
  BY <1>1, Waiting DEF Queued
<1>5. Served' = Served
  BY <1>1, <1>2, ServedStays DEF Advancing
<1>6. \A i \in 1 .. n + 1 : Pred(i)' = Pred(i)
  BY <1>1, <1>2, <1>3, <1>5 DEF Pred, Node
<1>7. \A i : i = n + 2 => Pred(i)' = Node(t)
  BY <1>1, <1>2, <1>3 DEF Pred, Node
<1>8. next[Node(t)] = Null
  <2>1. \A i \in 1 .. n : Node(t) # Pred(i)
    BY <1>2, Preds
  <2>2. Node(t) # head
    BY <1>2 DEF QInv, MadeBefore
  <2>3. QED
    BY <1>2, <2>1, <2>2 DEF QInv, NoOtherLinks
<1>8a. \A u : Node(u)' = Node(u)
  BY <1>1 DEF Node
<1>9. Members'
  BY <1>1, <1>2, <1>3, <1>4 DEF QInv, Members, Queued
<1>10. Linked'
  <2>1. ASSUME NEW i \in 1 .. n + 1
        PROVE  Hangs(i)'
    <3>1. CASE i = n + 1
      BY <1>1, <1>2, <1>3, <1>6, <3>1 DEF QInv, Linked, Hangs
    <3>2. CASE i \in 1 .. n
      BY <1>1, <1>2, <1>3, <1>4, <1>6, <1>8a, <3>2 DEF QInv, Linked, Hangs
    <3>3. QED
      BY <1>2, <3>1, <3>2
  <2>2. (tail = Pred(Len(arrivals) + 1) /\ next[tail] = Null)'
    BY <1>1, <1>2, <1>3, <1>7, <1>8
  <2>3. \A u \in Threads : /\ Advancing(u)' => head' # Node(u)'
                           /\ pc'[u] \in {"setHold", "cut"} => prev'[Node(u)'] = head'
    BY <1>1, <1>2 DEF QInv, Linked, Advancing, Node
  <2>4. QED
    BY <1>3, <2>1, <2>2, <2>3 DEF Linked
<1>11. NoOtherLinks'
  <2>1. ASSUME NEW m \in Nodes, next[m] # Null
        PROVE  \/ \E i \in 1 .. n : m = Pred(i) /\ next[m] = Node(arrivals[i])
               \/ m = head /\ \E u \in Threads : pc[u] \in {"setHold", "cut"} /\ next[m] = Node(u)
    BY <2>1 DEF QInv, NoOtherLinks
  <2>2. \A i \in 1 .. n : i \in 1 .. Len(arrivals') /\ arrivals'[i] = arrivals[i] /\ Pred(i)' = Pred(i)
    BY <1>2, <1>3, <1>6
  <2>3. \A u \in Threads : pc[u] \in {"setHold", "cut"} => pc'[u] \in {"setHold", "cut"}
    BY <1>1, <1>2
  <2>4. QED
    BY <1>1, <1>8a, <2>1, <2>2, <2>3 DEF NoOtherLinks
<1>12. QED
  BY <1>9, <1>10, <1>11 DEF InOrder

\* A thread links its node behind that of its predecessor.
LEMMA LinkStep == ASSUME IInv, IInv', QInv, NEW t \in Threads, Link(t) PROVE InOrder'
<1>1. /\ pc[t] = "link" /\ pc' = [pc EXCEPT ![t] = "readHead"]
      /\ next' = [next EXCEPT ![local[t]] = Node(t)] /\ prev' = [prev EXCEPT ![Node(t)] = local[t]]
      /\ local' = [local EXCEPT ![t] = Null]
      /\ UNCHANGED <<head, tail, calls, arrivals>>
  BY DEF Link, Goto
<1>2. /\ pc \in [Threads -> Labels] /\ local \in [Threads -> Nodes \cup {Null}] /\ Len(arrivals) \in Nat
      /\ next \in [Nodes -> Nodes \cup {Null}] /\ prev \in [Nodes -> Nodes \cup {Null}]
  BY DEF QInv, TypeOK
<1>3. PICK k \in 1 .. Len(arrivals) : arrivals[k] = t
  BY <1>1 DEF QInv, Members, Queued
<1>4. \A i \in 1 .. Len(arrivals) : (arrivals[i] = t <=> i = k) /\ arrivals[i] \in Threads
                                      /\ arrivals[i] \in Lockers
  BY <1>3, Waiting DEF QInv, Members
<1>5. local[t] = Pred(k) /\ next[Pred(k)] = Null /\ Pred(k) \in Nodes
  BY <1>1, <1>2, <1>3, Preds DEF QInv, Linked, Hangs
<1>6. Served' = Served
  BY <1>1, <1>2, ServedStays DEF Advancing
<1>7. \A i \in 1 .. Len(arrivals) + 1 : Pred(i)' = Pred(i)
  BY <1>1, <1>6 DEF Pred, Node
<1>8. \A i \in 1 .. Len(arrivals) + 1 : i # k => next'[Pred(i)] = next[Pred(i)]
  BY <1>1, <1>2, <1>5, Preds
<1>8a. \A u : Node(u)' = Node(u)
  BY <1>1 DEF Node
<1>9. \A u \in Threads : u # t => Node(u) # Node(t)
  BY DEF Node
<1>10. Members'
  BY <1>1, <1>2 DEF QInv, Members, Queued
<1>11. Linked'
  <2>1. ASSUME NEW i \in 1 .. Len(arrivals), i # k
        PROVE  Hangs(i)'
    BY <1>1, <1>2, <1>4, <1>7, <1>8, <1>9, <1>8a, <2>1, Waiting DEF QInv, Linked, Hangs
  <2>2. Hangs(k)'
    BY <1>1, <1>2, <1>3, <1>5, <1>7, <1>8a, Waiting DEF Hangs
  <2>3. tail' = Pred(Len(arrivals) + 1) /\ next'[tail'] = Null
    BY <1>1, <1>2, <1>8 DEF QInv, Linked
  <2>4. \A u \in Threads : /\ Advancing(u)' => head' # Node(u)
                           /\ pc'[u] \in {"setHold", "cut"} => prev'[Node(u)] = head'
    BY <1>1, <1>2, <1>9, OwnNode DEF QInv, Linked, Advancing
  <2>5. QED
    BY <1>1, <1>2, <1>7, <1>8a, <2>1, <2>2, <2>3, <2>4 DEF Linked
<1>12. NoOtherLinks'
  <2>1. ASSUME NEW n \in Nodes, next'[n] # Null
        PROVE  \/ \E i \in 1 .. Len(arrivals) : n = Pred(i) /\ next'[n] = Node(arrivals[i])
               \/ n = head /\ \E u \in Threads : pc[u] \in {"setHold", "cut"} /\ next'[n] = Node(u)
    BY <1>1, <1>2, <1>3, <1>5, <2>1 DEF QInv, NoOtherLinks
  <2>2. QED
    BY <1>1, <1>2, <1>7, <2>1 DEF NoOtherLinks, Node
<1>13. QED
  BY <1>10, <1>11, <1>12 DEF InOrder

\* The first of the queue takes the lock: its node is the one served last.
LEMMA CasLockStep == ASSUME IInv, IInv', QInv, NEW t \in Threads, CasLock(t) PROVE InOrder'
<1>1. /\ pc[t] = "casLock" /\ pc' = [pc EXCEPT ![t] = "setHold"] /\ ~isLocked
      /\ arrivals' = Tail(arrivals)
      /\ UNCHANGED <<head, tail, next, prev, calls, local>>
  BY DEF CasLock, Goto
<1>2. /\ pc \in [Threads -> Labels] /\ arrivals \in Seq(Lockers) /\ Len(arrivals) \in Nat
      /\ arrivals # <<>> /\ arrivals[1] = t
  BY <1>1 DEF QInv, TypeOK, Members
<1>3. /\ Len(arrivals') = Len(arrivals) - 1 /\ Len(arrivals) >= 1
      /\ \A i \in 1 .. Len(arrivals) - 1 : arrivals'[i] = arrivals[i + 1] /\ i + 1 \in 1 .. Len(arrivals)
  BY <1>1, <1>2
<1>4. Len(arrivals') \in Nat /\ Len(arrivals) = Len(arrivals') + 1
  BY <1>2, <1>3
<1>5. \A i \in 1 .. Len(arrivals) : arrivals[i] \in Threads /\ (arrivals[i] = t => i = 1)
  BY <1>2, <1>3, Waiting DEF QInv, Members
<1>6. \A u : Node(u)' = Node(u)
  BY <1>1 DEF Node
<1>7. Served = head /\ Served' = Node(t)
  <2>1. \A u \in Threads : ~Advancing(u)
    BY <1>1, OneAdvances
  <2>2. Advancing(t)'
    BY <1>1, <1>2 DEF Advancing
  <2>3. ServedDefined /\ ServedDefined'
    BY ServedIs, PTL
  <2>4. QED
    BY <1>6, <2>1, <2>2, <2>3 DEF ServedDefined
<1>8. \A i \in 1 .. Len(arrivals) : Pred(i)' = Pred(i + 1)
  <2>1. ASSUME NEW i \in 1 .. Len(arrivals), i = 1 PROVE Pred(i)' = Pred(i + 1)
    BY <1>2, <1>7, <2>1 DEF Pred
  <2>2. ASSUME NEW i \in 1 .. Len(arrivals), i # 1 PROVE Pred(i)' = Pred(i + 1)
    <3>1. i - 1 \in 1 .. Len(arrivals) - 1 /\ i + 1 # 1 /\ (i + 1) - 1 = i /\ (i - 1) + 1 = i
      BY <1>2, <2>2
    <3>2. arrivals'[i - 1] = arrivals[i]
      BY <1>3, <3>1
    <3>3. QED
      BY <1>6, <2>2, <3>1, <3>2 DEF Pred
  <2>3. QED
    BY <2>1, <2>2
<1>9. \A i \in 1 .. Len(arrivals') : i + 1 \in 1 .. Len(arrivals) /\ i \in 1 .. Len(arrivals) /\ i + 1 # 1
                                      /\ arrivals'[i] = arrivals[i + 1]
  BY <1>2, <1>3, <1>4
<1>10. Members'
  <2>1. \A u \in Threads : Queued(u)' <=> Queued(u) /\ u # t
    BY <1>1, <1>2 DEF Queued
  <2>2. ASSUME NEW u \in Threads, Queued(u)' PROVE \E i \in 1 .. Len(arrivals') : arrivals'[i] = u
    <3>1. PICK k \in 1 .. Len(arrivals) : arrivals[k] = u /\ k # 1
      BY <1>2, <2>1, <2>2 DEF QInv, Members
    <3>2. k - 1 \in 1 .. Len(arrivals') /\ (k - 1) + 1 = k
      BY <1>2, <1>4, <3>1
    <3>3. QED
      BY <1>9, <3>1, <3>2
  <2>3. ASSUME NEW u \in Threads, NEW i \in 1 .. Len(arrivals'), arrivals'[i] = u PROVE Queued(u)'
    BY <1>5, <1>9, <2>1, <2>3 DEF QInv, Members
  <2>4. ASSUME NEW i \in 1 .. Len(arrivals'), NEW j \in 1 .. Len(arrivals'), arrivals'[i] = arrivals'[j]
        PROVE  i = j
    <3>1. i + 1 = j + 1
      BY <1>9, <2>4 DEF QInv, Members
    <3>2. QED
      BY <1>4, <3>1
  <2>5. ASSUME NEW u \in Threads PROVE pc'[u] # "casLock"
    BY <1>1, <1>2, <2>5 DEF QInv, Members
  <2>6. QED
    BY <2>2, <2>3, <2>4, <2>5 DEF Members
<1>11. Linked'
  <2>1. ASSUME NEW i \in 1 .. Len(arrivals') PROVE Hangs(i)'
    <3>1. Hangs(i + 1) /\ arrivals'[i] = arrivals[i + 1] /\ Pred(i)' = Pred(i + 1) /\ arrivals[i + 1] # t
      BY <1>5, <1>8, <1>9 DEF QInv, Linked
    <3>2. QED
      BY <1>1, <1>2, <1>6, <3>1 DEF Hangs
  <2>2. (tail = Pred(Len(arrivals) + 1) /\ next[tail] = Null)'
    BY <1>1, <1>3, <1>4, <1>8 DEF QInv, Linked
  <2>3. head # Node(t) /\ prev[Node(t)] = head
    BY <1>1, <1>2, <1>3, <1>7 DEF QInv, MadeBefore, InQueue, Linked, Hangs, Pred
  <2>4. \A u \in Threads : /\ Advancing(u)' => u = t
                           /\ pc'[u] \in {"setHold", "cut"} => u = t
    BY <1>1, <1>2, OneAdvances DEF Advancing
  <2>5. QED
    BY <1>1, <1>6, <2>1, <2>2, <2>3, <2>4 DEF Linked
<1>12. NoOtherLinks'
  <2>1. ASSUME NEW m \in Nodes, next[m] # Null
        PROVE  \/ \E i \in 1 .. Len(arrivals') : m = Pred(i)' /\ next[m] = Node(arrivals'[i])
               \/ m = head /\ next[m] = Node(t)
    <3>1. PICK k \in 1 .. Len(arrivals) : m = Pred(k) /\ next[m] = Node(arrivals[k])
      BY <1>1, <2>1, OneAdvances DEF QInv, NoOtherLinks, Advancing
    <3>2. CASE k = 1
      BY <1>2, <1>7, <3>1, <3>2 DEF Pred
    <3>3. CASE k # 1
      <4>1. k - 1 \in 1 .. Len(arrivals') /\ (k - 1) + 1 = k
        BY <1>2, <1>4, <3>3
      <4>2. m = Pred(k - 1)' /\ next[m] = Node(arrivals'[k - 1])
        BY <1>8, <1>9, <3>1, <4>1
      <4>3. QED
        BY <4>1, <4>2
    <3>4. QED
      BY <3>2, <3>3
  <2>2. pc'[t] \in {"setHold", "cut"}
    BY <1>1, <1>2
  <2>3. QED
    BY <1>1, <1>6, <2>1, <2>2 DEF NoOtherLinks
<1>13. QED
  BY <1>10, <1>11, <1>12 DEF InOrder

\* The new holder takes its node off the old head.
LEMMA CutStep == ASSUME IInv, IInv', QInv, NEW t \in Threads, Cut(t) PROVE InOrder'
<1>1. /\ pc[t] = "cut" /\ pc' = [pc EXCEPT ![t] = "setHead"]
      /\ next' = [next EXCEPT ![prev[Node(t)]] = Null] /\ prev' = [prev EXCEPT ![Node(t)] = Null]
      /\ UNCHANGED <<head, tail, calls, local, arrivals>>
  BY DEF Cut, Goto
<1>2. /\ pc \in [Threads -> Labels] /\ Len(arrivals) \in Nat /\ head \in Nodes
      /\ next \in [Nodes -> Nodes \cup {Null}] /\ prev \in [Nodes -> Nodes \cup {Null}]
  BY DEF QInv, TypeOK
<1>3. prev[Node(t)] = head /\ Advancing(t) /\ Served = Node(t) /\ head # Node(t)
  BY <1>1, ServedIs DEF QInv, Linked, Advancing, ServedDefined
<1>4. next' = [next EXCEPT ![head] = Null]
  BY <1>1, <1>3
<1>5. \A u : Node(u)' = Node(u)
  BY <1>1 DEF Node
<1>6. \A u \in Threads : Advancing(u)' <=> Advancing(u)
  BY <1>1, <1>2 DEF Advancing
<1>7. Served' = Served
  BY <1>1, <1>6, ServedStays
<1>8. \A i \in 1 .. Len(arrivals) + 1 : Pred(i)' = Pred(i) /\ Pred(i) # head /\ Pred(i) \in Nodes
  <2>1. ASSUME NEW i \in 1 .. Len(arrivals) + 1 PROVE Pred(i) # head
    <3>1. CASE i = 1
      BY <1>3, <3>1 DEF Pred
    <3>2. CASE i # 1
      BY <1>2, <3>2 DEF Pred, QInv, MadeBefore, InQueue
    <3>3. QED
      BY <3>1, <3>2
  <2>2. QED
    BY <1>1, <1>5, <1>7, <2>1, Preds DEF Pred
<1>9. \A i \in 1 .. Len(arrivals) : /\ arrivals[i] # t /\ arrivals[i] \in Threads
                                    /\ Node(arrivals[i]) # Node(t)
  BY <1>1, Waiting DEF Queued, Node
<1>10. Members'
  BY <1>1, <1>2 DEF QInv, Members, Queued
<1>11. Linked'
  <2>1. ASSUME NEW i \in 1 .. Len(arrivals) PROVE Hangs(i)'
    BY <1>1, <1>2, <1>4, <1>5, <1>8, <1>9, Waiting DEF QInv, Linked, Hangs
  <2>2. (tail = Pred(Len(arrivals) + 1) /\ next[tail] = Null)'
    BY <1>1, <1>2, <1>4, <1>8 DEF QInv, Linked
  <2>3. \A u \in Threads : Advancing(u) => u = t
    BY <1>3, OneAdvances
  <2>4. pc'[t] = "setHead" /\ \A u \in Threads : pc'[u] \in {"setHold", "cut"} => Advancing(u) /\ u # t
    BY <1>1, <1>2 DEF Advancing
  <2>5. QED
    BY <1>1, <1>3, <1>5, <1>6, <2>1, <2>2, <2>3, <2>4 DEF Linked
<1>12. NoOtherLinks'
  BY <1>1, <1>2, <1>4, <1>5, <1>8 DEF QInv, NoOtherLinks
<1>13. QED
  BY <1>10, <1>11, <1>12 DEF InOrder

\* Its node becomes the head.
LEMMA SetHeadStep == ASSUME IInv, IInv', QInv, NEW t \in Threads, SetHead(t) PROVE InOrder'
<1>1. /\ pc[t] = "setHead" /\ pc' = [pc EXCEPT ![t] = "critical"] /\ head' = Node(t)
      /\ UNCHANGED <<tail, next, prev, calls, local, arrivals>>
  BY DEF SetHead, Goto
<1>2. pc \in [Threads -> Labels] /\ Len(arrivals) \in Nat
  BY DEF QInv, TypeOK
<1>3. Advancing(t) /\ \A u \in Threads : ~Advancing(u)'
  BY <1>1, <1>2, OneAdvances DEF Advancing
<1>4. \A u : Node(u)' = Node(u)
  BY <1>1 DEF Node
<1>5. Served' = Served
  <2>1. ServedDefined /\ ServedDefined'
    BY ServedIs, PTL
  <2>2. QED
    BY <1>1, <1>3, <2>1 DEF ServedDefined
<1>6. \A i \in 1 .. Len(arrivals) + 1 : Pred(i)' = Pred(i)
  BY <1>1, <1>4, <1>5 DEF Pred
<1>7. \A i \in 1 .. Len(arrivals) : arrivals[i] # t /\ arrivals[i] \in Threads
  BY <1>1, Waiting DEF Queued
<1>8. Members'
  BY <1>1, <1>2 DEF QInv, Members, Queued
<1>9. Linked'
  <2>1. ASSUME NEW i \in 1 .. Len(arrivals) PROVE Hangs(i)'
    BY <1>1, <1>2, <1>4, <1>6, <1>7 DEF QInv, Linked, Hangs
  <2>2. (tail = Pred(Len(arrivals) + 1) /\ next[tail] = Null)'
    BY <1>1, <1>2, <1>6 DEF QInv, Linked
  <2>3. QED
    BY <1>1, <1>3, <2>1, <2>2 DEF Linked, Advancing
<1>10. NoOtherLinks'
  <2>1. \A u \in Threads : pc[u] \notin {"setHold", "cut"}
    BY <1>1, <1>3, OneAdvances DEF Advancing
  <2>2. QED
    BY <1>1, <1>4, <1>6, <2>1 DEF QInv, NoOtherLinks
<1>11. QED
  BY <1>8, <1>9, <1>10 DEF InOrder

\* The thread that finds itself behind a node that was head is the first.
LEMMA FirstTries == ASSUME IInv, QInv, NEW t \in Threads, pc[t] = "readNext", next[local[t]] = Node(t)
                    PROVE  arrivals # <<>> /\ arrivals[1] = t
<1>1. local[t] \in Nodes /\ ~InQueue(local[t]) /\ Node(t) # Null /\ Len(arrivals) \in Nat
  BY OwnNode, NodeFacts DEF QInv, MadeBefore, TypeOK
<1>2. \A u \in Threads : Node(u) = Node(t) => u = t
  BY DEF Node
<1>3. PICK i \in 1 .. Len(arrivals) : local[t] = Pred(i) /\ Node(t) = Node(arrivals[i])
  BY <1>1, <1>2 DEF QInv, NoOtherLinks
<1>4. i = 1
  BY <1>1, <1>3 DEF Pred, InQueue
<1>5. QED
  BY <1>2, <1>3, <1>4, Waiting

\* Every step keeps the list in order.
LEMMA ListStep == ASSUME NotCareless, IInv, QInv, [Next]_vars PROVE InOrder'
<1>0. IInv'
  BY NextIInv
<1>1. pc \in [Threads -> Labels]
  BY DEF QInv, TypeOK
<1> USE DEF Goto, fields, Queued, Advancing, InOrder
<1>2. ASSUME NEW t \in Threads, LockFair(t) \/ Barge(t) \/ BargeFails(t) PROVE InOrder'
  BY <1>0, <1>1, <1>2, QuietStep DEF LockFair, Barge, BargeFails, Enter, QInv, TypeOK, Members
<1>3. ASSUME NEW t \in Threads, ReadTail(t) \/ CasTailFails(t) \/ ReadHead(t) PROVE InOrder'
  BY <1>0, <1>1, <1>3, QuietStep DEF ReadTail, CasTailFails, ReadHead, QInv, TypeOK, Members
<1>4. ASSUME NEW t \in Threads, ReadNext(t) PROVE InOrder'
  BY <1>0, <1>1, <1>4, QuietStep, FirstTries DEF ReadNext, QInv, TypeOK, Members
<1>5. ASSUME NEW t \in Threads, CasLockFails(t) \/ Park(t) \/ SpuriousWakeup(t) PROVE InOrder'
  BY <1>0, <1>1, <1>5, QuietStep DEF CasLockFails, Park, SpuriousWakeup, QInv, TypeOK, Members
<1>6. ASSUME NEW t \in Threads, BargeHold(t) \/ SetHold(t) \/ Release(t) PROVE InOrder'
  BY <1>0, <1>1, <1>6, QuietStep DEF BargeHold, SetHold, Release, QInv, TypeOK, Members
<1>7. ASSUME NEW t \in Threads, UnlockAllowed(t) \/ UnlockRefused(t) PROVE InOrder'
  BY <1>0, <1>1, <1>7, QuietStep DEF UnlockAllowed, UnlockRefused, CallsUnlock, QInv, TypeOK, Members
<1>8. ASSUME NEW t \in Threads, ReadHeadU(t) \/ ReadNextU(t) \/ Unpark(t) PROVE InOrder'
  BY <1>0, <1>1, <1>8, QuietStep DEF ReadHeadU, ReadNextU, Unpark, QInv, TypeOK, Members
<1>9. CASE UNCHANGED vars
  BY <1>0, <1>1, <1>9, QuietStep DEF vars, QInv, TypeOK, Members
<1>10. QED
  BY <1>0, <1>2, <1>3, <1>4, <1>5, <1>6, <1>7, <1>8, <1>9, CasTailStep, LinkStep, CasLockStep,
     CutStep, SetHeadStep DEF Next, Running

\* How a step may change where a thread stands and which call it is in.
Moves(t) == \/ /\ calls'[t] = calls[t]
               /\ pc'[t] \in {"readTail", "casTail"} => pc[t] \in {"readTail", "casTail"}
               /\ pc'[t] # "idle" => pc[t] # "idle" \/ holdThread = t
            \/ calls'[t] = calls[t] + 1 /\ pc[t] = "idle" /\ t \in Lockers /\ calls[t] < CallsOf(t)

\* Every step moves each thread so.
LEMMA EveryMove == ASSUME QInv, [Next]_vars PROVE \A t \in Threads : Moves(t)
<1> USE DEF Goto, fields, Moves
<1>0. pc \in [Threads -> Labels] /\ calls \in [Threads -> Nat]
  BY DEF QInv, TypeOK
<1>1. ASSUME NEW u \in Threads, NEW t \in Threads, LockFair(t) \/ Barge(t) \/ BargeFails(t) PROVE Moves(u)
  BY <1>0, <1>1 DEF LockFair, Barge, BargeFails, Enter
<1>2. ASSUME NEW u \in Threads, NEW t \in Threads, UnlockAllowed(t) \/ UnlockRefused(t) PROVE Moves(u)
  BY <1>0, <1>2 DEF UnlockAllowed, UnlockRefused, CallsUnlock
<1>3. ASSUME NEW u \in Threads, NEW t \in Threads, Running(t) \/ SpuriousWakeup(t) PROVE Moves(u)
  BY <1>0, <1>3 DEF Running, SpuriousWakeup, BargeHold, ReadTail, CasTail, CasTailFails, Link,
     ReadHead, ReadNext, CasLock, CasLockFails, Park, SetHold, Cut, SetHead, Release, ReadHeadU,
     ReadNextU, Unpark
<1>4. CASE UNCHANGED vars
  BY <1>4 DEF vars
<1>5. QED
  BY <1>1, <1>2, <1>3, <1>4 DEF Next

\* A node once made stays so, and only a new one joins the queue.
LEMMA MadeStays == ASSUME QInv, [Next]_vars
                   PROVE  \A n \in Nodes : Made(n) => Made(n)' /\ (InQueue(n)' => InQueue(n))
<1>0. /\ pc \in [Threads -> Labels] /\ calls \in [Threads -> Nat] /\ Lockers \subseteq Threads
      /\ arrivals \in Seq(Lockers) /\ Len(arrivals) \in Nat
  BY DEF QInv, TypeOK, Threads
<1>1. ASSUME NEW n \in Nodes, Made(n) PROVE Made(n)'
  <2>1. CASE n = Dummy
    BY <2>1 DEF Made
  <2>2. CASE n # Dummy
    <3>1. n[1] \in Threads /\ n[1] \in Lockers /\ n[2] \in Nat
      BY <1>0, <2>2, NodeFacts
    <3>2. Moves(n[1])
      BY <3>1, EveryMove
    <3>3. calls[n[1]] \in Nat
      BY <1>0, <3>1
    <3>4. QED
      BY <1>1, <2>2, <3>1, <3>2, <3>3 DEF Made, Moves
  <2>3. QED
    BY <2>1, <2>2
<1>2. ASSUME NEW n \in Nodes, Made(n), NEW i \in 1 .. Len(arrivals), n = <<arrivals[i], calls'[arrivals[i]]>>
      PROVE  InQueue(n)
  <2>1. calls'[arrivals[i]] = calls[arrivals[i]]
    BY Waiting, EveryMove DEF Moves
  <2>2. QED
    BY <1>2, <2>1 DEF InQueue, Node
<1>3. CASE arrivals' = arrivals
  BY <1>1, <1>2, <1>3 DEF InQueue, Node
<1>4. ASSUME NEW t \in Threads, CasLock(t) PROVE \A n \in Nodes : Made(n) => Made(n)' /\ (InQueue(n)' => InQueue(n))
  <2>1. /\ Len(arrivals') = Len(arrivals) - 1
        /\ \A i \in 1 .. Len(arrivals) - 1 : arrivals'[i] = arrivals[i + 1] /\ i + 1 \in 1 .. Len(arrivals)
    BY <1>0, <1>4 DEF CasLock, Goto, QInv, Members
  <2>2. QED
    BY <1>1, <1>2, <2>1 DEF InQueue, Node
<1>5. ASSUME NEW t \in Threads, CasTail(t) PROVE \A n \in Nodes : Made(n) => Made(n)' /\ (InQueue(n)' => InQueue(n))
  <2>1. /\ Len(arrivals') = Len(arrivals) + 1 /\ arrivals'[Len(arrivals) + 1] = t /\ calls' = calls
        /\ \A i \in 1 .. Len(arrivals) : arrivals'[i] = arrivals[i]
    BY <1>0, <1>5, OwnNode DEF CasTail, Goto
  <2>2. ~Made(Node(t))
    BY <1>0, <1>5, OwnNode DEF CasTail, Goto, Made, Node
  <2>3. ASSUME NEW n \in Nodes, Made(n), NEW i \in 1 .. Len(arrivals'), n = <<arrivals'[i], calls'[arrivals'[i]]>>
        PROVE  InQueue(n)
    <3>1. CASE i = Len(arrivals) + 1
      BY <2>1, <2>2, <2>3, <3>1 DEF Node
    <3>2. CASE i \in 1 .. Len(arrivals)
      BY <1>2, <2>1, <2>3, <3>2
    <3>3. QED
      BY <1>0, <2>1, <3>1, <3>2
  <2>4. QED
    BY <1>1, <2>3 DEF InQueue, Node
<1>6. (\A t \in Threads : ~CasLock(t) /\ ~CasTail(t)) => arrivals' = arrivals
  BY DEF Next, Running, vars, LockFair, Barge, BargeFails, UnlockAllowed, UnlockRefused, SpuriousWakeup,
     BargeHold, ReadTail, CasTailFails, Link, ReadHead, ReadNext, CasLockFails, Park, SetHold, Cut,
     SetHead, Release, ReadHeadU, ReadNextU, Unpark
<1>7. QED
  BY <1>3, <1>4, <1>5, <1>6

\* Every step keeps a thread's node among the nodes.
LEMMA CallStep == ASSUME NotCareless, IInv, QInv, [Next]_vars, NEW t \in Threads, pc'[t] # "idle"
                  PROVE  t \in Lockers /\ calls'[t] \in 1 .. CallsOf(t)
<1>0. /\ pc \in [Threads -> Labels] /\ calls \in [Threads -> Nat] /\ \A u \in Lockers : CallsOf(u) \in Nat
  BY NodeFacts DEF QInv, TypeOK
<1>1. Moves(t)
  BY EveryMove
<1>2. CASE pc[t] # "idle"
  BY <1>0, <1>1, <1>2 DEF Moves, QInv, MadeBefore
<1>3. CASE calls'[t] # calls[t]
  BY <1>0, <1>1, <1>3 DEF Moves
<1>4. CASE pc[t] = "idle" /\ calls'[t] = calls[t]
  <2>1. \E u \in Threads : UnlockAllowed(u) /\ u = t
    BY <1>0, <1>4 DEF Next, Running, vars, LockFair, Barge, BargeFails, Enter, UnlockAllowed, UnlockRefused, SpuriousWakeup,
     BargeHold, ReadTail, CasTail, CasTailFails, Link, ReadHead, ReadNext, CasLock, CasLockFails, Park, SetHold, Cut,
     SetHead, Release, ReadHeadU, ReadNextU, Unpark, Goto, fields
  <2>2. t \in Strangers /\ holdThread = t /\ t \notin Lockers /\ holdThread # Null
    BY <1>4, <2>1, LockAssumption DEF UnlockAllowed, CallsUnlock, NotCareless, Threads
  <2>3. QED
    BY <2>2 DEF QInv, TypeOK
<1>5. QED
  BY <1>2, <1>3, <1>4

\* Every step leaves the threads with nodes made before.
LEMMA MadeStep == ASSUME NotCareless, IInv, QInv, [Next]_vars PROVE MadeBefore'
<1>0. /\ pc \in [Threads -> Labels]
      /\ local \in [Threads -> Nodes \cup {Null}] /\ head \in Nodes /\ tail \in Nodes
      /\ \A n \in Nodes : next[n] \in Nodes \cup {Null}
      /\ Null \notin Nodes
  BY NodeFacts DEF QInv, TypeOK
<1>1. /\ Made(head) /\ Made(tail) /\ ~InQueue(head)
      /\ \A t \in Threads : /\ local[t] # Null => Made(local[t])
                            /\ pc[t] \in {"casTail", "link", "readNext", "readNextU"} => local[t] # Null
                            /\ pc[t] = "readNext" => ~InQueue(local[t])
                            /\ pc[t] = "unpark" => local[t] \notin {Null, Dummy}
  BY DEF QInv, MadeBefore
<1>2. \A n \in Nodes : Made(n) => Made(n)' /\ (InQueue(n)' => InQueue(n))
  BY MadeStays
<1>3. \A t \in Threads : pc'[t] # "idle" => t \in Lockers /\ calls'[t] \in 1 .. CallsOf(t)
  BY CallStep
<1> DEFINE Held(t) == /\ local[t] # Null => Made(local[t])
                      /\ pc[t] \in {"casTail", "link", "readNext", "readNextU"} => local[t] # Null
                      /\ pc[t] = "readNext" => ~InQueue(local[t])
                      /\ pc[t] = "unpark" => local[t] \notin {Null, Dummy}
           Kept == (Made(head) /\ Made(tail) /\ ~InQueue(head) /\ \A t \in Threads : Held(t))'
<1>4. ASSUME UNCHANGED <<head, tail>>,
             \A t \in Threads : \/ local'[t] = local[t] /\ (pc'[t] = pc[t] \/ pc'[t] \notin {"readNext", "readNextU", "unpark", "casTail"})
                                     /\ (pc'[t] = "link" => pc[t] \in {"casTail", "link"})
                                \/ local'[t] \in {head, tail} /\ pc'[t] \in {"casTail", "readNextU"}
                                \/ local'[t] = head /\ pc'[t] = "readNext"
                                \/ local'[t] = Null /\ pc'[t] \notin {"casTail", "link", "readNext", "readNextU", "unpark"}
      PROVE  Kept
  BY <1>0, <1>1, <1>2, <1>4
<1> USE DEF Goto, fields
<1>5. ASSUME NEW t \in Threads, LockFair(t) \/ Barge(t) \/ BargeFails(t) PROVE Kept
  BY <1>0, <1>4, <1>5 DEF LockFair, Barge, BargeFails
<1>6. ASSUME NEW t \in Threads, ReadTail(t) \/ CasTailFails(t) \/ ReadHead(t) \/ ReadNext(t) PROVE Kept
  BY <1>0, <1>4, <1>6 DEF ReadTail, CasTailFails, ReadHead, ReadNext
<1>7. ASSUME NEW t \in Threads, Link(t) PROVE Kept
  BY <1>0, <1>4, <1>7 DEF Link
<1>8. ASSUME NEW t \in Threads, CasLock(t) \/ CasLockFails(t) \/ Park(t) \/ SpuriousWakeup(t) PROVE Kept
  BY <1>0, <1>4, <1>8 DEF CasLock, CasLockFails, Park, SpuriousWakeup
<1>9. ASSUME NEW t \in Threads, BargeHold(t) \/ SetHold(t) \/ Cut(t) PROVE Kept
  BY <1>0, <1>4, <1>9 DEF BargeHold, SetHold, Cut
<1>10. ASSUME NEW t \in Threads, UnlockAllowed(t) \/ UnlockRefused(t) \/ Release(t) PROVE Kept
  BY <1>0, <1>4, <1>10 DEF UnlockAllowed, UnlockRefused, CallsUnlock, Release
<1>11. ASSUME NEW t \in Threads, ReadHeadU(t) \/ Unpark(t) PROVE Kept
  BY <1>0, <1>4, <1>11 DEF ReadHeadU, Unpark
<1>12. ASSUME UNCHANGED vars PROVE Kept
  BY <1>0, <1>4, <1>12 DEF vars
<1>13. ASSUME NEW t \in Threads, CasTail(t) PROVE Kept
  <2>1. /\ pc[t] = "casTail" /\ pc' = [pc EXCEPT ![t] = "link"] /\ head' = head /\ tail' = Node(t) /\ local' = local
        /\ calls' = calls
    BY <1>13 DEF CasTail
  <2>2. Made(tail)'
    BY <1>0, <2>1, OwnNode DEF Made, Node
  <2>3. Made(head)' /\ ~InQueue(head)'
    BY <1>0, <1>1, <1>2, <2>1
  <2>4. ASSUME NEW u \in Threads PROVE Held(u)'
    BY <1>0, <1>1, <1>2, <2>1
  <2>5. QED
    BY <2>2, <2>3, <2>4
<1>14. ASSUME NEW t \in Threads, SetHead(t) PROVE Kept
  <2>1. /\ pc[t] = "setHead" /\ pc' = [pc EXCEPT ![t] = "critical"] /\ head' = Node(t) /\ tail' = tail /\ local' = local
    BY <1>14 DEF SetHead
  <2>2. Node(t) = Served /\ Node(t) \in Nodes
    BY <2>1, ServedIs, OwnNode DEF ServedDefined, Advancing
  <2>3. QED
    BY <1>0, <1>1, <1>2, <2>1, <2>2, Preds
<1>15. ASSUME NEW t \in Threads, ReadNextU(t) PROVE Kept
  <2>1. /\ pc[t] = "readNextU" /\ local' = [local EXCEPT ![t] = next[local[t]]] /\ UNCHANGED <<head, tail>>
        /\ pc' = [pc EXCEPT ![t] = IF next[local[t]] = Null THEN "idle" ELSE "unpark"]
    BY <1>15 DEF ReadNextU
  <2>2. local[t] \in Nodes
    BY <1>0, <1>1, <2>1
  <2>3. ASSUME next[local[t]] # Null
        PROVE  next[local[t]] \in Nodes /\ next[local[t]] # Dummy /\ Made(next[local[t]])
    <3>1. CASE \E u \in Threads : pc[u] \in {"setHold", "cut"} /\ next[local[t]] = Node(u)
      BY <3>1, OwnNode DEF Made, Node
    <3>2. CASE \E i \in 1 .. Len(arrivals) : next[local[t]] = Node(arrivals[i])
      BY <3>2, Waiting
    <3>3. QED
      BY <2>2, <2>3, <3>1, <3>2 DEF QInv, NoOtherLinks
  <2>4. QED
    BY <1>0, <1>1, <1>2, <2>1, <2>2, <2>3
<1>16. Kept
  BY <1>5, <1>6, <1>7, <1>8, <1>9, <1>10, <1>11, <1>12, <1>13, <1>14, <1>15 DEF Next, Running
<1>17. QED
  BY <1>3, <1>16 DEF MadeBefore

-----------------------------------------------------------------------------
(* No wakeup is lost *)

\* Once the first of the queue is linked, the node served last points at its node.
LEMMA FirstLinked == ASSUME QInv, NEW t \in Threads, arrivals # <<>>, arrivals[1] = t, pc[t] # "link"
                     PROVE  next[Served] = Node(t)
<1>1. 1 \in 1 .. Len(arrivals)
  BY DEF QInv, TypeOK
<1>2. QED
  BY <1>1 DEF QInv, Linked, Hangs, Pred

\* Only the grant of the lock changes which node was served last.
LEMMA ServedKept == ASSUME NotCareless, IInv, QInv, [Next]_vars, \A t \in Threads : ~CasLock(t)
                    PROVE  Served' = Served
<1>0. IInv' /\ pc \in [Threads -> Labels] /\ calls \in [Threads -> Nat] /\ ServedDefined /\ ServedDefined'
  <2>1. IInv'
    BY NextIInv
  <2>2. ServedDefined /\ ServedDefined'
    BY <2>1, ServedIs, PTL
  <2>3. QED
    BY <2>1, <2>2 DEF QInv, TypeOK
<1> USE DEF Goto, fields
<1>1. ASSUME NEW t \in Threads, SetHead(t) PROVE Served' = Served
  <2>1. Advancing(t) /\ pc'[t] = "critical" /\ head' = Node(t) /\ \A u \in Threads : u # t => pc'[u] = pc[u]
    BY <1>0, <1>1 DEF SetHead, Advancing
  <2>2. \A u \in Threads : ~Advancing(u)'
    BY <2>1, OneAdvances DEF Advancing
  <2>3. QED
    BY <1>0, <2>1, <2>2 DEF ServedDefined
<1>2. ASSUME NEW t \in Threads, LockFair(t) \/ Barge(t) \/ BargeFails(t) PROVE Served' = Served
  BY <1>0, <1>2, ServedStays DEF LockFair, Barge, BargeFails, Enter, Advancing
<1>3. ASSUME NEW t \in Threads, UnlockAllowed(t) \/ UnlockRefused(t) PROVE Served' = Served
  BY <1>0, <1>3, ServedStays DEF UnlockAllowed, UnlockRefused, CallsUnlock, Advancing
<1>4. ASSUME NEW t \in Threads, \/ BargeHold(t) \/ ReadTail(t) \/ CasTail(t) \/ CasTailFails(t) \/ Link(t)
                                \/ ReadHead(t) \/ ReadNext(t) \/ CasLockFails(t) \/ Park(t) \/ SetHold(t)
                                \/ Cut(t) \/ Release(t) \/ ReadHeadU(t) \/ ReadNextU(t) \/ Unpark(t)
                                \/ SpuriousWakeup(t)
      PROVE  Served' = Served
  BY <1>0, <1>4, ServedStays DEF Advancing, BargeHold, ReadTail, CasTail, CasTailFails, Link, ReadHead,
     ReadNext, CasLockFails, Park, SetHold, Cut, Release, ReadHeadU, ReadNextU, Unpark, SpuriousWakeup
<1>5. ASSUME UNCHANGED vars PROVE Served' = Served
  BY <1>0, <1>5, ServedStays DEF vars, Advancing
<1>6. QED
  BY <1>1, <1>2, <1>3, <1>4, <1>5 DEF Next, Running

\* Who starts to go to sleep as the first of the queue does so while the lock is held.
LEMMA FallsAsleep == ASSUME NotCareless, IInv, QInv, [Next]_vars, NEW t \in Threads, ~Sleepy(t), Sleepy(t)'
                     PROVE  isLocked'
<1>0. /\ pc \in [Threads -> Labels] /\ local \in [Threads -> Nodes \cup {Null}]
      /\ permit \in [Threads -> BOOLEAN] /\ arrivals \in Seq(Lockers)
  BY DEF QInv, TypeOK
<1> USE DEF Goto, fields
<1>1. ASSUME NEW u \in Threads, CasLock(u) PROVE isLocked'
  BY <1>1 DEF CasLock
<1>2. ASSUME \A u \in Threads : ~CasLock(u) PROVE isLocked'
  <2>1. Served' = Served
    BY <1>2, ServedKept
  <2>2. ASSUME NEW u \in Threads, CasTail(u) PROVE FALSE
    <3>1. arrivals' = Append(arrivals, u) /\ pc'[u] = "link" /\ permit' = permit /\ local' = local
          /\ \A v \in Threads : v # u => pc'[v] = pc[v]
      BY <1>0, <2>2 DEF CasTail
    <3>2. CASE arrivals = <<>>
      BY <3>1, <3>2 DEF Sleepy
    <3>3. CASE arrivals # <<>>
      BY <1>0, <2>1, <3>1, <3>3 DEF Sleepy
    <3>4. QED
      BY <3>2, <3>3
  <2>3. ASSUME ReadHead(t) PROVE isLocked'
    <3>1. head # Served
      BY <1>0, <2>1, <2>3 DEF ReadHead, Sleepy
    <3>2. \E u \in Threads : Advancing(u)
      BY <3>1, ServedIs DEF ServedDefined
    <3>3. QED
      BY <2>3, <3>2, OneAdvances DEF ReadHead
  <2>4. ASSUME ReadNext(t) PROVE FALSE
    BY <1>0, <2>1, <2>4, FirstLinked DEF ReadNext, Sleepy
  <2>5. ASSUME CasLockFails(t) PROVE isLocked'
    BY <2>5 DEF CasLockFails
  <2>6. ASSUME NEW u \in Threads, LockFair(u) \/ Barge(u) \/ BargeFails(u) \/ UnlockAllowed(u) \/ UnlockRefused(u)
        PROVE  FALSE
    BY <1>0, <2>1, <2>6 DEF Sleepy, LockFair, Barge, BargeFails, UnlockAllowed, UnlockRefused
  <2>7. ASSUME NEW u \in Threads, \/ BargeHold(u) \/ ReadTail(u) \/ CasTailFails(u) \/ Link(u) \/ Park(u)
                                  \/ SetHold(u) \/ Cut(u) \/ SetHead(u) \/ Release(u) \/ ReadHeadU(u)
                                  \/ SpuriousWakeup(u) \/ (u # t /\ (ReadHead(u) \/ ReadNext(u) \/ CasLockFails(u)))
        PROVE  FALSE
    BY <1>0, <2>1, <2>7 DEF Sleepy, BargeHold, ReadTail, CasTailFails, Link, Park, SetHold, Cut, SetHead,
       Release, ReadHeadU, SpuriousWakeup, ReadHead, ReadNext, CasLockFails
  <2>8. ASSUME NEW u \in Threads, ReadNextU(u) \/ Unpark(u) PROVE FALSE
    BY <1>0, <2>1, <2>8 DEF Sleepy, ReadNextU, Unpark
  <2>9. ASSUME UNCHANGED vars PROVE FALSE
    BY <2>1, <2>9 DEF vars, Sleepy
  <2>10. QED
    BY <1>2, <2>2, <2>3, <2>4, <2>5, <2>6, <2>7, <2>8, <2>9 DEF Next, Running
<1>3. QED
  BY <1>1, <1>2

\* A wakeup under way stays under way until the first of the queue has its permit.
LEMMA WakeStays == ASSUME NotCareless, IInv, QInv, [Next]_vars, NEW t \in Threads, WillWake(t),
                          arrivals # <<>>, arrivals[1] = t, pc[t] # "link", ~permit'[t]
                   PROVE  WillWake(t)'
<1>0. /\ pc \in [Threads -> Labels] /\ local \in [Threads -> Nodes \cup {Null}]
      /\ permit \in [Threads -> BOOLEAN] /\ Len(arrivals) \in Nat /\ 1 \in 1 .. Len(arrivals)
      /\ next \in [Nodes -> Nodes \cup {Null}]
  BY DEF QInv, TypeOK
<1>1. Queued(t) /\ pc[t] # "idle" /\ Node(t)' = Node(t)
  BY <1>0, Waiting, EveryMove DEF Queued, Moves, Node
<1>2. CASE isLocked
  <2>1. ASSUME NEW u \in Threads, Release(u) PROVE WillWake(t)'
    BY <1>0, <2>1 DEF Release, Goto, WillWake
  <2>2. (\A u \in Threads : ~Release(u)) => isLocked' = isLocked \/ isLocked'
    BY DEF Next, Running, vars, fields, LockFair, Barge, BargeFails, UnlockAllowed, UnlockRefused, SpuriousWakeup,
       BargeHold, ReadTail, CasTail, CasTailFails, Link, ReadHead, ReadNext, CasLock, CasLockFails, Park, SetHold, Cut,
       SetHead, ReadHeadU, ReadNextU, Unpark
  <2>3. QED
    BY <1>2, <2>1, <2>2 DEF WillWake
<1>3. CASE ~isLocked
  <2>1. PICK u \in Threads : \/ pc[u] = "readHeadU"
                             \/ pc[u] = "readNextU" /\ next[local[u]] = Node(t)
                             \/ pc[u] = "unpark" /\ ThreadOf(local[u]) = t
    BY <1>3 DEF WillWake
  <2>2. ASSUME ReadHeadU(u) PROVE WillWake(t)'
    <3>1. next[Served] = Node(t) /\ Served = head
      BY <1>3, FirstLinked, ServedIs, OneAdvances DEF ServedDefined
    <3>2. pc'[u] = "readNextU" /\ local'[u] = head /\ next' = next
      BY <1>0, <2>2 DEF ReadHeadU, Goto, fields
    <3>3. QED
      BY <1>1, <3>1, <3>2 DEF WillWake
  <2>3. ASSUME ReadNextU(u) PROVE WillWake(t)'
    <3>1. pc[u] = "readNextU" /\ next[local[u]] = Node(t) /\ Node(t) # Null
      BY <1>1, <2>1, <2>3, OwnNode, NodeFacts DEF ReadNextU, Goto
    <3>2. pc'[u] = "unpark" /\ local'[u] = Node(t)
      BY <1>0, <2>3, <3>1 DEF ReadNextU, Goto
    <3>3. QED
      BY <3>2 DEF WillWake, ThreadOf, Node
  <2>4. ASSUME Unpark(u) PROVE FALSE
    BY <1>0, <2>1, <2>4 DEF Unpark, Goto
  <2>5. ASSUME pc'[u] = pc[u], local'[u] = local[u], next' = next PROVE WillWake(t)'
    BY <1>1, <2>1, <2>5 DEF WillWake, ThreadOf
  <2>6. ASSUME NEW v \in Threads, Link(v) PROVE WillWake(t)'
    <3>1. /\ pc[v] = "link" /\ u # v /\ pc'[u] = pc[u] /\ local'[u] = local[u]
          /\ next' = [next EXCEPT ![local[v]] = Node(v)]
      BY <1>0, <2>1, <2>6 DEF Link, Goto
    <3>2. PICK i \in 1 .. Len(arrivals) : arrivals[i] = v
      BY <3>1 DEF QInv, Members, Queued
    <3>3. next[local[v]] = Null
      BY <3>1, <3>2 DEF QInv, Linked, Hangs
    <3>4. pc[u] = "readNextU" => local[u] \in Nodes /\ next[local[u]] = Node(t) /\ Node(t) # Null
      BY <1>0, <1>1, <2>1, OwnNode, NodeFacts DEF QInv, MadeBefore
    <3>5. pc[u] = "readNextU" => next'[local[u]] = next[local[u]]
      BY <1>0, <3>1, <3>3, <3>4
    <3>6. QED
      BY <1>1, <2>1, <3>1, <3>5 DEF WillWake, ThreadOf
  <2>7. ASSUME NEW v \in Threads, Cut(v) PROVE FALSE
    BY <1>3, <2>7, OneAdvances DEF Cut, Goto, Advancing
  <2>8. ASSUME NEW v \in Threads, LockFair(v) \/ Barge(v) \/ BargeFails(v) \/ UnlockAllowed(v) \/ UnlockRefused(v)
        PROVE  pc'[u] = pc[u] /\ local'[u] = local[u] /\ next' = next
    BY <1>0, <2>1, <2>8 DEF LockFair, Barge, BargeFails, UnlockAllowed, UnlockRefused, CallsUnlock, Goto, fields
  <2>9. ASSUME NEW v \in Threads, \/ BargeHold(v) \/ ReadTail(v) \/ CasTail(v) \/ CasTailFails(v) \/ ReadHead(v)
                                  \/ ReadNext(v) \/ CasLock(v) \/ CasLockFails(v) \/ Park(v) \/ SpuriousWakeup(v)
                                  \/ SetHold(v) \/ SetHead(v) \/ Release(v)
                                  \/ (v # u /\ (ReadHeadU(v) \/ ReadNextU(v) \/ Unpark(v)))
        PROVE  pc'[u] = pc[u] /\ local'[u] = local[u] /\ next' = next
    BY <1>0, <2>1, <2>9 DEF BargeHold, ReadTail, CasTail, CasTailFails, ReadHead, ReadNext, CasLock, CasLockFails,
       Park, SpuriousWakeup, SetHold, SetHead, Release, ReadHeadU, ReadNextU, Unpark, Goto, fields
  <2>10. ASSUME UNCHANGED vars PROVE WillWake(t)'
    BY <2>5, <2>10 DEF vars, fields
  <2>11. QED
    BY <2>2, <2>3, <2>4, <2>5, <2>6, <2>7, <2>8, <2>9, <2>10 DEF Next, Running
<1>4. QED
  BY <1>2, <1>3

\* Every step keeps the promise that the first of the queue is woken.
LEMMA WokenStep == ASSUME NotCareless, IInv, QInv, [Next]_vars PROVE Woken'
<1>1. ASSUME NEW t \in Threads, Sleepy(t)' PROVE WillWake(t)'
  <2>1. CASE Sleepy(t)
    <3>1. WillWake(t)
      BY <2>1 DEF QInv, Woken
    <3>2. QED
      BY <1>1, <2>1, <3>1, WakeStays DEF Sleepy
  <2>2. CASE ~Sleepy(t)
    BY <1>1, <2>2, FallsAsleep DEF WillWake
  <2>3. QED
    BY <2>1, <2>2
<1>2. QED
  BY <1>1 DEF Woken

\* The initial state: the queue is empty.
LEMMA InitQInv == Init => QInv
<1> SUFFICES ASSUME Init PROVE QInv
  OBVIOUS
<1> USE DEF Init
<1>1. TypeOK
  <2>1. calls \in [Threads -> Nat] /\ \A t \in Lockers : calls[t] <= CallsOf(t)
    BY NodeFacts DEF Threads
  <2>2. /\ next \in [Nodes -> Nodes \cup {Null}] /\ prev \in [Nodes -> Nodes \cup {Null}]
        /\ head \in Nodes /\ tail \in Nodes
    BY NodeFacts
  <2>3. pc \in [Threads -> Labels] /\ permit \in [Threads -> BOOLEAN] /\ local \in [Threads -> Nodes \cup {Null}]
    BY DEF Labels
  <2>4. isFair \in BOOLEAN /\ isLocked \in BOOLEAN /\ holdThread \in Lockers \cup {Null}
    OBVIOUS
  <2>5. arrivals \in Seq(Lockers)
    OBVIOUS
  <2>6. QED
    BY <2>1, <2>2, <2>3, <2>4, <2>5 DEF TypeOK
<1>2. Members /\ Woken
  BY DEF Members, Queued, Woken, Sleepy
<1>3. Served = Dummy /\ Pred(1) = Dummy /\ Len(arrivals) = 0
  BY DEF Served, Pred, Advancing
<1>4. Linked
  BY <1>3, NodeFacts DEF Linked, Advancing
<1>5. NoOtherLinks
  BY DEF NoOtherLinks
<1>6. MadeBefore
  BY <1>3, NodeFacts DEF MadeBefore, Made, InQueue
<1>7. QED
  BY <1>1, <1>2, <1>4, <1>5, <1>6 DEF QInv

\* Every step keeps the invariant of the queue.
LEMMA NextQInv == NotCareless /\ IInv /\ QInv /\ [Next]_vars => IInv' /\ QInv'
  BY NextIInv, TypeStep, ListStep, MadeStep, WokenStep DEF QInv, InOrder

\* The first of the queue that sleeps without a permit is woken, and every field keeps
\* its type: however the steps of lock() and unlock() interleave, no wakeup is lost.
THEOREM WakeupsAreNotLost == NotCareless /\ Spec => []NoLostWakeup
<1>1. QInv => NoLostWakeup
  <2>1. ASSUME QInv, NEW t \in Threads, pc[t] = "park", ~permit[t], Head(arrivals) = t PROVE WillWake(t)
    <3>1. arrivals # <<>> /\ arrivals[1] = t
      BY <2>1 DEF QInv, TypeOK, Members, Queued
    <3>2. QED
      BY <2>1, <3>1 DEF QInv, Woken, Sleepy
  <2>2. QED
    BY <2>1 DEF NoLostWakeup, FirstIsWoken, WillWake, QInv
<1>2. NotCareless /\ IInv /\ QInv /\ [Next]_vars => IInv' /\ QInv'
  BY NextQInv
<1>3. ASSUME NotCareless PROVE Spec => []NoLostWakeup
  BY <1>3, <1>1, <1>2, InitIInv, InitQInv, PTL DEF Spec
<1>4. QED
  BY <1>3

-----------------------------------------------------------------------------
(* The lock implements the FIFO mutex *)

\* Who owns the lock, without the choice.
OwnerDefined == /\ \A t \in Threads : Owns(t) => Owner = t
                /\ (\A t \in Threads : ~Owns(t)) => Owner = Null
                /\ Null \notin Threads

\* Mutual exclusion makes it so.
LEMMA OwnerIs == IInv => OwnerDefined
<1>1. ASSUME IInv, NEW t \in Threads, Owns(t) PROVE Owner = t
  <2>1. Owners = {t}
    BY <1>1 DEF IInv, MutualExclusion, Owners
  <2>2. QED
    BY <2>1 DEF Owner
<1>2. (\A t \in Threads : ~Owns(t)) => Owner = Null
  BY DEF Owner, Owners
<1>3. QED
  BY <1>1, <1>2, LockAssumption DEF OwnerDefined

\* The owner stays while the same threads own the lock.
LEMMA OwnerStays == ASSUME IInv, IInv', \A t \in Threads : Owns(t)' <=> Owns(t)
                    PROVE  Owner' = Owner
<1>1. OwnerDefined /\ OwnerDefined'
  BY OwnerIs, PTL
<1>2. QED
  BY <1>1 DEF OwnerDefined

\* Every step of the lock is a step of the FIFO mutex, or changes nothing of it.
LEMMA FifoStep == ASSUME NotCareless, IInv, QInv, [Next]_vars PROVE [Fifo!Next]_(Fifo!vars)
<1>0. /\ IInv' /\ pc \in [Threads -> Labels] /\ arrivals \in Seq(Lockers)
      /\ \A t \in Threads : Fifo!Contains(arrivals, t) <=> Queued(t)
  BY NextIInv DEF QInv, TypeOK, Members, Fifo!Contains
<1>0a. OwnerDefined /\ OwnerDefined'
  BY <1>0, OwnerIs, PTL
<1> DEFINE Done == Fifo!Next \/ UNCHANGED <<isFair, Owner, arrivals>>
<1> USE DEF Goto, fields
<1>1. ASSUME NEW t \in Threads, Barge(t) PROVE Done
  <2>1. /\ ~isFair /\ ~isLocked /\ pc[t] = "idle" /\ pc'[t] = "bargeHold" /\ isFair' = isFair
        /\ arrivals' = arrivals
    BY <1>0, <1>1 DEF Barge
  <2>2. Owner = Null /\ Owner' = t /\ ~Queued(t)
    BY <1>0a, <2>1 DEF OwnerDefined, IInv, WordAgrees, Owns, Inside, Queued
  <2>3. Fifo!Barge(t)
    BY <1>0, <2>1, <2>2 DEF Fifo!Barge
  <2>4. QED
    BY <2>3 DEF Fifo!Next
<1>2. ASSUME NEW t \in Threads, CasTail(t) PROVE Done
  <2>1. /\ pc[t] = "casTail" /\ pc' = [pc EXCEPT ![t] = "link"] /\ isFair' = isFair /\ arrivals' = Append(arrivals, t)
    BY <1>2 DEF CasTail
  <2>2. ~Queued(t) /\ Owner' = Owner
    BY <1>0, <2>1, OwnerStays DEF Owns, Inside, Queued
  <2>3. Owner # t
    BY <1>0a, <2>1 DEF OwnerDefined, Owns, Inside
  <2>4. Fifo!Join(t)
    BY <1>0, <2>1, <2>2, <2>3 DEF Fifo!Join
  <2>5. QED
    BY <2>4 DEF Fifo!Next
<1>3. ASSUME NEW t \in Threads, CasLock(t) PROVE Done
  <2>1. /\ ~isLocked /\ pc[t] = "casLock" /\ pc'[t] = "setHold" /\ isFair' = isFair /\ arrivals' = Tail(arrivals)
    BY <1>0, <1>3 DEF CasLock
  <2>2. arrivals # <<>> /\ Head(arrivals) = t
    BY <1>0, <2>1 DEF QInv, Members
  <2>3. Owner = Null /\ Owner' = t
    BY <1>0a, <2>1 DEF OwnerDefined, IInv, WordAgrees, Owns, Inside
  <2>4. Fifo!Grant
    BY <2>1, <2>2, <2>3 DEF Fifo!Grant
  <2>5. QED
    BY <2>4 DEF Fifo!Next
<1>4. ASSUME NEW t \in Threads, Release(t) PROVE Done
  <2>1. /\ pc[t] = "release" /\ pc' = [pc EXCEPT ![t] = "readHeadU"] /\ UNCHANGED <<isFair, arrivals>> /\ Owns(t)
    BY <1>4 DEF Release, Owns
  <2>2. Owner = t /\ t # Null
    BY <1>0a, <2>1 DEF OwnerDefined
  <2>3. \A u \in Threads : ~Owns(u)'
    BY <1>0, <2>1 DEF IInv, MutualExclusion, Owns, Inside
  <2>4. Owner' = Null
    BY <1>0a, <2>3 DEF OwnerDefined
  <2>5. Fifo!Release
    BY <2>1, <2>2, <2>4 DEF Fifo!Release
  <2>6. QED
    BY <2>5 DEF Fifo!Next
<1>5. ASSUME NEW t \in Threads, \/ LockFair(t) \/ BargeFails(t) \/ BargeHold(t) \/ ReadTail(t) \/ CasTailFails(t)
                                \/ Link(t) \/ ReadHead(t) \/ ReadNext(t) \/ CasLockFails(t) \/ Park(t)
                                \/ SpuriousWakeup(t) \/ SetHold(t) \/ Cut(t) \/ SetHead(t) \/ ReadHeadU(t)
                                \/ ReadNextU(t) \/ Unpark(t)
      PROVE  Done
  BY <1>0, <1>5, OwnerStays DEF Owns, Inside, LockFair, BargeFails, BargeHold, ReadTail, CasTailFails, Link,
     ReadHead, ReadNext, CasLockFails, Park, SpuriousWakeup, SetHold, Cut, SetHead, ReadHeadU, ReadNextU, Unpark
<1>6. ASSUME NEW t \in Threads, UnlockAllowed(t) \/ UnlockRefused(t) PROVE Done
  <2>1. UNCHANGED <<isFair, arrivals>> /\ \A u \in Threads : Owns(u)' <=> Owns(u)
    <3>1. \A u \in Threads \ {t} : pc'[u] = pc[u]
      BY <1>0, <1>6 DEF UnlockAllowed, UnlockRefused
    <3>2. (pc[t] = "critical" /\ pc'[t] = "release") \/ (pc[t] = "idle" /\ pc'[t] = "idle")
      <4>1. pc[t] = "critical" => holdThread = t
        BY DEF IInv, HolderRecorded
      <4>2. t \in Strangers => holdThread # t
        BY LockAssumption DEF IInv, Typed, Threads
      <4>3. pc[t] = "critical" \/ (pc[t] = "idle" /\ t \in Strangers)
        BY <1>6, NotCareless DEF UnlockAllowed, UnlockRefused, CallsUnlock, NotCareless
      <4>4. \/ holdThread = t /\ pc' = [pc EXCEPT ![t] = "release"]
            \/ holdThread # t /\ pc' = [pc EXCEPT ![t] = "idle"]
        BY <1>6 DEF UnlockAllowed, UnlockRefused
      <4>5. QED
        BY <1>0, <4>1, <4>2, <4>3, <4>4
    <3>3. QED
      BY <1>6, <3>1, <3>2 DEF UnlockAllowed, UnlockRefused, Owns, Inside
  <2>2. QED
    BY <1>0, <2>1, OwnerStays
<1>7. ASSUME UNCHANGED vars PROVE Done
  BY <1>0, <1>7, OwnerStays DEF vars, Owns
<1>8. QED
  BY <1>1, <1>2, <1>3, <1>4, <1>5, <1>6, <1>7 DEF Next, Running, Fifo!vars

\* The lock is a FIFO mutex: each grant goes to the thread that swung tail first, and only
\* an unfair lock lets a newcomer overtake.  (That a wanted lock is taken is TLC's.)
THEOREM LockIsFifo == NotCareless /\ Spec => Fifo!Safety
<1>1. Init => Fifo!Init
  <2>1. ASSUME Init PROVE Owner = Null
    BY <2>1 DEF Init, Owner, Owners, Owns, Inside
  <2>2. QED
    BY <2>1 DEF Init, Fifo!Init
<1>2. NotCareless /\ IInv /\ QInv /\ [Next]_vars => IInv' /\ QInv' /\ [Fifo!Next]_(Fifo!vars)
  BY NextQInv, FifoStep
<1>3. ASSUME NotCareless PROVE Spec => Fifo!Safety
  BY <1>3, <1>1, <1>2, InitIInv, InitQInv, PTL DEF Spec, Fifo!Safety
<1>4. QED
  BY <1>3
=============================================================================
