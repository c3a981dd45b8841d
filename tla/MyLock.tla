------------------------------- MODULE MyLock -------------------------------
(***************************************************************************)
(* handTearing/lock/MyLock.java: a blocking mutual-exclusion lock with a   *)
(* linked queue of waiting threads.  Every access to a variable that       *)
(* another thread can see is a step of its own; accesses only one thread   *)
(* makes (thisNode.prev) are merged with the step beside them.  Interleaved *)
(* steps are the outcomes of the build: each plain store to "next" is      *)
(* followed by a compareAndSet of its thread before that thread parks.     *)
(*                                                                         *)
(* The object allocated by the k-th call of lock() by thread t is the pair *)
(* <<t, k>>, so its "thread" field needs no variable.                      *)
(***************************************************************************)
EXTENDS Naturals, Sequences

CONSTANTS Lockers,    \* threads that call lock(), then unlock()
          Strangers,  \* threads that call unlock() and never lock()
          Careless,   \* lockers that may call unlock() again after unlocking
          MaxCalls,   \* bound: calls of lock() per thread
          Once,       \* bound: the lockers that call it no more than once
          Dummy,      \* the node the constructor puts in head and tail
          Null        \* Java null, for threads and nodes

Threads == Lockers \cup Strangers

CallsOf(t) == IF t \in Once THEN 1 ELSE MaxCalls

Nodes == (UNION {{t} \X (1 .. CallsOf(t)) : t \in Lockers}) \cup {Dummy}

ASSUME LockAssumption == /\ Careless \subseteq Lockers
                         /\ Strangers \cap Lockers = {}
                         /\ MaxCalls \in Nat
                         /\ Null \notin Nodes \cup Threads
                         /\ Dummy \notin Lockers \X Nat

VARIABLES isFair, isLocked, holdThread, head, tail,  \* the fields of MyLock
          next, prev,                        \* the fields of the ThreadNodes
          permit,                            \* LockSupport's permit, per thread
          pc,                                \* where each thread stands
          calls,                             \* calls of lock() made so far
          local,                             \* the node in each thread's local variable
          arrivals                           \* auxiliary: threads in the order they swung tail

\* isFair keeps the constructor's argument: no step changes it.
fields == <<isFair, isLocked, holdThread, head, tail, next, prev>>
vars   == <<fields, permit, pc, calls, local, arrivals>>

ThreadOf(n) == n[1]
Node(t)     == <<t, calls[t]>>        \* thisNode

Init == /\ isFair \in BOOLEAN
        /\ isLocked = FALSE
        /\ holdThread = Null
        /\ head = Dummy /\ tail = Dummy
        /\ next = [n \in Nodes |-> Null]
        /\ prev = [n \in Nodes |-> Null]
        /\ permit = [t \in Threads |-> FALSE]
        /\ pc = [t \in Threads |-> "idle"]
        /\ calls = [t \in Threads |-> 0]
        /\ local = [t \in Threads |-> Null]
        /\ arrivals = <<>>

Goto(t, from, to) == pc[t] = from /\ pc' = [pc EXCEPT ![t] = to]

-----------------------------------------------------------------------------
(* lock() *)

Enter(t) == t \in Lockers /\ calls[t] < CallsOf(t) /\ calls' = [calls EXCEPT ![t] = @ + 1]

LockFair(t) == /\ isFair
               /\ Enter(t)
               /\ Goto(t, "idle", "readTail")
               /\ UNCHANGED <<fields, permit, local, arrivals>>

\* A newcomer finds the lock free and takes it, past the queue.
Barge(t) == /\ ~isFair
            /\ Enter(t)
            /\ ~isLocked
            /\ isLocked' = TRUE
            /\ Goto(t, "idle", "bargeHold")
            /\ UNCHANGED <<isFair, holdThread, head, tail, next, prev, permit, local, arrivals>>

BargeFails(t) == /\ ~isFair
                 /\ Enter(t)
                 /\ isLocked
                 /\ Goto(t, "idle", "readTail")
                 /\ UNCHANGED <<fields, permit, local, arrivals>>

BargeHold(t) == /\ Goto(t, "bargeHold", "critical")
                /\ holdThread' = t
                /\ UNCHANGED <<isFair, isLocked, head, tail, next, prev, permit, calls, local, arrivals>>

ReadTail(t) == /\ Goto(t, "readTail", "casTail")
               /\ local' = [local EXCEPT ![t] = tail]
               /\ UNCHANGED <<fields, permit, calls, arrivals>>

CasTail(t) == /\ tail = local[t]
              /\ Goto(t, "casTail", "link")
              /\ tail' = Node(t)
              /\ arrivals' = Append(arrivals, t)
              /\ UNCHANGED <<isFair, isLocked, holdThread, head, next, prev, permit, calls, local>>

CasTailFails(t) == /\ tail # local[t]
                   /\ Goto(t, "casTail", "readTail")
                   /\ local' = [local EXCEPT ![t] = Null]
                   /\ UNCHANGED <<fields, permit, calls, arrivals>>

\* Mutant: a thread parks as soon as it is linked, without trying once.
Link_ParkAtOnce(t) == /\ Goto(t, "link", "park")
                      /\ next' = [next EXCEPT ![local[t]] = Node(t)]
                      /\ prev' = [prev EXCEPT ![Node(t)] = local[t]]
                      /\ local' = [local EXCEPT ![t] = Null]
                      /\ UNCHANGED <<isFair, isLocked, holdThread, head, tail, permit, calls, arrivals>>

Link(t) == /\ Goto(t, "link", "readHead")
           /\ next' = [next EXCEPT ![local[t]] = Node(t)]
           /\ prev' = [prev EXCEPT ![Node(t)] = local[t]]
           /\ local' = [local EXCEPT ![t] = Null]
           /\ UNCHANGED <<isFair, isLocked, holdThread, head, tail, permit, calls, arrivals>>

\* The condition of the second loop: head.get(), then .next, then the compareAndSet.
ReadHead(t) == /\ Goto(t, "readHead", "readNext")
               /\ local' = [local EXCEPT ![t] = head]
               /\ UNCHANGED <<fields, permit, calls, arrivals>>

\* Mutant: any queued thread tries for the lock, not only head's successor.
ReadNext_AnyTries(t) == /\ Goto(t, "readNext", "casLock")
                        /\ local' = [local EXCEPT ![t] = Null]
                        /\ UNCHANGED <<fields, permit, calls, arrivals>>

ReadNext(t) == /\ Goto(t, "readNext", IF next[local[t]] = Node(t) THEN "casLock" ELSE "park")
               /\ local' = [local EXCEPT ![t] = Null]
               /\ UNCHANGED <<fields, permit, calls, arrivals>>

\* Mutant: set instead of compareAndSet.
CasLock_Set(t) == /\ isLocked' = TRUE
                  /\ Goto(t, "casLock", "setHold")
                  /\ arrivals' = Tail(arrivals)
                  /\ UNCHANGED <<isFair, holdThread, head, tail, next, prev, permit, calls, local>>

CasLock(t) == /\ ~isLocked
              /\ isLocked' = TRUE
              /\ Goto(t, "casLock", "setHold")
              /\ arrivals' = Tail(arrivals)
              /\ UNCHANGED <<isFair, holdThread, head, tail, next, prev, permit, calls, local>>

CasLockFails(t) == /\ isLocked
                   /\ Goto(t, "casLock", "park")
                   /\ UNCHANGED <<fields, permit, calls, local, arrivals>>

\* LockSupport.park() returns with the permit, or for no reason.
Park(t) == /\ permit[t]
           /\ Goto(t, "park", "readHead")
           /\ permit' = [permit EXCEPT ![t] = FALSE]
           /\ UNCHANGED <<fields, calls, local, arrivals>>

SpuriousWakeup(t) == /\ Goto(t, "park", "readHead")
                     /\ UNCHANGED <<fields, permit, calls, local, arrivals>>

SetHold(t) == /\ Goto(t, "setHold", "cut")
              /\ holdThread' = t
              /\ UNCHANGED <<isFair, isLocked, head, tail, next, prev, permit, calls, local, arrivals>>

Cut(t) == /\ Goto(t, "cut", "setHead")
          /\ next' = [next EXCEPT ![prev[Node(t)]] = Null]
          /\ prev' = [prev EXCEPT ![Node(t)] = Null]
          /\ UNCHANGED <<isFair, isLocked, holdThread, head, tail, permit, calls, local, arrivals>>

\* Mutant: head is not moved.
SetHead_Forgotten(t) == /\ Goto(t, "setHead", "critical")
                        /\ UNCHANGED <<fields, permit, calls, local, arrivals>>

SetHead(t) == /\ Goto(t, "setHead", "critical")
              /\ head' = Node(t)
              /\ UNCHANGED <<isFair, isLocked, holdThread, tail, next, prev, permit, calls, local, arrivals>>

-----------------------------------------------------------------------------
(* unlock() *)

\* Who calls unlock(): a thread in its critical section, a stranger at any
\* time, a careless thread that is no longer inside.
CallsUnlock(t) == pc[t] = "critical" \/ (pc[t] = "idle" /\ t \in Strangers \cup Careless)

UnlockAllowed(t) == /\ CallsUnlock(t)
                    /\ holdThread = t
                    /\ pc' = [pc EXCEPT ![t] = "release"]
                    /\ UNCHANGED <<fields, permit, calls, local, arrivals>>

\* The RuntimeException leaves the lock as it was.
UnlockRefused(t) == /\ CallsUnlock(t)
                    /\ holdThread # t
                    /\ pc' = [pc EXCEPT ![t] = "idle"]
                    /\ UNCHANGED <<fields, permit, calls, local, arrivals>>

Release(t) == /\ Goto(t, "release", "readHeadU")
              /\ isLocked' = FALSE
              /\ UNCHANGED <<isFair, holdThread, head, tail, next, prev, permit, calls, local, arrivals>>

ReadHeadU(t) == /\ Goto(t, "readHeadU", "readNextU")
                /\ local' = [local EXCEPT ![t] = head]
                /\ UNCHANGED <<fields, permit, calls, arrivals>>

ReadNextU(t) == /\ Goto(t, "readNextU", IF next[local[t]] = Null THEN "idle" ELSE "unpark")
                /\ local' = [local EXCEPT ![t] = next[local[t]]]
                /\ UNCHANGED <<fields, permit, calls, arrivals>>

Unpark(t) == /\ Goto(t, "unpark", "idle")
             /\ permit' = [permit EXCEPT ![ThreadOf(local[t])] = TRUE]
             /\ local' = [local EXCEPT ![t] = Null]
             /\ UNCHANGED <<fields, calls, arrivals>>

-----------------------------------------------------------------------------
\* The steps a thread takes once it is inside lock() or in its critical section.
Running(t) == \/ BargeHold(t) \/ ReadTail(t) \/ CasTail(t) \/ CasTailFails(t) \/ Link(t)
              \/ ReadHead(t) \/ ReadNext(t) \/ CasLock(t) \/ CasLockFails(t) \/ Park(t)
              \/ SetHold(t) \/ Cut(t) \/ SetHead(t)
              \/ Release(t) \/ ReadHeadU(t) \/ ReadNextU(t) \/ Unpark(t)

Next == \E t \in Threads : \/ LockFair(t) \/ Barge(t) \/ BargeFails(t)
                           \/ UnlockAllowed(t) \/ UnlockRefused(t)
                           \/ Running(t) \/ SpuriousWakeup(t)

\* The scheduler runs every thread that can run, and a thread in its critical
\* section unlocks.  Nothing forces a call of lock() or a spurious wakeup.
Fairness == \A t \in Threads : /\ WF_vars(Running(t))
                               /\ WF_vars(pc[t] = "critical" /\ UnlockAllowed(t))

Spec == Init /\ [][Next]_vars /\ Fairness

-----------------------------------------------------------------------------
(* Properties *)

\* The thread took isLocked from FALSE to TRUE and has not put it back.
Inside == {"bargeHold", "setHold", "cut", "setHead", "critical"}
Owns(t) == pc[t] \in Inside \cup {"release"}

\* The thread swung tail to its node and was not served yet.
Queued(t) == pc[t] \in {"link", "readHead", "readNext", "casLock", "park"}

Labels == {"idle", "readTail", "casTail", "unpark", "readHeadU", "readNextU"}
          \cup Inside \cup {"release", "link", "readHead", "readNext", "casLock", "park"}

TypeOK == /\ isFair \in BOOLEAN
          /\ isLocked \in BOOLEAN
          /\ holdThread \in Lockers \cup {Null}
          /\ head \in Nodes /\ tail \in Nodes
          /\ next \in [Nodes -> Nodes \cup {Null}]
          /\ prev \in [Nodes -> Nodes \cup {Null}]
          /\ permit \in [Threads -> BOOLEAN]
          /\ pc \in [Threads -> Labels]
          /\ calls \in [Threads -> Nat] /\ \A t \in Lockers : calls[t] <= CallsOf(t)
          /\ local \in [Threads -> Nodes \cup {Null}]
          /\ arrivals \in Seq(Lockers)

\* No two threads are between taking isLocked and giving it back: the count
\* of LockTest cannot lose a decrement.  Strangers may call unlock() at any time.
MutualExclusion == \A t, u \in Threads : Owns(t) /\ Owns(u) => t = u

\* unlock() never throws at the thread that holds the lock: holdThread is
\* not a moment behind isLocked where its reader relies on it (L106-108).
HolderIsNotRefused == [][\A t \in Threads : pc[t] = "critical" => pc'[t] # "idle"]_vars

\* unlock() by a thread that does not hold the lock is an error (the class
\* comment, L22, and L105), so the lock is never freed under a thread that is
\* inside.  The code breaks it: holdThread still names a former holder until
\* the next one writes it, and a careless thread passes the check once more.
NeverFreedUnderHolder == [][isLocked /\ ~isLocked' => \A t \in Threads : pc'[t] \notin Inside]_vars

\* No wakeup is lost: when the first of the queue sleeps without a permit,
\* the lock is held or an unlock() is still on its way to wake somebody.
FirstIsWoken ==
  \A t \in Threads :
    pc[t] = "park" /\ ~permit[t] /\ Head(arrivals) = t =>
      isLocked \/ \E u \in Threads : \/ pc[u] = "readHeadU"
                                     \/ pc[u] = "readNextU" /\ next[local[u]] = Node(t)
                                     \/ pc[u] = "unpark" /\ ThreadOf(local[u]) = t

\* The queue serves its first: its state is in order, and no wakeup is lost.
NoLostWakeup == TypeOK /\ FirstIsWoken

\* A call of lock() returns, when the others call lock() finitely often and
\* every holder unlocks.
CallsReturn == \A t \in Lockers : pc[t] = "readTail" ~> pc[t] = "critical"

\* The lock is a FIFO mutex: the queue is the order of the tail swings, each
\* grant serves the first of it, and only an unfair lock lets newcomers barge.
Owners == {t \in Threads : Owns(t)}
Owner  == IF Owners = {} THEN Null ELSE CHOOSE t \in Owners : TRUE
Fifo == INSTANCE FifoMutex WITH
          NoThread <- Null,
          fair     <- isFair,
          owner    <- Owner,
          waiting  <- arrivals
ImplementsFifoMutex == Fifo!Spec
=============================================================================
