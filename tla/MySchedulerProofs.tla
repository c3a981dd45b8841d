-------------------------- MODULE MySchedulerProofs --------------------------
(***************************************************************************)
(* Nothing starts early, no entry is lost or doubled and no wakeup is lost, *)
(* for any number of callers, any delays and any time.  The invariant says *)
(* where the entry of each task is, that no entry in the queue starts      *)
(* before its delay is over, and what the trigger still knows of the entry *)
(* it looked at: others may have come since, but that one is still there.  *)
(***************************************************************************)
EXTENDS MyScheduler, FiniteSetTheorems, TLAPS

InHand(t) == trigger \in {"execute", "putBack"} /\ held.task = t

EntriesOf(t) == {e \in scheduleTasks : e.task = t}

\* A call of schedule() that has offered left one entry, which is in the queue or
\* in the trigger's hands.
HasItsPlace(t) ==
  /\ caller[t] \in {"new", "offer"} => EntriesOf(t) = {} /\ ~InHand(t)
  /\ caller[t] \in {"unPark", "done"} =>
       IF InHand(t) THEN EntriesOf(t) = {} ELSE \E e \in scheduleTasks : EntriesOf(t) = {e}
Placed == \A t \in Tasks : HasItsPlace(t)

\* Entries in the queue respect the delay of their task.
Timely == /\ \A t \in Tasks : lastTime[t] <= now
          /\ \A e \in scheduleTasks : e.startTime >= lastTime[e.task] + delay[e.task]

\* What the trigger has looked at: the entry it peeked is still in the queue; a
\* poll finds a due one; what it hands out is due.
Seen == /\ trigger \in {"test", "poll", "parkUntil"} => held \in scheduleTasks
        /\ trigger = "peek" => scheduleTasks # {}
        /\ trigger = "poll" => held.startTime < now
        /\ trigger \in {"execute", "putBack"} => held \in Entries
        /\ trigger = "execute" => now > lastTime[held.task] + delay[held.task]

\* The trigger is awake, or will be woken, for whatever came after it looked.
Woken == \/ permit
         \/ \E t \in Tasks : caller[t] = "unPark"
         \/ /\ trigger = "park" => scheduleTasks = {}
            /\ trigger \in {"test", "parkUntil"} =>
                 \A e \in scheduleTasks : held.startTime <= e.startTime

IInv == TypeOK /\ Placed /\ Timely /\ Seen /\ Woken

\* MyScheduler starts with nothing queued.
LEMMA InitHolds == Init => IInv
<1> SUFFICES ASSUME Init PROVE IInv
  OBVIOUS
<1> USE SchedulerAssumption DEF Init
<1>1. TypeOK
  <2>1. held \in Entries \cup {None} /\ scheduleTasks \subseteq Entries
    OBVIOUS
  <2>2. delay \in [Tasks -> Delays \cup {0}] /\ now \in 0 .. MaxTime
    OBVIOUS
  <2>3. lastTime \in [Tasks -> 0 .. MaxTime]
    OBVIOUS
  <2>4. QED
    BY <2>1, <2>2, <2>3 DEF TypeOK
<1>2. Placed
  BY DEF Placed, HasItsPlace, EntriesOf, InHand
<1>3. Timely /\ Seen /\ Woken
  BY DEF Timely, Seen, Woken
<1>4. QED
  BY <1>1, <1>2, <1>3 DEF IInv

\* Steps keep the types: what is put back is an entry, as what was held is one.
LEMMA Typed == IInv /\ [Next]_vars => TypeOK'
<1> SUFFICES ASSUME IInv, [Next]_vars PROVE TypeOK'
  OBVIOUS
<1> USE SchedulerAssumption DEF IInv, TypeOK, Seen, Entries
<1>1. CASE Tick
  BY <1>1 DEF Tick
<1>2. CASE IsEmpty
  BY <1>2 DEF IsEmpty, Goto
<1>3. CASE Park
  BY <1>3 DEF Park, Goto, AfterPark
<1>4. CASE Peek
  BY <1>4 DEF Peek, Goto, Earliest
<1>5. CASE Test
  BY <1>5 DEF Test, Goto
<1>6. CASE Poll
  BY <1>6 DEF Poll, Goto, Earliest
<1>7. CASE Execute
  BY <1>7 DEF Execute, Goto
<1>8. CASE PutBack
  BY <1>8 DEF PutBack, Goto
<1>9. CASE ParkUntil
  BY <1>9 DEF ParkUntil, Goto
<1>10. CASE SpuriousWakeup
  BY <1>10 DEF SpuriousWakeup, Goto, AfterPark
<1>11. ASSUME NEW t \in Tasks, Schedule(t) PROVE TypeOK'
  BY <1>11 DEF Schedule
<1>12. ASSUME NEW t \in Tasks, Offer(t) PROVE TypeOK'
  BY <1>12 DEF Offer
<1>13. ASSUME NEW t \in Tasks, UnPark(t) PROVE TypeOK'
  BY <1>13 DEF UnPark
<1>14. CASE UNCHANGED vars
  BY <1>14 DEF vars
<1>15. QED
  BY <1>1, <1>2, <1>3, <1>4, <1>5, <1>6, <1>7, <1>8, <1>9, <1>10, <1>11, <1>12, <1>13, <1>14 DEF Next, Trigger, Call

\* schedule() and the trigger's putting back are the only steps that add an entry,
\* and each has none of its task to add it to.
LEMMA PlacedStays == IInv /\ [Next]_vars => Placed'
<1> SUFFICES ASSUME IInv, [Next]_vars, NEW t \in Tasks PROVE HasItsPlace(t)'
  BY DEF Placed
<1> HasItsPlace(t) /\ TypeOK /\ Seen
  BY DEF IInv, Placed
<1> USE DEF HasItsPlace, EntriesOf, InHand, TypeOK
<1>1. CASE Tick
  BY <1>1 DEF Tick
<1>2. CASE IsEmpty
  BY <1>2 DEF IsEmpty, Goto
<1>3. CASE Park
  BY <1>3 DEF Park, Goto, AfterPark
<1>4. CASE Peek
  BY <1>4 DEF Peek, Goto, Earliest
<1>5. CASE Test
  BY <1>5 DEF Test, Goto
<1>6. CASE ParkUntil
  BY <1>6 DEF ParkUntil, Goto
<1>7. CASE SpuriousWakeup
  BY <1>7 DEF SpuriousWakeup, Goto, AfterPark
<1>8. CASE Poll
  BY <1>8 DEF Poll, Goto, Earliest
<1>9. CASE Execute
  BY <1>9 DEF Execute, Goto
<1>10. CASE PutBack
  <2> DEFINE n == [task |-> held.task, startTime |-> now + delay[held.task]]
  <2>1. scheduleTasks' = scheduleTasks \cup {n} /\ n.task = held.task
    BY <1>10 DEF PutBack, Goto
  <2>2. CASE t = held.task
    <3>1. EntriesOf(t) = {} /\ EntriesOf(t)' = {n} /\ ~InHand(t)'
      BY <1>10, <2>1, <2>2 DEF PutBack, Goto
    <3>2. caller[t]' \in {"unPark", "done"} /\ n \in scheduleTasks'
      BY <1>10, <2>1, <2>2 DEF PutBack, Goto
    <3>3. QED
      BY <3>1, <3>2 DEF HasItsPlace
  <2>3. CASE t # held.task
    <3>1. EntriesOf(t)' = EntriesOf(t)
      BY <2>1, <2>3
    <3>2. caller[t]' = caller[t] /\ (InHand(t)' <=> InHand(t)) /\ scheduleTasks \subseteq scheduleTasks'
      BY <1>10, <2>1, <2>3 DEF PutBack, Goto
    <3>3. QED
      BY <3>1, <3>2
  <2>4. QED
    BY <2>2, <2>3
<1>11. ASSUME NEW u \in Tasks, Schedule(u) PROVE HasItsPlace(t)'
  BY <1>11 DEF Schedule
<1>12. ASSUME NEW u \in Tasks, Offer(u) PROVE HasItsPlace(t)'
  <2> DEFINE n == [task |-> u, startTime |-> lastTime[u] + delay[u]]
  <2>1. scheduleTasks' = scheduleTasks \cup {n} /\ n.task = u
    BY <1>12 DEF Offer
  <2>2. CASE t = u
    <3>1. EntriesOf(t) = {} /\ EntriesOf(t)' = {n} /\ ~InHand(t)'
      BY <1>12, <2>1, <2>2 DEF Offer
    <3>2. caller[t]' \in {"unPark", "done"} /\ n \in scheduleTasks'
      BY <1>12, <2>1, <2>2 DEF Offer
    <3>3. QED
      BY <3>1, <3>2 DEF HasItsPlace
  <2>3. CASE t # u
    <3>1. EntriesOf(t)' = EntriesOf(t)
      BY <2>1, <2>3
    <3>2. caller[t]' = caller[t] /\ (InHand(t)' <=> InHand(t)) /\ scheduleTasks \subseteq scheduleTasks'
      BY <1>12, <2>1, <2>3 DEF Offer
    <3>3. QED
      BY <3>1, <3>2
  <2>4. QED
    BY <2>2, <2>3
<1>13. ASSUME NEW u \in Tasks, UnPark(u) PROVE HasItsPlace(t)'
  BY <1>13 DEF UnPark
<1>14. CASE UNCHANGED vars
  BY <1>14 DEF vars
<1>15. QED
  BY <1>1, <1>2, <1>3, <1>4, <1>5, <1>6, <1>7, <1>8, <1>9, <1>10, <1>11, <1>12, <1>13, <1>14 DEF Next, Trigger, Call

\* The start of a task moves its next start: its entry is in the trigger's hands then.
LEMMA TimelyStays == IInv /\ [Next]_vars => Timely'
<1> SUFFICES ASSUME IInv, [Next]_vars PROVE Timely'
  OBVIOUS
<1> USE SchedulerAssumption DEF IInv, TypeOK, Timely, Entries
<1>1. CASE Tick
  BY <1>1 DEF Tick
<1>2. CASE IsEmpty
  BY <1>2 DEF IsEmpty, Goto
<1>3. CASE Park
  BY <1>3 DEF Park, Goto, AfterPark
<1>4. CASE Peek
  BY <1>4 DEF Peek, Goto, Earliest
<1>5. CASE Test
  BY <1>5 DEF Test, Goto
<1>6. CASE ParkUntil
  BY <1>6 DEF ParkUntil, Goto
<1>7. CASE SpuriousWakeup
  BY <1>7 DEF SpuriousWakeup, Goto, AfterPark
<1>8. CASE Poll
  BY <1>8 DEF Poll, Goto, Earliest
<1>9. CASE Execute
  <2>1. held.task \in Tasks /\ EntriesOf(held.task) = {}
    BY <1>9 DEF Execute, Goto, Seen, Placed, HasItsPlace, InHand
  <2>2. \A e \in scheduleTasks : e.task # held.task
    BY <2>1 DEF EntriesOf
  <2>3. QED
    BY <1>9, <2>1, <2>2 DEF Execute
<1>10. CASE PutBack
  <2> DEFINE n == [task |-> held.task, startTime |-> now + delay[held.task]]
  <2>1. held.task \in Tasks /\ delay[held.task] \in Nat /\ scheduleTasks' = scheduleTasks \cup {n}
    BY <1>10 DEF PutBack, Goto, Seen
  <2>2. n.startTime >= lastTime[n.task] + delay[n.task]
    BY <2>1
  <2>3. QED
    BY <1>10, <2>1, <2>2 DEF PutBack
<1>11. ASSUME NEW u \in Tasks, Schedule(u) PROVE Timely'
  <2>1. EntriesOf(u) = {}
    BY <1>11 DEF Schedule, Placed, HasItsPlace
  <2>2. \A e \in scheduleTasks : e.task # u
    BY <2>1 DEF EntriesOf
  <2>3. QED
    BY <1>11, <2>2 DEF Schedule
<1>12. ASSUME NEW u \in Tasks, Offer(u) PROVE Timely'
  BY <1>12 DEF Offer
<1>13. ASSUME NEW u \in Tasks, UnPark(u) PROVE Timely'
  BY <1>13 DEF UnPark
<1>14. CASE UNCHANGED vars
  BY <1>14 DEF vars
<1>15. QED
  BY <1>1, <1>2, <1>3, <1>4, <1>5, <1>6, <1>7, <1>8, <1>9, <1>10, <1>11, <1>12, <1>13, <1>14 DEF Next, Trigger, Call

\* Only the trigger takes entries away; the one it polls is due, as an earlier one is.
LEMMA SeenStays == IInv /\ [Next]_vars => Seen'
<1> SUFFICES ASSUME IInv, [Next]_vars PROVE Seen'
  OBVIOUS
<1> USE SchedulerAssumption DEF IInv, TypeOK, Seen, Entries
<1>1. CASE Tick
  BY <1>1 DEF Tick
<1>2. CASE IsEmpty
  BY <1>2 DEF IsEmpty, Goto
<1>3. CASE Park
  BY <1>3 DEF Park, Goto, AfterPark
<1>4. CASE Peek
  BY <1>4 DEF Peek, Goto, Earliest
<1>5. CASE Test
  BY <1>5 DEF Test, Goto
<1>6. CASE ParkUntil
  BY <1>6 DEF ParkUntil, Goto
<1>7. CASE SpuriousWakeup
  BY <1>7 DEF SpuriousWakeup, Goto, AfterPark
<1>8. CASE Poll
  <2>1. PICK e \in scheduleTasks : Earliest(e) /\ held' = e
    BY <1>8 DEF Poll
  <2>2. held \in scheduleTasks /\ held.startTime < now
    BY <1>8 DEF Poll, Goto
  <2>3. e.startTime < now /\ e.startTime >= lastTime[e.task] + delay[e.task]
    BY <2>1, <2>2 DEF Earliest, Timely
  <2>4. QED
    BY <1>8, <2>1, <2>3 DEF Poll, Goto
<1>9. CASE Execute
  BY <1>9 DEF Execute, Goto
<1>10. CASE PutBack
  BY <1>10 DEF PutBack, Goto
<1>11. ASSUME NEW u \in Tasks, Schedule(u) PROVE Seen'
  <2>1. trigger = "execute" => held.task # u
    BY <1>11 DEF Schedule, Placed, HasItsPlace, InHand
  <2>2. QED
    BY <1>11, <2>1 DEF Schedule
<1>12. ASSUME NEW u \in Tasks, Offer(u) PROVE Seen'
  BY <1>12 DEF Offer
<1>13. ASSUME NEW u \in Tasks, UnPark(u) PROVE Seen'
  BY <1>13 DEF UnPark
<1>14. CASE UNCHANGED vars
  BY <1>14 DEF vars
<1>15. QED
  BY <1>1, <1>2, <1>3, <1>4, <1>5, <1>6, <1>7, <1>8, <1>9, <1>10, <1>11, <1>12, <1>13, <1>14 DEF Next, Trigger, Call

\* A caller offers before it unparks: from then on a caller is about to, or has.
LEMMA WokenStays == IInv /\ [Next]_vars => Woken'
<1> SUFFICES ASSUME IInv, [Next]_vars PROVE Woken'
  OBVIOUS
<1> USE DEF IInv, TypeOK, Woken
<1>1. CASE Tick
  BY <1>1 DEF Tick
<1>2. CASE IsEmpty
  BY <1>2 DEF IsEmpty, Goto
<1>3. CASE Park
  BY <1>3 DEF Park, Goto, AfterPark
<1>4. CASE Peek
  BY <1>4 DEF Peek, Goto, Earliest
<1>5. CASE Test
  BY <1>5 DEF Test, Goto
<1>6. CASE ParkUntil
  BY <1>6 DEF ParkUntil, Goto
<1>7. CASE SpuriousWakeup
  BY <1>7 DEF SpuriousWakeup, Goto, AfterPark
<1>8. CASE Poll
  BY <1>8 DEF Poll, Goto, Earliest
<1>9. CASE Execute
  BY <1>9 DEF Execute, Goto
<1>10. CASE PutBack
  BY <1>10 DEF PutBack, Goto
<1>11. ASSUME NEW u \in Tasks, Schedule(u) PROVE Woken'
  BY <1>11 DEF Schedule
<1>12. ASSUME NEW u \in Tasks, Offer(u) PROVE Woken'
  BY <1>12 DEF Offer
<1>13. ASSUME NEW u \in Tasks, UnPark(u) PROVE Woken'
  BY <1>13 DEF UnPark
<1>14. CASE UNCHANGED vars
  BY <1>14 DEF vars
<1>15. QED
  BY <1>1, <1>2, <1>3, <1>4, <1>5, <1>6, <1>7, <1>8, <1>9, <1>10, <1>11, <1>12, <1>13, <1>14 DEF Next, Trigger, Call

\* Every step of the scheduler keeps the invariant.
LEMMA Inductive == IInv /\ [Next]_vars => IInv'
  BY Typed, PlacedStays, TimelyStays, SeenStays, WokenStays DEF IInv

\* The invariant holds in all states of the scheduler.
LEMMA Invariant == Spec => []IInv
  BY InitHolds, Inductive, PTL DEF Spec

-----------------------------------------------------------------------------
\* One entry of a task is one: Placed counted.
LEMMA Counted == IInv => OneEntryEach
<1> SUFFICES ASSUME IInv, NEW t \in Tasks, caller[t] \in {"unPark", "done"}
             PROVE  Cardinality(EntriesOf(t))
                      + (IF trigger \in {"execute", "putBack"} /\ held.task = t THEN 1 ELSE 0) = 1
  BY DEF OneEntryEach, EntriesOf
<1>1. HasItsPlace(t)
  BY DEF IInv, Placed
<1>2. CASE InHand(t)
  BY <1>1, <1>2, FS_EmptySet DEF HasItsPlace, InHand
<1>3. CASE ~InHand(t)
  <2>1. PICK e \in scheduleTasks : EntriesOf(t) = {e}
    BY <1>1, <1>3 DEF HasItsPlace
  <2>2. Cardinality(EntriesOf(t)) = 1
    BY <2>1, FS_Singleton
  <2>3. QED
    BY <1>3, <2>2 DEF InHand
<1>4. QED
  BY <1>2, <1>3

\* Schedulers keep their entries: each task that was scheduled has exactly one,
\* the trigger finds one when it looks, and it never sleeps past one.
THEOREM QueueStaysInOrder == Spec => []QueueInOrder
<1>1. IInv => FindsATask /\ SleepsToEarliest
  BY DEF IInv, Seen, Woken, FindsATask, SleepsToEarliest
<1>2. IInv => QueueInOrder
  BY <1>1, Counted DEF IInv, QueueInOrder
<1>3. QED
  BY <1>2, Invariant, PTL

\* No task starts before its delay is over, whatever comes into the queue between
\* the trigger's look at it and its poll.
THEOREM NothingIsEarly == Spec => NeverEarly
<1>1. IInv /\ [Next]_vars => [Execute => now > lastTime[held.task] + delay[held.task]]_vars
  BY DEF IInv, Seen, Execute, Goto
<1>2. QED
  BY <1>1, Invariant, PTL DEF Spec, NeverEarly
=============================================================================
