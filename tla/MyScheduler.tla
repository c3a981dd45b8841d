----------------------------- MODULE MyScheduler -----------------------------
(***************************************************************************)
(* handTearing/scheduler/MyScheduler.java: schedule() puts a periodic task *)
(* into a priority queue ordered by startTime and unparks the trigger; the *)
(* trigger thread hands due tasks to an executor and puts them back, and   *)
(* parks until the earliest start time otherwise.                          *)
(*                                                                         *)
(* The clock (System.currentTimeMillis) does not go back here.  The        *)
(* executor's queue is unbounded: execute() never refuses.                 *)
(***************************************************************************)
EXTENDS Integers, FiniteSets

CONSTANTS Tasks,    \* the calls of schedule(), one per caller thread
          Delays,   \* the delays they pass, in milliseconds
          MaxTime,  \* bound: the clock stops here
          None

ASSUME SchedulerAssumption == /\ Delays \subseteq Nat
                              /\ MaxTime \in Nat
                              /\ None \notin Tasks

VARIABLES now,
          scheduleTasks,  \* the queue: records [task, startTime]
          caller,         \* per task: where its call of schedule() stands
          delay,          \* per task: the argument of that call
          trigger,        \* where the trigger thread stands
          held,           \* the entry in the trigger's local variable, or None
          permit,         \* LockSupport's permit of the trigger thread
          lastTime        \* auxiliary, per task: time of its last dispatch, or of the call

vars == <<now, scheduleTasks, caller, delay, trigger, held, permit, lastTime>>

Init == /\ now = 0
        /\ scheduleTasks = {}
        /\ caller = [t \in Tasks |-> "new"]
        /\ delay = [t \in Tasks |-> 0]
        /\ trigger = "isEmpty"
        /\ held = None
        /\ permit = FALSE
        /\ lastTime = [t \in Tasks |-> 0]

\* Mutant: the order of ScheduleTask.compareTo reversed.
Earliest_Reversed(e) == e \in scheduleTasks /\ \A f \in scheduleTasks : e.startTime >= f.startTime

\* peek and poll return an entry no other precedes; ties are broken anyhow.
Earliest(e) == e \in scheduleTasks /\ \A f \in scheduleTasks : e.startTime <= f.startTime

Tick == /\ now < MaxTime
        /\ now' = now + 1
        /\ UNCHANGED <<scheduleTasks, caller, delay, trigger, held, permit, lastTime>>

-----------------------------------------------------------------------------
(* schedule(), run by the caller of task t *)

\* The start time is computed and kept in the entry not queued yet.
Schedule(t) == /\ caller[t] = "new"
               /\ \E d \in Delays : delay' = [delay EXCEPT ![t] = d]
               /\ caller' = [caller EXCEPT ![t] = "offer"]
               /\ lastTime' = [lastTime EXCEPT ![t] = now]
               /\ UNCHANGED <<now, scheduleTasks, trigger, held, permit>>

Offer(t) == /\ caller[t] = "offer"
            /\ scheduleTasks' = scheduleTasks \cup {[task |-> t, startTime |-> lastTime[t] + delay[t]]}
            /\ caller' = [caller EXCEPT ![t] = "unPark"]
            /\ UNCHANGED <<now, delay, trigger, held, permit, lastTime>>

\* Mutant: only a caller that sees its task alone in the queue wakes the trigger.
UnPark_IfAlone(t) == /\ caller[t] = "unPark"
                     /\ caller' = [caller EXCEPT ![t] = "done"]
                     /\ permit' = (permit \/ Cardinality(scheduleTasks) = 1)
                     /\ UNCHANGED <<now, scheduleTasks, delay, trigger, held, lastTime>>

UnPark(t) == /\ caller[t] = "unPark"
             /\ caller' = [caller EXCEPT ![t] = "done"]
             /\ permit' = TRUE
             /\ UNCHANGED <<now, scheduleTasks, delay, trigger, held, lastTime>>

-----------------------------------------------------------------------------
(* The trigger thread *)

Goto(from, to) == trigger = from /\ trigger' = to

IsEmpty == /\ Goto("isEmpty", IF scheduleTasks = {} THEN "park" ELSE "peek")
           /\ UNCHANGED <<now, scheduleTasks, caller, delay, held, permit, lastTime>>

\* Whatever ended park(), the loop tests isEmpty again.
AfterPark == "isEmpty"

Park == /\ permit
        /\ Goto("park", AfterPark)
        /\ permit' = FALSE
        /\ UNCHANGED <<now, scheduleTasks, caller, delay, held, lastTime>>

SpuriousWakeup == /\ \/ Goto("park", AfterPark) /\ UNCHANGED held
                     \/ Goto("parkUntil", "isEmpty") /\ held' = None
                  /\ UNCHANGED <<now, scheduleTasks, caller, delay, permit, lastTime>>

Peek == /\ Goto("peek", "test")
        /\ \E e \in scheduleTasks : Earliest(e) /\ held' = e
        /\ UNCHANGED <<now, scheduleTasks, caller, delay, permit, lastTime>>

Test == /\ Goto("test", IF held.startTime < now THEN "poll" ELSE "parkUntil")
        /\ UNCHANGED <<now, scheduleTasks, caller, delay, held, permit, lastTime>>

\* The entry polled may be another one than the entry peeked: one that was
\* added in between and starts earlier.
Poll == /\ Goto("poll", "execute")
        /\ \E e \in scheduleTasks : /\ Earliest(e)
                                    /\ held' = e
                                    /\ scheduleTasks' = scheduleTasks \ {e}
        /\ UNCHANGED <<now, caller, delay, permit, lastTime>>

Execute == /\ Goto("execute", "putBack")
           /\ lastTime' = [lastTime EXCEPT ![held.task] = now]
           /\ UNCHANGED <<now, scheduleTasks, caller, delay, held, permit>>

\* Only the trigger looks into the queue, so reading the clock and offering
\* the new entry are one step.
PutBack == /\ Goto("putBack", "isEmpty")
           /\ scheduleTasks' = scheduleTasks \cup
                {[task |-> held.task, startTime |-> now + delay[held.task]]}
           /\ held' = None
           /\ UNCHANGED <<now, caller, delay, permit, lastTime>>

\* Mutant: park() instead of parkUntil().
ParkUntil_NoDeadline == /\ Goto("parkUntil", "isEmpty")
                        /\ permit
                        /\ permit' = FALSE
                        /\ held' = None
                        /\ UNCHANGED <<now, scheduleTasks, caller, delay, lastTime>>

\* parkUntil() returns with the permit or at the deadline.
ParkUntil == /\ Goto("parkUntil", "isEmpty")
             /\ permit \/ held.startTime <= now
             /\ permit' = FALSE
             /\ held' = None
             /\ UNCHANGED <<now, scheduleTasks, caller, delay, lastTime>>

-----------------------------------------------------------------------------
Call(t) == Offer(t) \/ UnPark(t)
Trigger == IsEmpty \/ Park \/ Peek \/ Test \/ Poll \/ Execute \/ PutBack \/ ParkUntil

Next == \/ Tick \/ Trigger \/ SpuriousWakeup
        \/ \E t \in Tasks : Schedule(t) \/ Call(t)

\* Time passes, the trigger thread runs, a call of schedule() completes.
Fairness == WF_vars(Tick) /\ WF_vars(Trigger) /\ \A t \in Tasks : WF_vars(Call(t))

Spec == Init /\ [][Next]_vars /\ Fairness

-----------------------------------------------------------------------------
(* Properties *)

Entries == [task : Tasks, startTime : Nat]

TypeOK == /\ now \in 0 .. MaxTime
          /\ scheduleTasks \subseteq Entries
          /\ caller \in [Tasks -> {"new", "offer", "unPark", "done"}]
          /\ delay \in [Tasks -> Delays \cup {0}]
          /\ trigger \in {"isEmpty", "park", "peek", "test", "poll", "execute", "putBack", "parkUntil"}
          /\ held \in Entries \cup {None}
          /\ permit \in BOOLEAN
          /\ lastTime \in [Tasks -> 0 .. MaxTime]

\* A task starts only when more than its delay has passed since it last
\* started, or since schedule() was called: although the entry polled need
\* not be the entry whose start time was tested (L68-72).
NeverEarly == [][Execute => now > lastTime[held.task] + delay[held.task]]_vars

\* A task that was scheduled has one entry: in the queue or in the trigger's hands.
OneEntryEach ==
  \A t \in Tasks :
    caller[t] \in {"unPark", "done"} =>
      Cardinality({e \in scheduleTasks : e.task = t})
        + (IF trigger \in {"execute", "putBack"} /\ held.task = t THEN 1 ELSE 0) = 1

\* The trigger never looks into an empty queue: getStartTime (L68) does not
\* meet a null, and the assertion after poll (L73) holds.
FindsATask == trigger \in {"peek", "poll"} => scheduleTasks # {}

\* No wakeup is lost: while the trigger sleeps without a permit, nothing in
\* the queue starts before it wakes, unless a caller is about to unpark it.
SleepsToEarliest ==
  ~permit /\ trigger \in {"park", "parkUntil"} =>
    \/ \E t \in Tasks : caller[t] = "unPark"
    \/ \A e \in scheduleTasks : trigger = "parkUntil" /\ held.startTime <= e.startTime

\* The queue and the trigger agree, whatever callers do between two steps of the
\* trigger: one entry for a task, one to be found, none slept past.
QueueInOrder == TypeOK /\ OneEntryEach /\ FindsATask /\ SleepsToEarliest

\* Every scheduled task is started again and again, while the clock runs.
KeepsRunning ==
  \A t \in Tasks :
    (\E e \in scheduleTasks : e.task = t /\ e.startTime < MaxTime)
      ~> (trigger = "putBack" /\ held.task = t)
=============================================================================
