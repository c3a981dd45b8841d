----------------------------- MODULE MyExecutor -----------------------------
(***************************************************************************)
(* handTearing/executor/MyExecutor.java: a thread pool with core threads,  *)
(* a bounded task queue, support threads that end after a timeout, and a   *)
(* reject policy (ThrowRejectPolicy: the caller gets an exception).        *)
(*                                                                         *)
(* execute() takes no lock, so its tests and the two ArrayLists it shares  *)
(* with the support threads interleave.  ArrayList.add is a read of size   *)
(* and a write; remove is a search, a shift with a read of size, and a     *)
(* write.  taskQueue is an ArrayBlockingQueue: offer, take, poll are atomic. *)
(***************************************************************************)
EXTENDS Integers, Sequences, FiniteSets, SequencesExt, TLC

CONSTANTS Submitters,  \* threads that may call execute()
          TaskCount,   \* bound: the commands they hand over are 1, 2, ... in this order
          Pools        \* the pools and the clients considered, one record each (see below)

Tasks == 1 .. TaskCount
None  == 0

\* A pool as its constructor was called, and its clients: the threads that
\* call execute(), how many tasks they have, and the tasks whose run() ends
\* with a RuntimeException.
ASSUME ExecutorAssumption ==
  /\ TaskCount \in Nat
  /\ Pools \subseteq [coreThreadCount : Nat, maxThreadCount : Nat, capacity : Nat \ {0},
                       clients : SUBSET Submitters, tasks : Tasks, throwing : SUBSET Tasks]

\* One execute() constructs at most a core thread and a support thread, so a
\* worker is named by its class and the command of the call that made it.
Core(c)    == <<"core", c>>
Support(c) == <<"support", c>>
Workers    == {"core", "support"} \X Tasks
NoWorker   == <<>>

VARIABLES pool,                   \* the pool and its clients: no step changes them
          pc, cmd, seen,          \* per submitter: position, command, local size
          coreSize,               \* coreThreads.size(); nothing is ever removed from it
          slots, supportSize,     \* supportThreads: elementData and size
          taskQueue,
          handed,                 \* number of tasks handed over
          state, task, at,        \* per worker: position, command, local index
          finished, rejected      \* auxiliary: tasks whose run() ended, tasks refused

subVars  == <<pc, cmd, seen>>
listVars == <<coreSize, slots, supportSize>>
wrkVars  == <<state, task, at>>
vars == <<pool, subVars, listVars, wrkVars, taskQueue, handed, finished, rejected>>

Init == /\ pool \in Pools
        /\ pc = [s \in Submitters |-> "idle"]
        /\ cmd = [s \in Submitters |-> None]
        /\ seen = [s \in Submitters |-> 0]
        /\ coreSize = 0
        /\ slots = [i \in 1 .. TaskCount |-> NoWorker]
        /\ supportSize = 0
        /\ taskQueue = <<>>
        /\ handed = 0
        /\ state = [w \in Workers |-> "new"]
        /\ task = [w \in Workers |-> None]
        /\ at = [w \in Workers |-> 0]
        /\ finished = {} /\ rejected = {}

-----------------------------------------------------------------------------
(* execute() *)

Goto(s, from, to) == pc[s] = from /\ pc' = [pc EXCEPT ![s] = to]
Return(s, from)   == Goto(s, from, "idle") /\ cmd' = [cmd EXCEPT ![s] = None]

Execute(s) == /\ s \in pool.clients
              /\ handed < pool.tasks
              /\ handed' = handed + 1
              /\ Goto(s, "idle", "checkCore")
              /\ cmd' = [cmd EXCEPT ![s] = handed + 1]
              /\ UNCHANGED <<pool, seen, listVars, wrkVars, taskQueue, finished, rejected>>

CheckCore(s) == /\ Goto(s, "checkCore", IF coreSize < pool.coreThreadCount THEN "readCore" ELSE "offer")
                /\ UNCHANGED <<pool, cmd, seen, listVars, wrkVars, taskQueue, handed, finished, rejected>>

\* new CoreThread(), and the read of size in coreThreads.add
ReadCoreSize(s) == /\ Goto(s, "readCore", "addCore")
                   /\ seen' = [seen EXCEPT ![s] = coreSize]
                   /\ UNCHANGED <<pool, cmd, listVars, wrkVars, taskQueue, handed, finished, rejected>>

AddCore(s) == /\ Goto(s, "addCore", "offer")
              /\ coreSize' = seen[s] + 1
              /\ seen' = [seen EXCEPT ![s] = 0]
              /\ state' = [state EXCEPT ![Core(cmd[s])] = "taking"]
              /\ UNCHANGED <<pool, cmd, slots, supportSize, task, at, taskQueue, handed, finished, rejected>>

Offered(s) == Len(taskQueue) < pool.capacity /\ taskQueue' = Append(taskQueue, cmd[s])

Offer(s) == /\ Offered(s)
            /\ Return(s, "offer")
            /\ UNCHANGED <<pool, seen, listVars, wrkVars, handed, finished, rejected>>

OfferFails(s) == /\ Len(taskQueue) >= pool.capacity
                 /\ Goto(s, "offer", "readSizes")
                 /\ seen' = [seen EXCEPT ![s] = coreSize]
                 /\ UNCHANGED <<pool, cmd, listVars, wrkVars, taskQueue, handed, finished, rejected>>

\* coreThreads.size() was read just before; now supportThreads.size()
CheckMax(s) == /\ Goto(s, "readSizes",
                       IF seen[s] + supportSize < pool.maxThreadCount THEN "readSupport" ELSE "offerAgain")
               /\ seen' = [seen EXCEPT ![s] = 0]
               /\ UNCHANGED <<pool, cmd, listVars, wrkVars, taskQueue, handed, finished, rejected>>

ReadSupportSize(s) == /\ Goto(s, "readSupport", "addSupport")
                      /\ seen' = [seen EXCEPT ![s] = supportSize]
                      /\ UNCHANGED <<pool, cmd, listVars, wrkVars, taskQueue, handed, finished, rejected>>

\* Mutant: no return after the support thread was started: its task goes on
\* to the queue as well.
AddSupport_NoReturn(s) == LET w == Support(cmd[s]) IN
                          /\ Goto(s, "addSupport", "offerAgain")
                          /\ slots' = [slots EXCEPT ![seen[s] + 1] = w]
                          /\ supportSize' = seen[s] + 1
                          /\ seen' = [seen EXCEPT ![s] = 0]
                          /\ state' = [state EXCEPT ![w] = "first"]
                          /\ task' = [task EXCEPT ![w] = cmd[s]]
                          /\ UNCHANGED <<pool, cmd, coreSize, at, taskQueue, handed, finished, rejected>>

AddSupport(s) == LET w == Support(cmd[s]) IN
                 /\ seen[s] >= 0
                 /\ Return(s, "addSupport")
                 /\ slots' = [slots EXCEPT ![seen[s] + 1] = w]
                 /\ supportSize' = seen[s] + 1
                 /\ seen' = [seen EXCEPT ![s] = 0]
                 /\ state' = [state EXCEPT ![w] = "first"]
                 /\ task' = [task EXCEPT ![w] = cmd[s]]
                 /\ UNCHANGED <<pool, coreSize, at, taskQueue, handed, finished, rejected>>

\* A size of -1, left by racing removes, makes add throw: the caller gets
\* the exception, and the size is 0 (JDK 8) or stays (later ones).
AddSupportThrows(s) == /\ seen[s] < 0
                       /\ Return(s, "addSupport")
                       /\ supportSize' \in {supportSize, seen[s] + 1}
                       /\ seen' = [seen EXCEPT ![s] = 0]
                       /\ rejected' = rejected \cup {cmd[s]}
                       /\ UNCHANGED <<pool, coreSize, slots, wrkVars, taskQueue, handed, finished>>

\* Mutant: the policy is called whatever the second offer returned.
OfferAgain_RejectsToo(s) == /\ Offered(s)
                            /\ Return(s, "offerAgain")
                            /\ rejected' = rejected \cup {cmd[s]}
                            /\ UNCHANGED <<pool, seen, listVars, wrkVars, handed, finished>>

OfferAgain(s) == /\ Offered(s)
                 /\ Return(s, "offerAgain")
                 /\ UNCHANGED <<pool, seen, listVars, wrkVars, handed, finished, rejected>>

\* Mutant: the second offer's result is not looked at.
Reject_Dropped(s) == /\ Len(taskQueue) >= pool.capacity
                     /\ Return(s, "offerAgain")
                     /\ UNCHANGED <<pool, seen, listVars, wrkVars, taskQueue, handed, finished, rejected>>

Reject(s) == /\ Len(taskQueue) >= pool.capacity
             /\ Return(s, "offerAgain")
             /\ rejected' = rejected \cup {cmd[s]}
             /\ UNCHANGED <<pool, seen, listVars, wrkVars, taskQueue, handed, finished>>

-----------------------------------------------------------------------------
(* The workers *)

Move(w, from, to) == state[w] = from /\ state' = [state EXCEPT ![w] = to]

\* A support thread starts with the task it was constructed with.
RunFirst(w) == /\ Move(w, "first", "running")
               /\ UNCHANGED <<pool, subVars, listVars, task, at, taskQueue, handed, finished, rejected>>

Take(w) == /\ taskQueue # <<>>
           /\ Move(w, "taking", "running")
           /\ task' = [task EXCEPT ![w] = Head(taskQueue)]
           /\ taskQueue' = Tail(taskQueue)
           /\ UNCHANGED <<pool, subVars, listVars, at, handed, finished, rejected>>

Finish(w) == /\ task[w] \notin pool.throwing
             /\ Move(w, "running", "taking")
             /\ finished' = finished \cup {task[w]}
             /\ task' = [task EXCEPT ![w] = None]
             /\ UNCHANGED <<pool, handed, subVars, listVars, at, taskQueue, rejected>>

\* Only InterruptedException is caught: the thread dies where it stands, and
\* stays in its list.
FinishThrows(w) == /\ task[w] \in pool.throwing
                   /\ Move(w, "running", "dead")
                   /\ finished' = finished \cup {task[w]}
                   /\ task' = [task EXCEPT ![w] = None]
                   /\ UNCHANGED <<pool, handed, subVars, listVars, at, taskQueue, rejected>>

\* Mutant: core threads poll with the timeout too.
TimesOut_CoreToo(w) == /\ taskQueue = <<>>
                       /\ Move(w, "taking", "search")
                       /\ UNCHANGED <<pool, subVars, listVars, task, at, taskQueue, handed, finished, rejected>>

\* poll(timeout) returns null only when it finds the queue empty.
TimesOut(w) == /\ w[1] = "support"
               /\ taskQueue = <<>>
               /\ Move(w, "taking", "search")
               /\ UNCHANGED <<pool, subVars, listVars, task, at, taskQueue, handed, finished, rejected>>

\* supportThreads.remove(currentThread)
Places(w) == {i \in 1 .. supportSize : slots[i] = w}

Search(w) == /\ Places(w) # {}
             /\ Move(w, "search", "shift")
             /\ \E i \in Places(w) : /\ \A j \in Places(w) : i <= j
                                     /\ at' = [at EXCEPT ![w] = i]
             /\ UNCHANGED <<pool, subVars, listVars, task, taskQueue, handed, finished, rejected>>

SearchFails(w) == /\ Places(w) = {}
                  /\ Move(w, "search", "dead")
                  /\ UNCHANGED <<pool, subVars, listVars, task, at, taskQueue, handed, finished, rejected>>

\* The elements behind the one found move down; "at" now holds the size read.
\* It is read once, as by the fastRemove of later JDKs; that of JDK 8 reads it
\* again before it writes it.
Shift(w) == /\ Move(w, "shift", "shrink")
            /\ slots' = [i \in DOMAIN slots |->
                          IF at[w] <= i /\ i < supportSize THEN slots[i + 1] ELSE slots[i]]
            /\ at' = [at EXCEPT ![w] = supportSize]
            /\ UNCHANGED <<pool, subVars, coreSize, supportSize, task, taskQueue, handed, finished, rejected>>

Shrink(w) == /\ Move(w, "shrink", "dead")
             /\ slots' = [i \in DOMAIN slots |-> IF i = at[w] THEN NoWorker ELSE slots[i]]
             /\ supportSize' = at[w] - 1
             /\ at' = [at EXCEPT ![w] = 0]
             /\ UNCHANGED <<pool, subVars, coreSize, task, taskQueue, handed, finished, rejected>>

-----------------------------------------------------------------------------
Submit(s) == \/ CheckCore(s) \/ ReadCoreSize(s) \/ AddCore(s) \/ Offer(s) \/ OfferFails(s)
             \/ CheckMax(s) \/ ReadSupportSize(s) \/ AddSupport(s) \/ AddSupportThrows(s) \/ OfferAgain(s) \/ Reject(s)

Work(w) == \/ RunFirst(w) \/ Take(w) \/ Finish(w) \/ FinishThrows(w)
           \/ TimesOut(w) \/ Search(w) \/ SearchFails(w) \/ Shift(w) \/ Shrink(w)

Next == \/ \E s \in Submitters : Execute(s) \/ Submit(s)
        \/ \E w \in Workers : Work(w)

\* Threads that can run do, tasks end, and timeouts elapse; nobody has to
\* submit a task.
Fairness == /\ \A s \in Submitters : WF_vars(Submit(s))
            /\ \A w \in Workers : WF_vars(Work(w))

Spec == Init /\ [][Next]_vars /\ Fairness

-----------------------------------------------------------------------------
(* Properties *)

Positions == {"idle", "checkCore", "readCore", "addCore", "offer", "readSizes", "readSupport",
              "addSupport", "offerAgain"}
States == {"new", "first", "taking", "running", "search", "shift", "shrink", "dead"}

\* Racing removes drive the size of supportThreads below zero.
Sizes == -TaskCount .. TaskCount

TypeOK == /\ pc \in [Submitters -> Positions]
          /\ cmd \in [Submitters -> Tasks \cup {None}]
          /\ seen \in [Submitters -> Sizes]
          /\ coreSize \in 0 .. TaskCount
          /\ slots \in [1 .. TaskCount -> Workers \cup {NoWorker}]
          /\ supportSize \in Sizes
          /\ taskQueue \in Seq(Tasks) /\ Len(taskQueue) <= pool.capacity
          /\ handed \in 0 .. TaskCount 
          /\ state \in [Workers -> States]
          /\ task \in [Workers -> Tasks \cup {None}]
          /\ at \in [Workers -> Sizes]
          /\ finished \in SUBSET Tasks /\ rejected \in SUBSET Tasks

Alive == {w \in Workers : state[w] \notin {"new", "dead"}}

\* A task is in one place: once in the queue, or with one worker, or ended,
\* or refused.  No task can run twice.
InOnePlace ==
  \A t \in Tasks :
    Cardinality({i \in DOMAIN taskQueue : taskQueue[i] = t}) + Cardinality({w \in Workers : task[w] = t})
      + (IF t \in finished THEN 1 ELSE 0) + (IF t \in rejected THEN 1 ELSE 0) <= 1

\* maxThreadCount bounds the threads that exist (the field comment, L29).
WithinMaxThreads == Cardinality(Alive) <= pool.maxThreadCount

\* A support thread that ended has removed itself (L147), so that its place
\* can be taken: when no list operation is under way the size is the number alive.
EndedAreRemoved ==
  (\A s \in Submitters : pc[s] # "addSupport")
    /\ (\A w \in Workers : state[w] \notin {"search", "shift", "shrink"})
    => supportSize = Cardinality({w \in Alive : w[1] = "support"})

\* With one caller and room for one support thread no two list operations can
\* overlap; with a queue that is full only after all core threads were made no
\* support thread takes the place of one; and with tasks that do not throw both
\* promises hold.
Serial == /\ \E s \in Submitters : pool.clients = {s}
          /\ pool.maxThreadCount \in {pool.coreThreadCount, pool.coreThreadCount + 1}
          /\ pool.coreThreadCount <= pool.capacity + 1
          /\ pool.throwing = {}
LimitWhenSerial == Serial => WithinMaxThreads /\ EndedAreRemoved

\* The pool's lists and its queue are in order: no task is in two places, and
\* where list operations cannot overlap the limit on threads holds.
PoolInOrder == TypeOK /\ InOnePlace /\ LimitWhenSerial

\* What has become of each task.
status == [t \in Tasks |->
             IF t \in finished \/ \E w \in Workers : task[w] = t /\ state[w] = "running" THEN "started"
             ELSE IF t \in rejected THEN "rejected"
             ELSE IF t \in Range(taskQueue) \/ \E w \in Workers : task[w] = t THEN "accepted"
             ELSE "new"]

\* Every task handed over is refused with an exception or started, once.
Pool == INSTANCE TaskPool
ImplementsTaskPool == Pool!Spec

\* With a core thread, and tasks that do not throw, each accepted task is started.
AcceptedAreStarted ==
  \A t \in Tasks : t \in Range(taskQueue) /\ pool.coreThreadCount > 0 /\ pool.throwing = {}
                     ~> \E w \in Workers : task[w] = t /\ state[w] = "running"

\* execute() does not swallow a task: its call ends with the task started,
\* queued, run or refused.
NothingSwallowed ==
  [][\A s \in Submitters : pc[s] # "idle" /\ pc'[s] = "idle" =>
        cmd[s] \in Range(taskQueue') \cup {task'[w] : w \in Workers} \cup rejected']_vars

-----------------------------------------------------------------------------
(* Pools for TLC: one caller with room for one support thread (two sizes),  *)
(* no core thread, tasks that throw; two callers at once.                   *)

MCOne == {CHOOSE s \in Submitters : TRUE}

MCPool(core, max, capacity, clients, tasks, throwing) ==
  [coreThreadCount |-> core, maxThreadCount |-> max, capacity |-> capacity,
   clients |-> clients, tasks |-> tasks, throwing |-> throwing]

MCPools == {MCPool(2, 3, 1, MCOne, 6, {}), MCPool(1, 2, 2, MCOne, 6, {}), MCPool(0, 2, 1, MCOne, 6, {}),
            MCPool(1, 3, 1, MCOne, 4, {2, 4}), MCPool(1, 2, 1, Submitters, 3, {})}
=============================================================================
