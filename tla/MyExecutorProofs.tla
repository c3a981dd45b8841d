-------------------------- MODULE MyExecutorProofs --------------------------
(***************************************************************************)
(* What MyExecutor keeps for any pool, callers and tasks: no task is in    *)
(* two places or lost, the pool implements TaskPool, and where its list    *)
(* operations cannot overlap the limit on threads holds.  The races of the *)
(* two ArrayLists stay: only the workers made so far bound their sizes.    *)
(***************************************************************************)
EXTENDS MyExecutor, FiniteSetTheorems, TLAPS

\* The task has not left the hands of its caller.
Unplaced(t) == /\ \A i \in 1 .. Len(taskQueue) : taskQueue[i] # t
               /\ \A w \in Workers : task[w] # t
               /\ t \notin finished /\ t \notin rejected

\* The task of a call under way, or of one to come.
Unspent(t) == t > handed \/ \E s \in Submitters : cmd[s] = t

BeforeCore == {"checkCore", "readCore", "addCore"}

\* A call holds a command of its own; its workers are made by it alone.
Commands ==
  /\ \A s \in Submitters : (pc[s] = "idle" <=> cmd[s] = None) /\ cmd[s] <= handed
  /\ \A s, u \in Submitters : cmd[s] = cmd[u] /\ cmd[s] # None => s = u
  /\ \A t \in Tasks : Unspent(t) => Unplaced(t) /\ state[Support(t)] = "new"
  /\ \A t \in Tasks : t > handed => state[Core(t)] = "new"
  /\ \A s \in Submitters : pc[s] \in BeforeCore => state[Core(cmd[s])] = "new"

\* No task is placed twice.
Once ==
  /\ \A i, j \in 1 .. Len(taskQueue) : taskQueue[i] = taskQueue[j] => i = j
  /\ \A v, w \in Workers : task[v] = task[w] /\ task[v] # None => v = w
  /\ \A i \in 1 .. Len(taskQueue) : /\ \A w \in Workers : task[w] # taskQueue[i]
                                    /\ taskQueue[i] \notin finished /\ taskQueue[i] \notin rejected
  /\ \A w \in Workers : task[w] \notin finished /\ task[w] \notin rejected
  /\ \A t \in finished : t \notin rejected

\* Workers that have a task are those that run one, or are about to run their first.
Working == \A w \in Workers : /\ state[w] \in {"first", "running"} <=> task[w] # None
                              /\ state[w] \in {"first", "search", "shift", "shrink"} => w[1] = "support"

\* The commands whose call made a core thread, a support thread, and a support thread that ended.
CoresMade    == {c \in Tasks : state[Core(c)] # "new"}
SupportsMade == {c \in Tasks : state[Support(c)] # "new"}
SupportsGone == {c \in Tasks : state[Support(c)] = "dead"}

\* Lost updates or not, a size is bounded by the threads that were added and removed.
Counted(n) == -Cardinality(SupportsGone) <= n /\ n <= Cardinality(SupportsMade)
Sized ==
  /\ coreSize <= Cardinality(CoresMade) /\ Counted(supportSize)
  /\ \A s \in Submitters : /\ pc[s] \in {"addCore", "readSizes"} => 0 <= seen[s] /\ seen[s] <= Cardinality(CoresMade)
                           /\ pc[s] = "addSupport" => Counted(seen[s])
  /\ \A w \in Workers : state[w] = "shrink" => Counted(at[w])

IInv == pool \in Pools /\ TypeOK /\ Commands /\ Once /\ Working /\ Sized

AliveSupports == {w \in Workers : w[1] = "support" /\ state[w] \notin {"new", "dead"}}

\* The number of calls that have looked whether a core thread is missing.
Looked == IF \E s \in Submitters : pc[s] \in BeforeCore THEN handed - 1 ELSE handed

\* One caller after another: no core thread is missing, and the queue fills only when all are there.
CallsInTurn ==
  /\ \A s \in Submitters : pc[s] # "idle" => s \in pool.clients
  /\ coreSize = Cardinality(CoresMade)
  /\ coreSize = IF Looked < pool.coreThreadCount THEN Looked ELSE pool.coreThreadCount
  /\ Len(taskQueue) <= handed
  /\ \A s \in Submitters : /\ pc[s] # "idle" => Len(taskQueue) < handed
                           /\ pc[s] = "addCore" => seen[s] = coreSize
                           /\ pc[s] \in {"readCore", "addCore"} => coreSize < pool.coreThreadCount
                           /\ pc[s] = "readSizes" => seen[s] = pool.coreThreadCount

\* There is never more than one support thread, and it has the first place of its list.
OneSupport ==
  /\ \A s \in Submitters : /\ pc[s] \in {"readSupport", "addSupport"} =>
                                supportSize = 0 /\ pool.maxThreadCount = pool.coreThreadCount + 1
                           /\ pc[s] = "addSupport" => seen[s] = 0
  /\ \/ supportSize = 0 /\ AliveSupports = {}
     \/ /\ supportSize = 1 /\ AliveSupports = {slots[1]}
        /\ pool.maxThreadCount = pool.coreThreadCount + 1
        /\ state[slots[1]] \in {"shift", "shrink"} => at[slots[1]] = 1

SerialInv == Serial => CallsInTurn /\ OneSupport

-----------------------------------------------------------------------------
(* Sets of workers *)

\* What the pool and the names of the workers are.
LEMMA PoolFacts == ASSUME pool \in Pools
                   PROVE  /\ pool.coreThreadCount \in Nat /\ pool.maxThreadCount \in Nat /\ pool.capacity \in Nat \ {0}
                          /\ pool.clients \in SUBSET Submitters /\ pool.tasks \in Tasks /\ TaskCount \in Nat
  BY ExecutorAssumption

\* A worker is the core thread or the support thread of one command.
LEMMA WorkerFacts == /\ \A c \in Tasks : Core(c) \in Workers /\ Support(c) \in Workers
                     /\ \A c, d \in Tasks : Core(c) # Support(d)
                     /\ \A c, d \in Tasks : (Core(c) = Core(d) => c = d) /\ (Support(c) = Support(d) => c = d)
                     /\ \A c \in Tasks : Core(c)[1] = "core" /\ Support(c)[1] = "support"
                                         /\ Core(c)[2] = c /\ Support(c)[2] = c
                     /\ \A w \in Workers : w[2] \in Tasks /\ \/ w = Core(w[2]) /\ w[1] = "core"
                                                             \/ w = Support(w[2]) /\ w[1] = "support"
                     /\ \A t \in Tasks : t # None
  BY DEF Workers, Core, Support, Tasks, None

\* The sets of commands that made a worker are finite and have no more than all tasks.
LEMMA SetFacts == ASSUME NEW S \in SUBSET Tasks
                  PROVE  /\ IsFiniteSet(S) /\ Cardinality(S) \in 0 .. TaskCount
                         /\ \A c \in Tasks \ S : Cardinality(S \cup {c}) = Cardinality(S) + 1
                         /\ \A T \in SUBSET S : Cardinality(T) <= Cardinality(S)
<1>1. TaskCount \in Nat
  BY ExecutorAssumption
<1>2. IsFiniteSet(Tasks) /\ Cardinality(Tasks) = TaskCount
  BY <1>1, FS_Interval DEF Tasks
<1>3. IsFiniteSet(S) /\ Cardinality(S) <= TaskCount /\ Cardinality(S) \in Nat
  BY <1>2, FS_Subset, FS_CardinalityType
<1>4. \A c \in Tasks \ S : Cardinality(S \cup {c}) = Cardinality(S) + 1
  BY <1>3, FS_AddElement
<1>5. \A T \in SUBSET S : Cardinality(T) <= Cardinality(S)
  BY <1>3, FS_Subset
<1>6. QED
  BY <1>1, <1>3, <1>4, <1>5

-----------------------------------------------------------------------------
(* The invariant *)

\* The initial state: nothing was handed over, nobody works.
LEMMA InitIInv == Init => IInv
<1> SUFFICES ASSUME Init PROVE IInv
  OBVIOUS
<1> USE DEF Init
<1>0. pool \in Pools /\ TaskCount \in Nat
  BY ExecutorAssumption
<1>1. TypeOK
  <2>1. pc \in [Submitters -> Positions] /\ cmd \in [Submitters -> Tasks \cup {None}] /\ seen \in [Submitters -> Sizes]
    BY <1>0 DEF Positions, Sizes
  <2>2. coreSize \in 0 .. TaskCount /\ supportSize \in Sizes /\ handed \in 0 .. TaskCount
    BY <1>0 DEF Sizes
  <2>3. /\ slots \in [1 .. TaskCount -> Workers \cup {NoWorker}] /\ state \in [Workers -> States]
        /\ task \in [Workers -> Tasks \cup {None}] /\ at \in [Workers -> Sizes]
    BY <1>0 DEF States, Sizes
  <2>4. taskQueue \in Seq(Tasks) /\ Len(taskQueue) <= pool.capacity
    BY <1>0, PoolFacts
  <2>5. QED
    BY <2>1, <2>2, <2>3, <2>4 DEF TypeOK
<1>2. Commands
  BY <1>0, WorkerFacts DEF Commands, Unplaced, BeforeCore, Tasks, None
<1>3. Once
  BY WorkerFacts DEF Once
<1>4. Working
  BY DEF Working
<1>5. Sized
  <2>1. CoresMade = {} /\ SupportsMade = {} /\ SupportsGone = {}
    BY WorkerFacts DEF CoresMade, SupportsMade, SupportsGone
  <2>2. QED
    BY <2>1, FS_EmptySet DEF Sized, Counted
<1>6. QED
  BY <1>0, <1>1, <1>2, <1>3, <1>4, <1>5 DEF IInv

\* Every step keeps the pool and its clients, and each call its own command.
LEMMA CommandStep == ASSUME IInv, [Next]_vars
                     PROVE  /\ pool' = pool
                            /\ \A s \in Submitters : /\ (pc[s] = "idle" <=> cmd[s] = None)'
                                                     /\ cmd'[s] <= handed'
                            /\ \A s, u \in Submitters : cmd'[s] = cmd'[u] /\ cmd'[s] # None => s = u
<1> USE DEF Goto, Return
<1>0. /\ pc \in [Submitters -> Positions] /\ cmd \in [Submitters -> Tasks \cup {None}]
      /\ \A s \in Submitters : (pc[s] = "idle" <=> cmd[s] = None) /\ cmd[s] <= handed
      /\ \A s, u \in Submitters : cmd[s] = cmd[u] /\ cmd[s] # None => s = u
      /\ handed \in Nat /\ \A t \in Tasks : t # None /\ t \in Nat
      /\ Positions = {"idle", "checkCore", "readCore", "addCore", "offer", "readSizes", "readSupport",
                      "addSupport", "offerAgain"}
  BY WorkerFacts DEF IInv, TypeOK, Commands, Positions, Tasks
<1> DEFINE Kept == /\ pool' = pool
                   /\ \A s \in Submitters : /\ (pc'[s] = "idle" <=> cmd'[s] = None)
                                            /\ cmd'[s] <= handed'
                   /\ \A s, u \in Submitters : cmd'[s] = cmd'[u] /\ cmd'[s] # None => s = u
<1>1. ASSUME NEW s \in Submitters, Execute(s) PROVE Kept
  <2>1. /\ handed' = handed + 1 /\ pc' = [pc EXCEPT ![s] = "checkCore"] /\ cmd' = [cmd EXCEPT ![s] = handed + 1]
        /\ pool' = pool
    BY <1>1 DEF Execute
  <2>2. \A u \in Submitters : cmd[u] \in Nat /\ cmd[u] # handed + 1
    BY <1>0 DEF None
  <2>3. QED
    BY <1>0, <2>1, <2>2 DEF None
<1>2. ASSUME NEW s \in Submitters, \/ Offer(s) \/ AddSupport(s) \/ AddSupportThrows(s) \/ OfferAgain(s) \/ Reject(s)
      PROVE Kept
  <2>1. pc' = [pc EXCEPT ![s] = "idle"] /\ cmd' = [cmd EXCEPT ![s] = None] /\ handed' = handed /\ pool' = pool
    BY <1>2 DEF Offer, AddSupport, AddSupportThrows, OfferAgain, Reject
  <2>2. QED
    BY <1>0, <2>1 DEF None
<1>3. ASSUME NEW s \in Submitters, \/ CheckCore(s) \/ ReadCoreSize(s) \/ AddCore(s) \/ OfferFails(s) \/ CheckMax(s)
                                   \/ ReadSupportSize(s)
      PROVE Kept
  BY <1>0, <1>3 DEF CheckCore, ReadCoreSize, AddCore, OfferFails, CheckMax, ReadSupportSize
<1>4. ASSUME NEW w \in Workers, Work(w) PROVE Kept
  BY <1>0, <1>4 DEF Work, RunFirst, Take, Finish, FinishThrows, TimesOut, Search, SearchFails, Shift, Shrink, subVars
<1>5. ASSUME UNCHANGED vars PROVE Kept
  BY <1>0, <1>5 DEF vars, subVars
<1>6. QED
  BY <1>1, <1>2, <1>3, <1>4, <1>5 DEF Next, Submit

\* The states of workers and positions of callers, spelled out.
LEMMA States1 == ASSUME IInv
                 PROVE  /\ pc \in [Submitters -> Positions] /\ cmd \in [Submitters -> Tasks \cup {None}]
                        /\ seen \in [Submitters -> Int] /\ coreSize \in Nat /\ supportSize \in Int
                        /\ state \in [Workers -> States] /\ task \in [Workers -> Tasks \cup {None}]
                        /\ at \in [Workers -> Int] /\ taskQueue \in Seq(Tasks)
                        /\ \A s \in Submitters : pc[s] # "idle" => cmd[s] \in Tasks
  BY ExecutorAssumption DEF IInv, TypeOK, Commands, Sizes

\* Where no worker is made and none ends, the sets of workers stay.
LEMMA SameWorkers == ASSUME \A w \in Workers : /\ state'[w] = "new" <=> state[w] = "new"
                                               /\ state'[w] = "dead" <=> state[w] = "dead"
                     PROVE  CoresMade' = CoresMade /\ SupportsMade' = SupportsMade /\ SupportsGone' = SupportsGone
  BY WorkerFacts DEF CoresMade, SupportsMade, SupportsGone

\* A call that makes its core thread adds it to them.
LEMMA CoreMade == ASSUME IInv, NEW s \in Submitters, AddCore(s)
                  PROVE  /\ CoresMade' = CoresMade \cup {cmd[s]} /\ cmd[s] \in Tasks \ CoresMade
                         /\ SupportsMade' = SupportsMade /\ SupportsGone' = SupportsGone
<1>1. cmd[s] \in Tasks /\ state[Core(cmd[s])] = "new" /\ state' = [state EXCEPT ![Core(cmd[s])] = "taking"]
  BY States1 DEF AddCore, Goto, IInv, Commands, BeforeCore
<1>2. \A c \in Tasks : /\ state'[Support(c)] = state[Support(c)]
                       /\ state'[Core(c)] = IF c = cmd[s] THEN "taking" ELSE state[Core(c)]
  BY <1>1, WorkerFacts, States1
<1>3. QED
  BY <1>1, <1>2 DEF CoresMade, SupportsMade, SupportsGone

\* A call that makes its support thread adds it to them.
LEMMA SupportMade == ASSUME IInv, NEW s \in Submitters, AddSupport(s)
                     PROVE  /\ SupportsMade' = SupportsMade \cup {cmd[s]} /\ cmd[s] \in Tasks \ SupportsMade
                            /\ CoresMade' = CoresMade /\ SupportsGone' = SupportsGone
                            /\ state' = [state EXCEPT ![Support(cmd[s])] = "first"] /\ Support(cmd[s]) \in Workers
<1>1. cmd[s] \in Tasks /\ state' = [state EXCEPT ![Support(cmd[s])] = "first"]
  BY States1 DEF AddSupport, Return, Goto
<1>2. state[Support(cmd[s])] = "new"
  BY <1>1 DEF IInv, Commands, Unspent
<1>3. \A c \in Tasks : /\ state'[Core(c)] = state[Core(c)]
                       /\ state'[Support(c)] = IF c = cmd[s] THEN "first" ELSE state[Support(c)]
  BY <1>1, WorkerFacts, States1
<1>4. QED
  BY <1>1, <1>2, <1>3, WorkerFacts DEF CoresMade, SupportsMade, SupportsGone

\* A worker that ends leaves the sets of those made as they are.
LEMMA WorkerEnds == ASSUME IInv, NEW w \in Workers, state[w] \notin {"new", "dead"}, state' = [state EXCEPT ![w] = "dead"]
                    PROVE  /\ CoresMade' = CoresMade /\ SupportsMade' = SupportsMade
                           /\ SupportsGone' = IF w[1] = "support" THEN SupportsGone \cup {w[2]} ELSE SupportsGone
                           /\ w[2] \in Tasks \ SupportsGone \/ w[1] = "core"
<1>1. state \in [Workers -> States]
  BY States1
<1>2. CASE w = Core(w[2]) /\ w[1] = "core"
  BY <1>1, <1>2, WorkerFacts DEF CoresMade, SupportsMade, SupportsGone
<1>3. CASE w = Support(w[2]) /\ w[1] = "support"
  BY <1>1, <1>3, WorkerFacts DEF CoresMade, SupportsMade, SupportsGone
<1>4. QED
  BY <1>2, <1>3, WorkerFacts

\* The numbers of workers made and ended.
Counts == /\ Cardinality(CoresMade) \in 0 .. TaskCount /\ Cardinality(SupportsMade) \in 0 .. TaskCount
          /\ Cardinality(SupportsGone) \in 0 .. TaskCount

\* No more than tasks.
LEMMA CountFacts == Counts
  BY SetFacts DEF Counts, CoresMade, SupportsMade, SupportsGone

\* Every step keeps the sizes within what was added and removed.
LEMMA SizedStep == ASSUME IInv, [Next]_vars PROVE Sized'
<1> USE DEF Goto, Return, Move
<1>0. /\ pc \in [Submitters -> Positions] /\ seen \in [Submitters -> Int] /\ coreSize \in Nat /\ supportSize \in Int
      /\ state \in [Workers -> States] /\ at \in [Workers -> Int]
  BY States1
<1>1. Counts /\ Counts'
  BY CountFacts, PTL
<1>2. /\ coreSize <= Cardinality(CoresMade) /\ Counted(supportSize)
      /\ \A s \in Submitters : /\ pc[s] \in {"addCore", "readSizes"} => 0 <= seen[s] /\ seen[s] <= Cardinality(CoresMade)
                               /\ pc[s] = "addSupport" => Counted(seen[s])
      /\ \A w \in Workers : state[w] = "shrink" => Counted(at[w])
  BY DEF IInv, Sized
<1>3. ASSUME NEW s \in Submitters, \/ Execute(s) \/ CheckCore(s) \/ ReadCoreSize(s) \/ Offer(s) \/ OfferFails(s)
                                   \/ CheckMax(s) \/ ReadSupportSize(s) \/ OfferAgain(s) \/ Reject(s)
      PROVE  Sized'
  <2>1. CoresMade' = CoresMade /\ SupportsMade' = SupportsMade /\ SupportsGone' = SupportsGone
    BY <1>3, SameWorkers DEF Execute, CheckCore, ReadCoreSize, Offer, OfferFails, CheckMax, ReadSupportSize, OfferAgain,
       Reject, wrkVars
  <2>2. QED
    BY <1>0, <1>1, <1>2, <1>3, <2>1 DEF Execute, CheckCore, ReadCoreSize, Offer, OfferFails, CheckMax, ReadSupportSize,
       OfferAgain, Reject, wrkVars, listVars, Sized, Counted, Counts
<1>4. ASSUME NEW s \in Submitters, AddCore(s) PROVE Sized'
  <2>1. Cardinality(CoresMade') = Cardinality(CoresMade) + 1 /\ SupportsMade' = SupportsMade /\ SupportsGone' = SupportsGone
    BY <1>4, CoreMade, SetFacts DEF CoresMade
  <2>2. \A w \in Workers : state'[w] = "shrink" => state[w] = "shrink"
    BY <1>0, <1>4 DEF AddCore
  <2>3. QED
    BY <1>0, <1>1, <1>2, <1>4, <2>1, <2>2 DEF AddCore, Sized, Counted, Counts
<1>5. ASSUME NEW s \in Submitters, AddSupport(s) PROVE Sized'
  <2>1. Cardinality(SupportsMade') = Cardinality(SupportsMade) + 1 /\ CoresMade' = CoresMade /\ SupportsGone' = SupportsGone
    BY <1>5, SupportMade, SetFacts DEF SupportsMade
  <2>2. \A w \in Workers : state'[w] = "shrink" => state[w] = "shrink"
    BY <1>0, <1>5 DEF AddSupport
  <2>3. QED
    BY <1>0, <1>1, <1>2, <1>5, <2>1, <2>2 DEF AddSupport, Sized, Counted, Counts
<1>6. ASSUME NEW s \in Submitters, AddSupportThrows(s) PROVE Sized'
  <2>1. CoresMade' = CoresMade /\ SupportsMade' = SupportsMade /\ SupportsGone' = SupportsGone
    BY <1>6, SameWorkers DEF AddSupportThrows, wrkVars
  <2>2. QED
    BY <1>0, <1>1, <1>2, <1>6, <2>1 DEF AddSupportThrows, wrkVars, Sized, Counted, Counts
<1>7. ASSUME NEW w \in Workers, RunFirst(w) \/ Take(w) \/ Finish(w) \/ TimesOut(w) \/ Search(w) \/ Shift(w) PROVE Sized'
  <2>1. CoresMade' = CoresMade /\ SupportsMade' = SupportsMade /\ SupportsGone' = SupportsGone
    BY <1>0, <1>7, SameWorkers DEF RunFirst, Take, Finish, TimesOut, Search, Shift
  <2>2. UNCHANGED <<pc, seen, coreSize, supportSize>>
    BY <1>7 DEF RunFirst, Take, Finish, TimesOut, Search, Shift, subVars, listVars
  <2>3. ASSUME NEW v \in Workers, state'[v] = "shrink" PROVE Counted(at'[v])
    <3>1. CASE Search(w) /\ v = w
      BY <1>0, <2>3, <3>1 DEF Search
    <3>2. CASE Search(w) /\ v # w
      BY <1>0, <1>2, <2>3, <3>2 DEF Search
    <3>3. CASE ~Search(w)
      BY <1>0, <1>2, <1>7, <2>3, <3>3 DEF RunFirst, Take, Finish, TimesOut, Shift
    <3>4. QED
      BY <3>1, <3>2, <3>3
  <2>4. QED
    BY <1>2, <2>1, <2>2, <2>3 DEF Sized, Counted
<1>8. ASSUME NEW w \in Workers, FinishThrows(w) \/ SearchFails(w) \/ Shrink(w) PROVE Sized'
  <2>1. /\ state' = [state EXCEPT ![w] = "dead"] /\ state[w] \notin {"new", "dead"} /\ UNCHANGED <<pc, seen, coreSize>>
        /\ state[w] \in {"running", "search", "shrink"} /\ \A v \in Workers : v # w => at'[v] = at[v]
    BY <1>0, <1>8 DEF FinishThrows, SearchFails, Shrink, subVars, listVars
  <2>2. /\ CoresMade' = CoresMade /\ SupportsMade' = SupportsMade
        /\ Cardinality(SupportsGone') = IF w[1] = "support" THEN Cardinality(SupportsGone) + 1 ELSE Cardinality(SupportsGone)
    BY <2>1, WorkerEnds, SetFacts DEF SupportsGone
  <2>3. Counted(supportSize)'
    <3>1. CASE Shrink(w)
      <4>1. supportSize' = at[w] - 1 /\ state[w] = "shrink" /\ w[1] = "support"
        BY <3>1 DEF Shrink, IInv, Working
      <4>2. Cardinality(SupportsMade) \in Nat /\ Cardinality(SupportsGone) \in Nat /\ at[w] \in Int
        BY <1>0, <1>1 DEF Counts
      <4>3. QED
        BY <1>2, <2>2, <4>1, <4>2 DEF Counted
    <3>2. CASE ~Shrink(w)
      <4>1. supportSize' = supportSize
        BY <1>8, <3>2 DEF FinishThrows, SearchFails, listVars
      <4>2. Cardinality(SupportsMade) \in Nat /\ Cardinality(SupportsGone) \in Nat
        BY <1>1 DEF Counts
      <4>3. QED
        BY <1>0, <1>2, <2>2, <4>1, <4>2 DEF Counted
    <3>3. QED
      BY <3>1, <3>2
  <2>4. QED
    BY <1>0, <1>1, <1>2, <2>1, <2>2, <2>3 DEF Sized, Counted, Counts
<1>9. ASSUME UNCHANGED vars PROVE Sized'
  <2>1. CoresMade' = CoresMade /\ SupportsMade' = SupportsMade /\ SupportsGone' = SupportsGone
    BY <1>9, SameWorkers DEF vars, wrkVars
  <2>2. QED
    BY <1>2, <1>9, <2>1 DEF vars, subVars, listVars, wrkVars, Sized, Counted
<1>10. QED
  BY <1>3, <1>4, <1>5, <1>6, <1>7, <1>8, <1>9 DEF Next, Submit, Work

\* A call that returns gives its task up: no call to come has it.
LEMMA Returned == ASSUME IInv, NEW s \in Submitters, pc[s] # "idle", cmd' = [cmd EXCEPT ![s] = None], handed' = handed
                  PROVE  /\ cmd[s] \in Tasks /\ Unspent(cmd[s]) /\ Unplaced(cmd[s])
                         /\ \A t \in Tasks : Unspent(t)' => Unspent(t) /\ t # cmd[s]
<1>1. /\ cmd \in [Submitters -> Tasks \cup {None}] /\ cmd[s] \in Tasks /\ cmd[s] # None /\ cmd[s] <= handed
      /\ \A u \in Submitters : cmd[s] = cmd[u] => s = u
  BY States1, WorkerFacts DEF IInv, Commands
<1>2. Unspent(cmd[s]) /\ Unplaced(cmd[s])
  BY <1>1 DEF IInv, Commands, Unspent
<1>3. ASSUME NEW t \in Tasks, Unspent(t)' PROVE Unspent(t) /\ t # cmd[s]
  <2>1. CASE t > handed
    BY <1>1, <2>1, ExecutorAssumption DEF Unspent, Tasks, IInv, TypeOK
  <2>2. CASE ~(t > handed)
    <3>1. PICK u \in Submitters : cmd'[u] = t
      BY <1>3, <2>2 DEF Unspent
    <3>2. u # s /\ cmd[u] = t
      BY <1>1, <3>1, WorkerFacts
    <3>3. QED
      BY <1>1, <3>2 DEF Unspent
  <2>3. QED
    BY <2>1, <2>2
<1>4. QED
  BY <1>1, <1>2, <1>3

\* No step takes back a task that was given up.
LEMMA UnspentStep == ASSUME IInv, [Next]_vars PROVE \A t \in Tasks : Unspent(t)' => Unspent(t)
<1> USE DEF Goto, Return
<1>0. cmd \in [Submitters -> Tasks \cup {None}] /\ handed \in Nat /\ Tasks \subseteq Nat
  BY States1, ExecutorAssumption DEF IInv, TypeOK, Tasks
<1> DEFINE Kept == \A t \in Tasks : Unspent(t)' => Unspent(t)
<1>1. ASSUME NEW s \in Submitters, Execute(s) PROVE Kept
  <2>1. handed' = handed + 1 /\ cmd' = [cmd EXCEPT ![s] = handed + 1]
    BY <1>1 DEF Execute
  <2>2. QED
    BY <1>0, <2>1 DEF Unspent
<1>2. ASSUME NEW s \in Submitters, \/ Offer(s) \/ AddSupport(s) \/ AddSupportThrows(s) \/ OfferAgain(s) \/ Reject(s)
      PROVE Kept
  <2>1. pc[s] # "idle" /\ cmd' = [cmd EXCEPT ![s] = None] /\ handed' = handed
    BY <1>2 DEF Offer, AddSupport, AddSupportThrows, OfferAgain, Reject
  <2>2. QED
    BY <2>1, Returned
<1>3. ASSUME NEW s \in Submitters, \/ CheckCore(s) \/ ReadCoreSize(s) \/ AddCore(s) \/ OfferFails(s) \/ CheckMax(s)
                                   \/ ReadSupportSize(s)
      PROVE Kept
  BY <1>3 DEF CheckCore, ReadCoreSize, AddCore, OfferFails, CheckMax, ReadSupportSize, Unspent
<1>4. ASSUME NEW w \in Workers, Work(w) PROVE Kept
  BY <1>4 DEF Work, RunFirst, Take, Finish, FinishThrows, TimesOut, Search, SearchFails, Shift, Shrink, subVars, Unspent
<1>5. ASSUME UNCHANGED vars PROVE Kept
  BY <1>5 DEF vars, subVars, Unspent
<1>6. QED
  BY <1>1, <1>2, <1>3, <1>4, <1>5 DEF Next, Submit

\* Every task that was not given up is in no place yet, and no task is in two.
Placing == Once /\ \A t \in Tasks : Unspent(t) => Unplaced(t)

\* A caller puts its task on the queue.
LEMMA Queued == ASSUME IInv, NEW s \in Submitters, pc[s] # "idle", cmd' = [cmd EXCEPT ![s] = None], handed' = handed,
                       taskQueue' = Append(taskQueue, cmd[s]), UNCHANGED <<task, finished, rejected>>
                PROVE  Placing'
<1>1. /\ cmd[s] \in Tasks /\ Unplaced(cmd[s]) /\ \A t \in Tasks : Unspent(t)' => Unplaced(t) /\ t # cmd[s]
  BY Returned DEF IInv, Commands
<1>2. taskQueue \in Seq(Tasks) /\ taskQueue' \in Seq(Tasks) /\ Len(taskQueue') = Len(taskQueue) + 1
      /\ \A i \in 1 .. Len(taskQueue') : taskQueue'[i] = IF i <= Len(taskQueue) THEN taskQueue[i] ELSE cmd[s]
  BY <1>1, States1
<1>3. Once /\ \A i \in 1 .. Len(taskQueue') : i <= Len(taskQueue) => i \in 1 .. Len(taskQueue)
  BY <1>2 DEF IInv
<1>4. Once'
  BY <1>1, <1>2, <1>3 DEF Once, Unplaced
<1>5. \A t \in Tasks : Unspent(t)' => Unplaced(t)'
  BY <1>1, <1>2, <1>3 DEF Unplaced
<1>6. QED
  BY <1>4, <1>5 DEF Placing

\* A worker takes the first task of the queue.
LEMMA Taken == ASSUME IInv, NEW w \in Workers, Take(w) PROVE Placing' /\ Head(taskQueue) \in Tasks
<1>1. /\ taskQueue \in Seq(Tasks) /\ taskQueue # <<>> /\ taskQueue' = Tail(taskQueue)
      /\ task' = [task EXCEPT ![w] = Head(taskQueue)] /\ UNCHANGED <<finished, rejected>>
      /\ task \in [Workers -> Tasks \cup {None}]
  BY States1 DEF Take
<1>2. /\ Head(taskQueue) = taskQueue[1] /\ 1 \in 1 .. Len(taskQueue) /\ taskQueue[1] \in Tasks
      /\ \A i \in 1 .. Len(taskQueue') : /\ i + 1 \in 1 .. Len(taskQueue) /\ i + 1 # 1
                                         /\ taskQueue'[i] = taskQueue[i + 1] /\ taskQueue[i + 1] \in Tasks
      /\ \A i, j \in 1 .. Len(taskQueue') : i + 1 = j + 1 => i = j
  BY <1>1
<1>3. /\ Once /\ \A t \in Tasks : Unspent(t)' => Unplaced(t)
  BY UnspentStep DEF IInv, Commands, Next, Work
<1>4. \A v \in Workers : task'[v] = IF v = w THEN taskQueue[1] ELSE task[v]
  BY <1>1, <1>2
<1>5. \A i, j \in 1 .. Len(taskQueue') : taskQueue'[i] = taskQueue'[j] => i = j
  BY <1>2, <1>3 DEF Once
<1>6. \A v, u \in Workers : task'[v] = task'[u] /\ task'[v] # None => v = u
  BY <1>2, <1>3, <1>4 DEF Once
<1>7. \A i \in 1 .. Len(taskQueue') : /\ \A v \in Workers : task'[v] # taskQueue'[i]
                                      /\ taskQueue'[i] \notin finished /\ taskQueue'[i] \notin rejected
  BY <1>2, <1>3, <1>4 DEF Once
<1>8. \A v \in Workers : task'[v] \notin finished /\ task'[v] \notin rejected
  BY <1>2, <1>3, <1>4 DEF Once
<1>9. Once'
  BY <1>1, <1>3, <1>5, <1>6, <1>7, <1>8 DEF Once
<1>10. \A t \in Tasks : Unspent(t)' => Unplaced(t)'
  BY <1>1, <1>2, <1>3, <1>4 DEF Unplaced
<1>11. QED
  BY <1>2, <1>9, <1>10 DEF Placing

\* No step puts a task in a second place.
LEMMA PlacingStep == ASSUME IInv, [Next]_vars PROVE Placing'
<1> USE DEF Goto, Return, Move
<1>0. /\ task \in [Workers -> Tasks \cup {None}] /\ Once
      /\ \A t \in Tasks : Unspent(t)' => Unplaced(t) /\ t # None
      /\ \A w \in Workers : state[w] = "running" => task[w] \in Tasks /\ task[w] # None
  BY UnspentStep, States1, WorkerFacts DEF IInv, Commands, Working
<1>1. ASSUME UNCHANGED <<taskQueue, task, finished, rejected>> PROVE Placing'
  BY <1>0, <1>1 DEF Placing, Once, Unplaced
<1>2. ASSUME NEW s \in Submitters, Offer(s) \/ OfferAgain(s) PROVE Placing'
  BY <1>2, Queued DEF Offer, OfferAgain, Offered, wrkVars
<1>3. ASSUME NEW s \in Submitters, AddSupport(s) PROVE Placing'
  <2>1. /\ pc[s] # "idle" /\ cmd' = [cmd EXCEPT ![s] = None] /\ UNCHANGED <<handed, taskQueue, finished, rejected>>
        /\ task' = [task EXCEPT ![Support(cmd[s])] = cmd[s]]
    BY <1>3 DEF AddSupport
  <2>2. cmd[s] \in Tasks /\ Unplaced(cmd[s]) /\ \A t \in Tasks : Unspent(t)' => t # cmd[s]
    BY <2>1, Returned
  <2>3. \A w \in Workers : task'[w] = IF w = Support(cmd[s]) THEN cmd[s] ELSE task[w]
    BY <1>0, <2>1
  <2>4. Once'
    BY <1>0, <2>1, <2>2, <2>3 DEF Once, Unplaced
  <2>5. \A t \in Tasks : Unspent(t)' => Unplaced(t)'
    BY <1>0, <2>1, <2>2, <2>3 DEF Unplaced
  <2>6. QED
    BY <2>4, <2>5 DEF Placing
<1>4. ASSUME NEW s \in Submitters, AddSupportThrows(s) \/ Reject(s) PROVE Placing'
  <2>1. /\ pc[s] # "idle" /\ cmd' = [cmd EXCEPT ![s] = None] /\ UNCHANGED <<handed, taskQueue, task, finished>>
        /\ rejected' = rejected \cup {cmd[s]}
    BY <1>4 DEF AddSupportThrows, Reject, wrkVars
  <2>2. cmd[s] \in Tasks /\ Unplaced(cmd[s]) /\ \A t \in Tasks : Unspent(t)' => t # cmd[s]
    BY <2>1, Returned
  <2>3. Once'
    BY <1>0, <2>1, <2>2 DEF Once, Unplaced
  <2>4. \A t \in Tasks : Unspent(t)' => Unplaced(t)'
    BY <1>0, <2>1, <2>2 DEF Unplaced
  <2>5. QED
    BY <2>3, <2>4 DEF Placing
<1>5. ASSUME NEW w \in Workers, Take(w) PROVE Placing'
  BY <1>5, Taken
<1>6. ASSUME NEW w \in Workers, Finish(w) \/ FinishThrows(w) PROVE Placing'
  <2>1. /\ UNCHANGED <<taskQueue, rejected>> /\ task' = [task EXCEPT ![w] = None] /\ finished' = finished \cup {task[w]}
        /\ task[w] \in Tasks /\ task[w] # None
    BY <1>0, <1>6 DEF Finish, FinishThrows
  <2>2. \A v \in Workers : task'[v] = IF v = w THEN None ELSE task[v]
    BY <1>0, <2>1
  <2>3. None \notin finished' /\ None \notin rejected'
    BY <2>1, WorkerFacts DEF IInv, TypeOK
  <2>4. \A i \in 1 .. Len(taskQueue) : taskQueue[i] # None
    BY WorkerFacts, States1
  <2>5. Once'
    BY <1>0, <2>1, <2>2, <2>3, <2>4 DEF Once
  <2>6. \A t \in Tasks : Unspent(t)' => Unplaced(t)'
    BY <1>0, <2>1, <2>2 DEF Unplaced
  <2>7. QED
    BY <2>5, <2>6 DEF Placing
<1>7. QED
  BY <1>1, <1>2, <1>3, <1>4, <1>5, <1>6 DEF Next, Submit, Work, vars, Execute, CheckCore, ReadCoreSize, AddCore, OfferFails,
     CheckMax, ReadSupportSize, RunFirst, TimesOut, Search, SearchFails, Shift, Shrink, wrkVars

\* The workers of a command are made by the call that has it.
LEMMA MadeByTheCall == ASSUME IInv, [Next]_vars
                       PROVE  /\ \A t \in Tasks : Unspent(t)' => state'[Support(t)] = "new"
                              /\ \A t \in Tasks : t > handed' => state'[Core(t)] = "new"
                              /\ \A s \in Submitters : pc'[s] \in BeforeCore => state'[Core(cmd'[s])] = "new"
<1> USE DEF Goto, Return, Move
<1>0. /\ state \in [Workers -> States] /\ handed \in 0 .. TaskCount /\ pool \in Pools
      /\ pc \in [Submitters -> Positions] /\ cmd \in [Submitters -> Tasks \cup {None}]
      /\ \A t \in Tasks : Unspent(t)' => Unspent(t)
      /\ \A s \in Submitters : pc[s] # "idle" => cmd[s] \in Tasks
      /\ \A s \in Submitters : cmd[s] <= handed /\ (pc[s] = "idle" <=> cmd[s] = None)
  BY UnspentStep, States1 DEF IInv, TypeOK, Commands
<1>1. /\ \A t \in Tasks : Unspent(t)' => state[Support(t)] = "new"
      /\ \A t \in Tasks : t > handed => state[Core(t)] = "new"
      /\ \A s \in Submitters : pc[s] \in BeforeCore => state[Core(cmd[s])] = "new"
      /\ \A s, u \in Submitters : cmd[s] = cmd[u] /\ cmd[s] # None => s = u
  BY <1>0 DEF IInv, Commands
<1> DEFINE Made == /\ \A t \in Tasks : Unspent(t)' => state'[Support(t)] = "new"
                   /\ \A t \in Tasks : t > handed' => state'[Core(t)] = "new"
                   /\ \A s \in Submitters : pc'[s] \in BeforeCore => state'[Core(cmd'[s])] = "new"
<1>2. ASSUME NEW s \in Submitters, Execute(s) PROVE Made
  <2>1. /\ handed' = handed + 1 /\ pc' = [pc EXCEPT ![s] = "checkCore"] /\ cmd' = [cmd EXCEPT ![s] = handed + 1]
        /\ state' = state /\ handed < pool.tasks
    BY <1>2 DEF Execute, wrkVars
  <2>2. handed + 1 \in Tasks /\ handed + 1 > handed
    BY <1>0, <2>1, PoolFacts DEF Tasks
  <2>3. \A t \in Tasks : t > handed' => t > handed
    BY <1>0, <2>1 DEF Tasks
  <2>4. QED
    BY <1>0, <1>1, <2>1, <2>2, <2>3
<1>3. ASSUME NEW s \in Submitters, \/ Offer(s) \/ AddSupportThrows(s) \/ OfferAgain(s) \/ Reject(s) PROVE Made
  <2>1. /\ pc' = [pc EXCEPT ![s] = "idle"] /\ cmd' = [cmd EXCEPT ![s] = None] /\ UNCHANGED <<handed, state>>
    BY <1>3 DEF Offer, AddSupportThrows, OfferAgain, Reject, wrkVars
  <2>2. QED
    BY <1>0, <1>1, <2>1 DEF BeforeCore
<1>4. ASSUME NEW s \in Submitters, \/ CheckCore(s) \/ ReadCoreSize(s) \/ OfferFails(s) \/ CheckMax(s) \/ ReadSupportSize(s)
      PROVE Made
  <2>1. /\ UNCHANGED <<cmd, handed, state>> /\ \A u \in Submitters : pc'[u] \in BeforeCore => pc[u] \in BeforeCore
    BY <1>0, <1>4 DEF CheckCore, ReadCoreSize, OfferFails, CheckMax, ReadSupportSize, wrkVars, BeforeCore
  <2>2. QED
    BY <1>1, <2>1
<1>5. ASSUME NEW s \in Submitters, AddCore(s) PROVE Made
  <2>1. /\ pc[s] = "addCore" /\ pc' = [pc EXCEPT ![s] = "offer"] /\ UNCHANGED <<cmd, handed>>
        /\ state' = [state EXCEPT ![Core(cmd[s])] = "taking"]
    BY <1>5 DEF AddCore
  <2>2. cmd[s] \in Tasks /\ cmd[s] # None
    BY <1>0, <2>1
  <2>3. \A t \in Tasks : /\ state'[Support(t)] = state[Support(t)]
                         /\ t # cmd[s] => state'[Core(t)] = state[Core(t)]
    BY <1>0, <2>1, <2>2, WorkerFacts
  <2>4. \A t \in Tasks : t > handed => t # cmd[s]
    BY <1>0, <2>2 DEF Tasks
  <2>5. ASSUME NEW u \in Submitters, pc'[u] \in BeforeCore PROVE state'[Core(cmd'[u])] = "new"
    <3>1. u # s /\ pc[u] \in BeforeCore
      BY <1>0, <2>1, <2>5 DEF BeforeCore
    <3>2. cmd[u] \in Tasks /\ cmd[u] # cmd[s]
      BY <1>0, <1>1, <2>2, <3>1 DEF BeforeCore
    <3>3. QED
      BY <1>1, <2>1, <2>3, <3>1, <3>2
  <2>6. QED
    BY <1>1, <2>1, <2>3, <2>4, <2>5
<1>6. ASSUME NEW s \in Submitters, AddSupport(s) PROVE Made
  <2>1. /\ pc[s] # "idle" /\ pc' = [pc EXCEPT ![s] = "idle"] /\ cmd' = [cmd EXCEPT ![s] = None] /\ UNCHANGED handed
        /\ state' = [state EXCEPT ![Support(cmd[s])] = "first"]
    BY <1>6 DEF AddSupport
  <2>2. cmd[s] \in Tasks /\ \A t \in Tasks : Unspent(t)' => t # cmd[s]
    BY <2>1, Returned
  <2>3. \A t \in Tasks : /\ state'[Core(t)] = state[Core(t)]
                         /\ t # cmd[s] => state'[Support(t)] = state[Support(t)]
    BY <1>0, <2>1, <2>2, WorkerFacts
  <2>4. ASSUME NEW u \in Submitters, pc'[u] \in BeforeCore PROVE state'[Core(cmd'[u])] = "new"
    <3>1. u # s /\ pc[u] \in BeforeCore
      BY <1>0, <2>1, <2>4 DEF BeforeCore
    <3>2. cmd[u] \in Tasks /\ cmd'[u] = cmd[u]
      BY <1>0, <2>1, <3>1 DEF BeforeCore
    <3>3. QED
      BY <1>1, <2>3, <3>1, <3>2
  <2>5. QED
    BY <1>1, <2>1, <2>2, <2>3, <2>4
<1>7. ASSUME NEW w \in Workers, Work(w) PROVE Made
  <2>1. UNCHANGED <<pc, cmd, handed>> /\ \A v \in Workers : state[v] = "new" => state'[v] = "new"
    BY <1>0, <1>7 DEF Work, RunFirst, Take, Finish, FinishThrows, TimesOut, Search, SearchFails, Shift, Shrink, subVars
  <2>2. \A u \in Submitters : pc[u] \in BeforeCore => cmd[u] \in Tasks
    BY <1>0 DEF BeforeCore
  <2>3. QED
    BY <1>1, <2>1, <2>2, WorkerFacts
<1>8. ASSUME UNCHANGED vars PROVE Made
  BY <1>1, <1>8 DEF vars, subVars, wrkVars
<1>9. QED
  BY <1>2, <1>3, <1>4, <1>5, <1>6, <1>7, <1>8 DEF Next, Submit

\* Every step keeps the workers' tasks and classes.
LEMMA WorkingStep == ASSUME IInv, [Next]_vars PROVE Working'
<1> USE DEF Goto, Return, Move
<1>0. /\ state \in [Workers -> States] /\ task \in [Workers -> Tasks \cup {None}] /\ Working
      /\ \A t \in Tasks : t # None
  BY States1, WorkerFacts DEF IInv
<1>1. ASSUME UNCHANGED <<state, task>> PROVE Working'
  BY <1>0, <1>1 DEF Working
<1>2. ASSUME NEW s \in Submitters, AddCore(s) PROVE Working'
  <2>1. /\ Core(cmd[s]) \in Workers /\ state[Core(cmd[s])] = "new" /\ state' = [state EXCEPT ![Core(cmd[s])] = "taking"]
        /\ task' = task
    BY <1>2, States1, WorkerFacts DEF AddCore, IInv, Commands, BeforeCore
  <2>2. QED
    BY <1>0, <2>1 DEF Working
<1>3. ASSUME NEW s \in Submitters, AddSupport(s) PROVE Working'
  <2>1. /\ cmd[s] \in Tasks /\ Support(cmd[s]) \in Workers /\ Support(cmd[s])[1] = "support"
        /\ state' = [state EXCEPT ![Support(cmd[s])] = "first"] /\ task' = [task EXCEPT ![Support(cmd[s])] = cmd[s]]
    BY <1>3, States1, WorkerFacts DEF AddSupport
  <2>2. QED
    BY <1>0, <2>1 DEF Working
<1>4. ASSUME NEW w \in Workers, Take(w) PROVE Working'
  <2>1. state[w] = "taking" /\ state' = [state EXCEPT ![w] = "running"] /\ task' = [task EXCEPT ![w] = Head(taskQueue)]
    BY <1>4 DEF Take
  <2>2. QED
    BY <1>0, <1>4, <2>1, Taken DEF Working
<1>5. ASSUME NEW w \in Workers, RunFirst(w) \/ Finish(w) \/ FinishThrows(w) \/ TimesOut(w) \/ Search(w) \/ SearchFails(w)
                                \/ Shift(w) \/ Shrink(w)
      PROVE Working'
  BY <1>0, <1>5 DEF RunFirst, Finish, FinishThrows, TimesOut, Search, SearchFails, Shift, Shrink, Working
<1>6. QED
  BY <1>1, <1>2, <1>3, <1>4, <1>5 DEF Next, Submit, Work, vars, Execute, CheckCore, ReadCoreSize, Offer, OfferFails,
     CheckMax, ReadSupportSize, AddSupportThrows, OfferAgain, Reject, wrkVars

\* Every step keeps the types: the sizes of the lists by what was added and removed.
LEMMA TypeStep == ASSUME IInv, [Next]_vars PROVE TypeOK'
<1> USE DEF Goto, Return, Move
<1>0. TypeOK /\ pool \in Pools /\ pool' = pool /\ TaskCount \in Nat /\ Sized' /\ Counts'
  BY ExecutorAssumption, CommandStep, SizedStep, CountFacts, PTL DEF IInv
<1>1. pc' \in [Submitters -> Positions]
  BY <1>0 DEF TypeOK, Positions, Next, Submit, Work, vars, subVars, Execute, CheckCore, ReadCoreSize, AddCore, Offer, OfferFails,
     CheckMax, ReadSupportSize, AddSupport, AddSupportThrows, OfferAgain, Reject, RunFirst, Take, Finish, FinishThrows,
     TimesOut, Search, SearchFails, Shift, Shrink
<1>2. cmd' \in [Submitters -> Tasks \cup {None}] /\ handed' \in 0 .. TaskCount
  <2>1. ASSUME NEW s \in Submitters, Execute(s) PROVE handed + 1 \in Tasks
    BY <1>0, <2>1, PoolFacts DEF Execute, TypeOK, Tasks
  <2>2. ASSUME NEW s \in Submitters, Execute(s) PROVE cmd' \in [Submitters -> Tasks \cup {None}] /\ handed' \in 0 .. TaskCount
    <3>1. handed + 1 \in Tasks /\ handed' = handed + 1 /\ cmd' = [cmd EXCEPT ![s] = handed + 1]
      BY <2>1, <2>2 DEF Execute
    <3>2. QED
      BY <1>0, <3>1 DEF TypeOK, Tasks
  <2>3. QED
    BY <1>0, <2>2 DEF TypeOK, Next, Submit, Work, vars, subVars, CheckCore, ReadCoreSize, AddCore, Offer, OfferFails,
       CheckMax, ReadSupportSize, AddSupport, AddSupportThrows, OfferAgain, Reject, RunFirst, Take, Finish, FinishThrows,
       TimesOut, Search, SearchFails, Shift, Shrink
<1>3. seen' \in [Submitters -> Sizes]
  <2>1. coreSize \in Sizes /\ supportSize \in Sizes /\ 0 \in Sizes /\ seen \in [Submitters -> Sizes]
    BY <1>0 DEF TypeOK, Sizes
  <2>2. QED
    BY <2>1 DEF Next, Submit, Work, vars, subVars, Execute, CheckCore, ReadCoreSize, AddCore, Offer, OfferFails,
       CheckMax, ReadSupportSize, AddSupport, AddSupportThrows, OfferAgain, Reject, RunFirst, Take, Finish, FinishThrows,
       TimesOut, Search, SearchFails, Shift, Shrink
<1>4. coreSize' \in 0 .. TaskCount
  <2>1. ASSUME NEW s \in Submitters, AddCore(s) PROVE coreSize' \in 0 .. TaskCount
    <3>1. seen[s] \in Int /\ 0 <= seen[s] /\ coreSize' = seen[s] + 1
      BY <2>1, States1 DEF AddCore, IInv, Sized
    <3>2. coreSize' <= Cardinality(CoresMade)' /\ Cardinality(CoresMade)' \in 0 .. TaskCount
      BY <1>0 DEF Sized, Counts
    <3>3. QED
      BY <1>0, <3>1, <3>2
  <2>2. QED
    BY <1>0, <2>1 DEF TypeOK, Next, Submit, Work, vars, listVars, Execute, CheckCore, ReadCoreSize, Offer, OfferFails,
       CheckMax, ReadSupportSize, AddSupport, AddSupportThrows, OfferAgain, Reject, RunFirst, Take, Finish, FinishThrows,
       TimesOut, Search, SearchFails, Shift, Shrink
<1>5. supportSize' \in Sizes
  <2>1. supportSize' \in Int
    BY States1 DEF Next, Submit, Work, vars, listVars, Execute, CheckCore, ReadCoreSize, AddCore, Offer, OfferFails,
       CheckMax, ReadSupportSize, AddSupport, AddSupportThrows, OfferAgain, Reject, RunFirst, Take, Finish, FinishThrows,
       TimesOut, Search, SearchFails, Shift, Shrink
  <2>2. /\ -Cardinality(SupportsGone') <= supportSize' /\ supportSize' <= Cardinality(SupportsMade')
        /\ Cardinality(SupportsGone') \in 0 .. TaskCount /\ Cardinality(SupportsMade') \in 0 .. TaskCount
    BY <1>0 DEF Sized, Counted, Counts
  <2>3. QED
    BY <1>0, <2>1, <2>2 DEF Sizes
<1>6. slots' \in [1 .. TaskCount -> Workers \cup {NoWorker}]
  <2>1. slots \in [1 .. TaskCount -> Workers \cup {NoWorker}] /\ supportSize \in Int /\ supportSize <= TaskCount
    BY <1>0 DEF TypeOK, Sizes
  <2>2. ASSUME NEW s \in Submitters, AddSupport(s) PROVE slots' \in [1 .. TaskCount -> Workers \cup {NoWorker}]
    <3>1. Support(cmd[s]) \in Workers /\ slots' = [slots EXCEPT ![seen[s] + 1] = Support(cmd[s])]
      BY <2>2, States1, WorkerFacts DEF AddSupport
    <3>2. QED
      BY <2>1, <3>1
  <2>3. ASSUME NEW w \in Workers, Shift(w) PROVE slots' \in [1 .. TaskCount -> Workers \cup {NoWorker}]
    <3>1. slots' = [i \in 1 .. TaskCount |-> IF at[w] <= i /\ i < supportSize THEN slots[i + 1] ELSE slots[i]]
      BY <2>1, <2>3 DEF Shift
    <3>2. ASSUME NEW i \in 1 .. TaskCount, i < supportSize PROVE i + 1 \in 1 .. TaskCount
      BY <1>0, <2>1, <3>2
    <3>3. QED
      BY <2>1, <3>1, <3>2
  <2>4. ASSUME NEW w \in Workers, Shrink(w) PROVE slots' \in [1 .. TaskCount -> Workers \cup {NoWorker}]
    BY <2>1, <2>4 DEF Shrink
  <2>5. QED
    BY <2>1, <2>2, <2>3, <2>4 DEF Next, Submit, Work, vars, listVars, Execute, CheckCore, ReadCoreSize, AddCore, Offer,
       OfferFails, CheckMax, ReadSupportSize, AddSupportThrows, OfferAgain, Reject, RunFirst, Take, Finish, FinishThrows,
       TimesOut, Search, SearchFails
<1>7. taskQueue' \in Seq(Tasks) /\ Len(taskQueue') <= pool'.capacity
  <2>1. taskQueue \in Seq(Tasks) /\ Len(taskQueue) <= pool.capacity /\ pool.capacity \in Nat
    BY <1>0, PoolFacts DEF TypeOK
  <2>2. ASSUME NEW s \in Submitters, Offered(s), pc[s] # "idle" PROVE taskQueue' \in Seq(Tasks) /\ Len(taskQueue') <= pool.capacity
    <3>1. cmd[s] \in Tasks /\ Len(taskQueue) < pool.capacity /\ taskQueue' = Append(taskQueue, cmd[s])
      BY <2>2, States1 DEF Offered
    <3>2. QED
      BY <2>1, <3>1
  <2>3. ASSUME NEW w \in Workers, Take(w) PROVE taskQueue' \in Seq(Tasks) /\ Len(taskQueue') <= pool.capacity
    <3>1. taskQueue # <<>> /\ taskQueue' = Tail(taskQueue)
      BY <2>3 DEF Take
    <3>2. QED
      BY <2>1, <3>1
  <2>4. QED
    BY <1>0, <2>1, <2>2, <2>3 DEF Next, Submit, Work, vars, Execute, CheckCore, ReadCoreSize, AddCore, Offer,
       OfferFails, CheckMax, ReadSupportSize, AddSupport, AddSupportThrows, OfferAgain, Reject, RunFirst, Finish, FinishThrows,
       TimesOut, Search, SearchFails, Shift, Shrink
<1>8. state' \in [Workers -> States]
  BY <1>0, ZenonT(40) DEF TypeOK, States, Next, Submit, Work, vars, wrkVars, Execute, CheckCore, ReadCoreSize, AddCore, Offer,
     OfferFails, CheckMax, ReadSupportSize, AddSupport, AddSupportThrows, OfferAgain, Reject, RunFirst, Take, Finish, FinishThrows,
     TimesOut, Search, SearchFails, Shift, Shrink
<1>9. task' \in [Workers -> Tasks \cup {None}] /\ finished' \in SUBSET Tasks /\ rejected' \in SUBSET Tasks
  <2>1. /\ task \in [Workers -> Tasks \cup {None}] /\ finished \in SUBSET Tasks /\ rejected \in SUBSET Tasks
        /\ \A s \in Submitters : pc[s] # "idle" => cmd[s] \in Tasks
        /\ \A w \in Workers : state[w] = "running" => task[w] \in Tasks
    BY <1>0, States1 DEF TypeOK, IInv, Working
  <2>2. ASSUME NEW w \in Workers, Take(w) PROVE task' \in [Workers -> Tasks \cup {None}]
    BY <2>1, <2>2, Taken DEF Take
  <2>3. task' \in [Workers -> Tasks \cup {None}]
    BY <2>1, <2>2 DEF Next, Submit, Work, vars, wrkVars, Execute, CheckCore, ReadCoreSize, AddCore, Offer,
       OfferFails, CheckMax, ReadSupportSize, AddSupport, AddSupportThrows, OfferAgain, Reject, RunFirst, Finish, FinishThrows,
       TimesOut, Search, SearchFails, Shift, Shrink
  <2>4. finished' \in SUBSET Tasks /\ rejected' \in SUBSET Tasks
    BY <2>1 DEF Next, Submit, Work, vars, Execute, CheckCore, ReadCoreSize, AddCore, Offer,
       OfferFails, CheckMax, ReadSupportSize, AddSupport, AddSupportThrows, OfferAgain, Reject, RunFirst, Take, Finish, FinishThrows,
       TimesOut, Search, SearchFails, Shift, Shrink
  <2>5. QED
    BY <2>3, <2>4
<1>10. at' \in [Workers -> Sizes]
  <2>1. at \in [Workers -> Sizes] /\ supportSize \in Sizes /\ 0 \in Sizes /\ \A i \in 1 .. supportSize : i \in Sizes
    BY <1>0 DEF TypeOK, Sizes
  <2>2. QED
    BY <2>1 DEF Next, Submit, Work, vars, wrkVars, Execute, CheckCore, ReadCoreSize, AddCore, Offer, Places,
       OfferFails, CheckMax, ReadSupportSize, AddSupport, AddSupportThrows, OfferAgain, Reject, RunFirst, Take, Finish, FinishThrows,
       TimesOut, Search, SearchFails, Shift, Shrink
<1>11. QED
  BY <1>1, <1>2, <1>3, <1>4, <1>5, <1>6, <1>7, <1>8, <1>9, <1>10 DEF TypeOK

\* The invariant is inductive.
LEMMA NextIInv == IInv /\ [Next]_vars => IInv'
<1> SUFFICES ASSUME IInv, [Next]_vars PROVE IInv'
  OBVIOUS
<1>1. Placing' /\ Working' /\ Sized' /\ TypeOK'
  BY PlacingStep, WorkingStep, SizedStep, TypeStep
<1>2. Commands'
  BY <1>1, CommandStep, MadeByTheCall DEF Commands, Placing
<1>3. QED
  BY <1>1, <1>2, CommandStep DEF IInv, Placing

-----------------------------------------------------------------------------
(* The theorem on the pool's lists and queue *)

\* Sets of at most one element are counted.
LEMMA AtMostOne == ASSUME NEW S, \A x, y \in S : x = y PROVE Cardinality(S) = IF S = {} THEN 0 ELSE 1
<1>1. CASE S = {}
  BY <1>1, FS_EmptySet
<1>2. CASE S # {}
  <2>1. PICK x \in S : TRUE
    BY <1>2
  <2>2. S = {x}
    BY <2>1
  <2>3. QED
    BY <1>2, <2>2, FS_Singleton
<1>3. QED
  BY <1>1, <1>2

\* A task that is nowhere twice is in one place.
LEMMA OnePlace == IInv => InOnePlace
<1> SUFFICES ASSUME IInv, NEW t \in Tasks
             PROVE  Cardinality({i \in DOMAIN taskQueue : taskQueue[i] = t}) + Cardinality({w \in Workers : task[w] = t})
                      + (IF t \in finished THEN 1 ELSE 0) + (IF t \in rejected THEN 1 ELSE 0) <= 1
  BY DEF InOnePlace
<1> DEFINE Queue == {i \in DOMAIN taskQueue : taskQueue[i] = t}
           Held == {w \in Workers : task[w] = t}
<1>1. DOMAIN taskQueue = 1 .. Len(taskQueue) /\ t # None /\ Once
  BY States1, WorkerFacts DEF IInv
<1>2. Cardinality(Queue) = IF Queue = {} THEN 0 ELSE 1
  <2>1. \A i, j \in Queue : i = j
    BY <1>1 DEF Once
  <2>2. QED
    BY <2>1, AtMostOne
<1>3. Cardinality(Held) = IF Held = {} THEN 0 ELSE 1
  <2>1. \A v, w \in Held : v = w
    BY <1>1 DEF Once
  <2>2. QED
    BY <2>1, AtMostOne
<1>4. Queue # {} => Held = {} /\ t \notin finished /\ t \notin rejected
  BY <1>1 DEF Once
<1>5. Held # {} => t \notin finished /\ t \notin rejected
  BY <1>1 DEF Once
<1>6. t \in finished => t \notin rejected
  BY <1>1 DEF Once
<1>7. QED
  BY <1>2, <1>3, <1>4, <1>5, <1>6

\* At first no call is under way and no thread exists.
LEMMA InitSerialInv == Init => SerialInv
<1> SUFFICES ASSUME Init PROVE CallsInTurn /\ OneSupport
  BY DEF SerialInv
<1>1. CoresMade = {} /\ AliveSupports = {}
  BY WorkerFacts DEF Init, CoresMade, AliveSupports
<1>2. pool.coreThreadCount \in Nat
  BY PoolFacts DEF Init
<1>3. Looked = 0
  BY DEF Init, Looked, BeforeCore
<1>4. CallsInTurn
  BY <1>1, <1>2, <1>3, FS_EmptySet DEF Init, CallsInTurn
<1>5. OneSupport
  BY <1>1 DEF Init, OneSupport
<1>6. QED
  BY <1>4, <1>5

\* Between the steps of one caller the cores are counted.
LEMMA CallsStep == ASSUME IInv, [Next]_vars, Serial, CallsInTurn, OneSupport PROVE CallsInTurn'
<1> USE DEF Goto, Return, Move
<1>0. /\ pc \in [Submitters -> Positions] /\ seen \in [Submitters -> Int] /\ coreSize \in Nat /\ handed \in Nat
      /\ taskQueue \in Seq(Tasks) /\ state \in [Workers -> States]
      /\ pool.coreThreadCount \in Nat /\ pool.maxThreadCount \in Nat /\ pool.capacity \in Nat
      /\ pool.coreThreadCount <= pool.capacity + 1 /\ pool' = pool /\ supportSize \in {0, 1}
      /\ pool.maxThreadCount \in {pool.coreThreadCount, pool.coreThreadCount + 1}
  BY States1, PoolFacts, CommandStep DEF IInv, TypeOK, Serial, OneSupport
<1>1. PICK c \in Submitters : pool.clients = {c}
  BY DEF Serial
<1>2. /\ \A s \in Submitters : pc[s] # "idle" => s = c
      /\ coreSize = Cardinality(CoresMade)
      /\ pc[c] \in BeforeCore => coreSize = IF handed - 1 < pool.coreThreadCount THEN handed - 1 ELSE pool.coreThreadCount
      /\ pc[c] \notin BeforeCore => coreSize = IF handed < pool.coreThreadCount THEN handed ELSE pool.coreThreadCount
      /\ Len(taskQueue) <= handed
      /\ pc[c] # "idle" => Len(taskQueue) < handed
      /\ pc[c] = "addCore" => seen[c] = coreSize
      /\ pc[c] \in {"readCore", "addCore"} => coreSize < pool.coreThreadCount
      /\ pc[c] = "readSizes" => seen[c] = pool.coreThreadCount
  BY <1>1 DEF CallsInTurn, Looked, BeforeCore
<1>10. /\ coreSize \in Nat /\ handed \in Nat /\ Len(taskQueue) \in Nat /\ pool.coreThreadCount \in Nat /\ pool.capacity \in Nat
       /\ pool.coreThreadCount <= pool.capacity + 1
  BY <1>0
\* What has to be shown of the next state.
<1> DEFINE After == /\ coreSize' = Cardinality(CoresMade')
                    /\ pc'[c] \in BeforeCore =>
                         coreSize' = IF handed' - 1 < pool.coreThreadCount THEN handed' - 1 ELSE pool.coreThreadCount
                    /\ pc'[c] \notin BeforeCore =>
                         coreSize' = IF handed' < pool.coreThreadCount THEN handed' ELSE pool.coreThreadCount
                    /\ Len(taskQueue') <= handed'
                    /\ pc'[c] # "idle" => Len(taskQueue') < handed'
                    /\ pc'[c] = "addCore" => seen'[c] = coreSize'
                    /\ pc'[c] \in {"readCore", "addCore"} => coreSize' < pool.coreThreadCount
                    /\ pc'[c] = "readSizes" => seen'[c] = pool.coreThreadCount
<1>3. ASSUME After, \A s \in Submitters : pc'[s] # "idle" => s = c PROVE CallsInTurn'
  <2>1. Looked' = IF pc'[c] \in BeforeCore THEN handed' - 1 ELSE handed'
    BY <1>3 DEF Looked, BeforeCore
  <2>2. QED
    BY <1>0, <1>1, <1>3, <2>1 DEF CallsInTurn
<1>4. ASSUME UNCHANGED <<pc, coreSize, seen, handed>>, CoresMade' = CoresMade, Len(taskQueue') <= Len(taskQueue), Len(taskQueue') \in Nat
      PROVE  CallsInTurn'
  <2> HIDE DEF After
  <2>1. After
    BY <1>10, <1>2, <1>4 DEF After
  <2>2. QED
    BY <1>2, <1>3, <1>4, <2>1
<1>5. ASSUME NEW s \in Submitters, Execute(s) PROVE CallsInTurn'
  <2>1. /\ s = c /\ pc' = [pc EXCEPT ![c] = "checkCore"] /\ pc[c] = "idle" /\ handed' = handed + 1
        /\ UNCHANGED <<coreSize, seen, taskQueue, state>>
    BY <1>1, <1>5 DEF Execute, listVars, wrkVars
  <2>2. CoresMade' = CoresMade
    BY <2>1, SameWorkers
  <2>10. pc'[c] = "checkCore"
    BY <1>0, <2>1
  <2>3. After
    BY <1>10, <1>2, <2>1, <2>2, <2>10 DEF BeforeCore
  <2>4. QED
    BY <1>0, <1>2, <1>3, <2>1, <2>3
<1>6. ASSUME NEW s \in Submitters, Submit(s) PROVE CallsInTurn'
  <2>1. s = c /\ handed' = handed /\ pc[c] # "idle"
    BY <1>2, <1>6 DEF Submit, CheckCore, ReadCoreSize, AddCore, Offer, OfferFails, CheckMax, ReadSupportSize, AddSupport,
       AddSupportThrows, OfferAgain, Reject
  <2>2. \A u \in Submitters : pc'[u] # "idle" => u = c
    BY <1>0, <1>2, <1>6, <2>1 DEF Submit, CheckCore, ReadCoreSize, AddCore, Offer, OfferFails, CheckMax, ReadSupportSize,
       AddSupport, AddSupportThrows, OfferAgain, Reject
  <2>3. CASE AddCore(c)
    <3>1. coreSize' = coreSize + 1 /\ pc[c] = "addCore" /\ pc'[c] = "offer" /\ taskQueue' = taskQueue
      BY <1>0, <1>2, <2>3 DEF AddCore
    <3>2. Cardinality(CoresMade') = coreSize + 1
      <4>1. CoresMade \in SUBSET Tasks /\ cmd[c] \in Tasks \ CoresMade /\ CoresMade' = CoresMade \cup {cmd[c]}
        BY <2>3, CoreMade DEF CoresMade
      <4>2. Cardinality(CoresMade \cup {cmd[c]}) = Cardinality(CoresMade) + 1
        BY <4>1, SetFacts
      <4>3. QED
        BY <1>2, <4>1, <4>2
    <3>3. After
      BY <1>10, <1>2, <2>1, <3>1, <3>2 DEF BeforeCore
    <3>4. QED
      BY <1>3, <2>2, <3>3
  <2>4. CASE ~AddCore(c)
    <3>1. CoresMade' = CoresMade
      <4>1. CASE AddSupport(c)
        BY <4>1, SupportMade
      <4>2. CASE ~AddSupport(c)
        <5>1. state' = state
          BY <1>6, <2>1, <2>4, <4>2 DEF Submit, CheckCore, ReadCoreSize, Offer, OfferFails, CheckMax, ReadSupportSize,
             AddSupportThrows, OfferAgain, Reject, wrkVars
        <5>2. QED
          BY <5>1, SameWorkers
      <4>3. QED
        BY <4>1, <4>2
    <3>2. coreSize' = coreSize
      BY <1>6, <2>1, <2>4 DEF Submit, CheckCore, ReadCoreSize, Offer, OfferFails, CheckMax, ReadSupportSize,
         AddSupport, AddSupportThrows, OfferAgain, Reject, listVars
    <3>3. CASE CheckCore(c)
      <4>1. /\ UNCHANGED <<seen, taskQueue>> /\ pc[c] = "checkCore"
            /\ pc'[c] = IF coreSize < pool.coreThreadCount THEN "readCore" ELSE "offer"
        BY <1>0, <3>3 DEF CheckCore
      <4>2. After
        BY <1>10, <1>2, <2>1, <3>1, <3>2, <4>1 DEF BeforeCore
      <4>3. QED
        BY <1>3, <2>2, <4>2
    <3>4. CASE ReadCoreSize(c)
      <4>1. taskQueue' = taskQueue /\ pc[c] = "readCore" /\ pc'[c] = "addCore" /\ seen'[c] = coreSize
        BY <1>0, <3>4 DEF ReadCoreSize
      <4>2. After
        BY <1>10, <1>2, <2>1, <3>1, <3>2, <4>1 DEF BeforeCore
      <4>3. QED
        BY <1>3, <2>2, <4>2
    <3>5. CASE Offer(c) \/ OfferAgain(c)
      <4>1. Len(taskQueue') = Len(taskQueue) + 1 /\ pc[c] \in {"offer", "offerAgain"} /\ pc'[c] = "idle"
        <5>1. cmd[c] \in Tasks /\ taskQueue' = Append(taskQueue, cmd[c])
          BY <2>1, <3>5, States1 DEF Offer, OfferAgain, Offered
        <5>2. QED
          BY <1>0, <3>5, <5>1 DEF Offer, OfferAgain
      <4>2. After
        BY <1>10, <1>2, <2>1, <3>1, <3>2, <4>1 DEF BeforeCore
      <4>3. QED
        BY <1>3, <2>2, <4>2
    <3>6. CASE OfferFails(c)
      <4>1. /\ taskQueue' = taskQueue /\ pc[c] = "offer" /\ pc'[c] = "readSizes" /\ seen'[c] = coreSize
            /\ Len(taskQueue) >= pool.capacity
        BY <1>0, <3>6 DEF OfferFails
      <4>2. coreSize = pool.coreThreadCount
        BY <1>10, <1>2, <4>1 DEF BeforeCore
      <4>3. After
        BY <1>10, <1>2, <2>1, <3>1, <3>2, <4>1, <4>2 DEF BeforeCore
      <4>4. QED
        BY <1>3, <2>2, <4>3
    <3>7. CASE CheckMax(c) \/ ReadSupportSize(c) \/ AddSupport(c) \/ AddSupportThrows(c) \/ Reject(c)
      <4>1. /\ taskQueue' = taskQueue /\ pc[c] \in {"readSizes", "readSupport", "addSupport", "offerAgain"}
            /\ pc'[c] \in {"readSupport", "addSupport", "offerAgain", "idle"}
        BY <1>0, <3>7 DEF CheckMax, ReadSupportSize, AddSupport, AddSupportThrows, Reject
      <4>2. After
        BY <1>10, <1>2, <2>1, <3>1, <3>2, <4>1 DEF BeforeCore
      <4>3. QED
        BY <1>3, <2>2, <4>2
    <3>8. QED
      BY <1>6, <2>1, <2>4, <3>3, <3>4, <3>5, <3>6, <3>7 DEF Submit
  <2>5. QED
    BY <2>3, <2>4
<1>7. ASSUME NEW w \in Workers, Work(w) PROVE CallsInTurn'
  <2>1. UNCHANGED <<pc, coreSize, seen, handed>>
    BY <1>7 DEF Work, RunFirst, Take, Finish, FinishThrows, TimesOut, Search, SearchFails, Shift, Shrink, subVars, listVars
  <2>2. \A v \in Workers : state'[v] = "new" <=> state[v] = "new"
    BY <1>0, <1>7 DEF Work, RunFirst, Take, Finish, FinishThrows, TimesOut, Search, SearchFails, Shift, Shrink
  <2>3. CoresMade' = CoresMade
    BY <2>2, WorkerFacts DEF CoresMade
  <2>4. Len(taskQueue') <= Len(taskQueue) /\ Len(taskQueue') \in Nat
    BY <1>0, <1>7 DEF Work, RunFirst, Take, Finish, FinishThrows, TimesOut, Search, SearchFails, Shift, Shrink
  <2>5. QED
    BY <1>4, <2>1, <2>3, <2>4
<1>8. ASSUME UNCHANGED vars PROVE CallsInTurn'
  <2>1. UNCHANGED <<pc, coreSize, seen, handed, taskQueue, state>>
    BY <1>8 DEF vars, subVars, listVars, wrkVars
  <2>2. CoresMade' = CoresMade
    BY <2>1, SameWorkers
  <2>3. QED
    BY <1>0, <1>4, <2>1, <2>2
<1>9. QED
  BY <1>5, <1>6, <1>7, <1>8 DEF Next

\* A support thread that was made and has not ended is the one in the first place.
LEMMA SupportsStep == ASSUME IInv, [Next]_vars, Serial, CallsInTurn, OneSupport PROVE OneSupport'
<1> USE DEF Goto, Return, Move
<1>0. /\ pc \in [Submitters -> Positions] /\ seen \in [Submitters -> Int] /\ state \in [Workers -> States]
      /\ slots \in [1 .. TaskCount -> Workers \cup {NoWorker}] /\ at \in [Workers -> Int] /\ pool' = pool
      /\ pool.coreThreadCount \in Nat /\ pool.maxThreadCount \in Nat /\ pool.throwing = {} /\ 1 \in 1 .. TaskCount
      /\ pool.maxThreadCount \in {pool.coreThreadCount, pool.coreThreadCount + 1}
  <2>1. pool.tasks \in 1 .. TaskCount /\ TaskCount \in Nat
    BY PoolFacts DEF IInv, Tasks
  <2>2. 1 \in 1 .. TaskCount
    BY <2>1
  <2>3. QED
    BY <2>2, States1, PoolFacts, CommandStep DEF IInv, TypeOK, Serial
<1>1. PICK c \in Submitters : pool.clients = {c}
  BY DEF Serial
<1>2. \A s \in Submitters : /\ pc[s] # "idle" => s = c
                            /\ pc[s] = "readSizes" => seen[s] = pool.coreThreadCount
  BY <1>1 DEF CallsInTurn
<1> DEFINE Caller == \A s \in Submitters : /\ pc[s] \in {"readSupport", "addSupport"} =>
                                                supportSize = 0 /\ pool.maxThreadCount = pool.coreThreadCount + 1
                                           /\ pc[s] = "addSupport" => seen[s] = 0
           Thread == \/ supportSize = 0 /\ AliveSupports = {}
                     \/ /\ supportSize = 1 /\ AliveSupports = {slots[1]}
                        /\ pool.maxThreadCount = pool.coreThreadCount + 1
                        /\ state[slots[1]] \in {"shift", "shrink"} => at[slots[1]] = 1
<1>3. Caller /\ Thread
  BY DEF OneSupport
<1>4. ASSUME UNCHANGED <<supportSize, slots, state, at>> PROVE Thread'
  BY <1>0, <1>3, <1>4 DEF AliveSupports
<1>5. ASSUME NEW s \in Submitters, Execute(s) \/ CheckCore(s) \/ ReadCoreSize(s) \/ Offer(s) \/ OfferFails(s) \/ OfferAgain(s)
                                   \/ Reject(s)
      PROVE  OneSupport'
  <2>1. UNCHANGED <<supportSize, slots, state, at>>
    BY <1>5 DEF Execute, CheckCore, ReadCoreSize, Offer, OfferFails, OfferAgain, Reject, listVars, wrkVars
  <2>2. \A u \in Submitters : pc'[u] \in {"readSupport", "addSupport"} => pc'[u] = pc[u] /\ seen'[u] = seen[u]
    BY <1>0, <1>5 DEF Execute, CheckCore, ReadCoreSize, Offer, OfferFails, OfferAgain, Reject
  <2>3. Caller'
    BY <1>0, <1>3, <2>1, <2>2
  <2>4. QED
    BY <1>4, <2>1, <2>3 DEF OneSupport
<1>6. ASSUME NEW s \in Submitters, AddCore(s) PROVE OneSupport'
  <2>1. /\ pc' = [pc EXCEPT ![s] = "offer"] /\ seen' = [seen EXCEPT ![s] = 0] /\ UNCHANGED <<supportSize, slots, at>>
        /\ state' = [state EXCEPT ![Core(cmd[s])] = "taking"] /\ cmd[s] \in Tasks
    BY <1>6, States1 DEF AddCore
  <2>2. Caller'
    BY <1>0, <1>3, <2>1
  <2>3. \A w \in Workers : w[1] = "support" => state'[w] = state[w]
    BY <1>0, <2>1, WorkerFacts
  <2>4. AliveSupports' = AliveSupports
    BY <2>3 DEF AliveSupports
  <2>5. \A w \in AliveSupports : state'[w] = state[w]
    BY <2>3 DEF AliveSupports
  <2>6. Thread'
    BY <1>0, <1>3, <2>1, <2>4, <2>5
  <2>7. QED
    BY <2>2, <2>6 DEF OneSupport
<1>7. ASSUME NEW s \in Submitters, CheckMax(s) \/ ReadSupportSize(s) PROVE OneSupport'
  <2>1. UNCHANGED <<supportSize, slots, state, at>>
    BY <1>7 DEF CheckMax, ReadSupportSize, listVars, wrkVars
  <2>2. s = c /\ \A u \in Submitters : u # c => pc'[u] = "idle"
    BY <1>0, <1>2, <1>7 DEF CheckMax, ReadSupportSize
  <2>3. CASE CheckMax(s)
    <3>1. /\ seen[c] = pool.coreThreadCount /\ pc'[c] # "addSupport"
          /\ pc'[c] = "readSupport" => seen[c] + supportSize < pool.maxThreadCount
      BY <1>0, <1>2, <2>2, <2>3 DEF CheckMax
    <3>2. supportSize \in {0, 1}
      BY <1>3
    <3>3. pc'[c] = "readSupport" => supportSize = 0 /\ pool.maxThreadCount = pool.coreThreadCount + 1
      BY <1>0, <3>1, <3>2
    <3>4. Caller'
      BY <1>0, <2>1, <2>2, <3>1, <3>3
    <3>5. QED
      BY <1>4, <2>1, <3>4 DEF OneSupport
  <2>4. CASE ReadSupportSize(s)
    <3>1. pc[c] = "readSupport" /\ seen'[c] = supportSize
      BY <1>0, <2>2, <2>4 DEF ReadSupportSize
    <3>2. Caller'
      BY <1>0, <1>3, <2>1, <2>2, <3>1
    <3>3. QED
      BY <1>4, <2>1, <3>2 DEF OneSupport
  <2>5. QED
    BY <1>7, <2>3, <2>4
<1>8. ASSUME NEW s \in Submitters, AddSupport(s) PROVE OneSupport'
  <2>1. /\ s = c /\ pc[c] = "addSupport" /\ pc' = [pc EXCEPT ![c] = "idle"] /\ seen[c] = 0 /\ supportSize = 0
        /\ pool.maxThreadCount = pool.coreThreadCount + 1
    BY <1>2, <1>3, <1>8 DEF AddSupport
  <2>2. /\ supportSize' = 1 /\ slots' = [slots EXCEPT ![1] = Support(cmd[c])] /\ cmd[c] \in Tasks
        /\ state' = [state EXCEPT ![Support(cmd[c])] = "first"]
    BY <1>8, <2>1, States1 DEF AddSupport
  <2>3. Support(cmd[c]) \in Workers /\ Support(cmd[c])[1] = "support" /\ AliveSupports = {}
    BY <1>3, <2>1, <2>2, WorkerFacts
  <2>4. slots'[1] = Support(cmd[c]) /\ state'[Support(cmd[c])] = "first"
    BY <1>0, <2>2, <2>3
  <2>5. AliveSupports' = {Support(cmd[c])}
    BY <1>0, <2>2, <2>3, <2>4 DEF AliveSupports
  <2>6. Thread'
    BY <1>0, <2>1, <2>2, <2>4, <2>5
  <2>7. Caller'
    BY <1>0, <1>2, <2>1
  <2>8. QED
    BY <2>6, <2>7 DEF OneSupport
<1>9. ASSUME NEW s \in Submitters, AddSupportThrows(s) PROVE FALSE
  BY <1>3, <1>9 DEF AddSupportThrows
<1>10. ASSUME NEW w \in Workers, state[w] \notin {"new", "dead"}, \/ state' = [state EXCEPT ![w] = "running"]
                                                              \/ state' = [state EXCEPT ![w] = "taking"]
                                                              \/ state' = [state EXCEPT ![w] = "search"],
              UNCHANGED <<pc, seen, supportSize, slots, at>>
       PROVE  OneSupport'
  <2>1. AliveSupports' = AliveSupports
    BY <1>0, <1>10 DEF AliveSupports
  <2>2. \A v \in AliveSupports : state'[v] \in {"shift", "shrink"} => state[v] \in {"shift", "shrink"}
    BY <1>0, <1>10 DEF AliveSupports
  <2>3. Caller' /\ Thread'
    BY <1>0, <1>3, <1>10, <2>1, <2>2
  <2>4. QED
    BY <2>3 DEF OneSupport
<1>11. ASSUME NEW w \in Workers, state[w] \in {"search", "shift", "shrink"}
       PROVE  /\ w[1] = "support" /\ w \in AliveSupports /\ supportSize = 1 /\ AliveSupports = {w} /\ slots[1] = w
              /\ pool.maxThreadCount = pool.coreThreadCount + 1
              /\ state[w] \in {"shift", "shrink"} => at[w] = 1
              /\ \A s \in Submitters : pc[s] \notin {"readSupport", "addSupport"}
  BY <1>3, <1>11 DEF IInv, Working, AliveSupports
<1>12. ASSUME NEW w \in Workers, RunFirst(w) \/ Take(w) \/ Finish(w) \/ TimesOut(w) PROVE OneSupport'
  BY <1>10, <1>12 DEF RunFirst, Take, Finish, TimesOut, subVars, listVars
<1>13. ASSUME NEW w \in Workers, FinishThrows(w) PROVE FALSE
  BY <1>0, <1>13 DEF FinishThrows
<1>14. ASSUME NEW w \in Workers, SearchFails(w) PROVE FALSE
  BY <1>11, <1>14 DEF SearchFails, Places
<1>15. ASSUME NEW w \in Workers, Search(w) \/ Shift(w) PROVE OneSupport'
  <2>1. /\ supportSize = 1 /\ AliveSupports = {w} /\ slots[1] = w /\ pool.maxThreadCount = pool.coreThreadCount + 1
        /\ \A s \in Submitters : pc[s] \notin {"readSupport", "addSupport"}
        /\ state[w] \in {"search", "shift"} /\ w[1] = "support"
    BY <1>11, <1>15 DEF Search, Shift
  <2>2. at'[w] = 1 /\ slots'[1] = w /\ UNCHANGED <<pc, seen, supportSize>>
    <3>1. CASE Search(w)
      <4>1. PICK i \in Places(w) : at' = [at EXCEPT ![w] = i]
        BY <3>1 DEF Search
      <4>2. i = 1
        BY <2>1, <4>1 DEF Places
      <4>3. QED
        BY <1>0, <2>1, <3>1, <4>1, <4>2 DEF Search, subVars, listVars
    <3>2. CASE Shift(w)
      <4>1. at[w] = 1 /\ ~(1 < supportSize)
        BY <1>11, <2>1, <3>2 DEF Shift
      <4>2. slots' = [i \in 1 .. TaskCount |-> IF at[w] <= i /\ i < supportSize THEN slots[i + 1] ELSE slots[i]]
        BY <1>0, <3>2 DEF Shift
      <4>3. QED
        BY <1>0, <2>1, <3>2, <4>1, <4>2 DEF Shift, subVars
    <3>3. QED
      BY <1>15, <3>1, <3>2
  <2>3. AliveSupports' = AliveSupports
    BY <1>0, <1>15, <2>1 DEF AliveSupports, Search, Shift
  <2>4. Caller' /\ Thread'
    BY <1>0, <2>1, <2>2, <2>3
  <2>5. QED
    BY <2>4 DEF OneSupport
<1>16. ASSUME NEW w \in Workers, Shrink(w) PROVE OneSupport'
  <2>1. /\ AliveSupports = {w} /\ at[w] = 1 /\ \A s \in Submitters : pc[s] \notin {"readSupport", "addSupport"}
    BY <1>11, <1>16 DEF Shrink
  <2>2. supportSize' = 0 /\ UNCHANGED <<pc, seen>> /\ state' = [state EXCEPT ![w] = "dead"]
    BY <1>16, <2>1 DEF Shrink, subVars
  <2>3. AliveSupports' = {}
    BY <1>0, <2>1, <2>2 DEF AliveSupports
  <2>4. Caller' /\ Thread'
    BY <1>0, <2>1, <2>2, <2>3
  <2>5. QED
    BY <2>4 DEF OneSupport
<1>17. ASSUME UNCHANGED vars PROVE OneSupport'
  BY <1>0, <1>3, <1>17 DEF vars, subVars, listVars, wrkVars, OneSupport, AliveSupports
<1>18. QED
  BY <1>5, <1>6, <1>7, <1>8, <1>9, <1>12, <1>13, <1>14, <1>15, <1>16, <1>17 DEF Next, Submit, Work

\* Whether the pool is used by one caller only never changes, and then its lists stay in order.
LEMMA NextSerialInv == IInv /\ SerialInv /\ [Next]_vars => SerialInv'
<1> SUFFICES ASSUME IInv, SerialInv, [Next]_vars, Serial' PROVE CallsInTurn' /\ OneSupport'
  BY DEF SerialInv
<1>1. Serial
  BY CommandStep DEF Serial
<1>2. QED
  BY <1>1, CallsStep, SupportsStep DEF SerialInv

\* With one caller at a time there are at most maxThreadCount threads, and the list of
\* support threads holds those alive.
LEMMA SerialPromises == IInv /\ SerialInv => LimitWhenSerial
<1> SUFFICES ASSUME IInv, SerialInv, Serial PROVE WithinMaxThreads /\ EndedAreRemoved
  BY DEF LimitWhenSerial
<1>1. CallsInTurn /\ OneSupport
  BY DEF SerialInv
<1>2. pool.coreThreadCount \in Nat /\ pool.maxThreadCount \in Nat /\ handed \in Nat
  BY PoolFacts DEF IInv, TypeOK
<1>3. Cardinality(AliveSupports) = supportSize /\ IsFiniteSet(AliveSupports)
  <2>1. CASE supportSize = 0 /\ AliveSupports = {}
    BY <2>1, FS_EmptySet
  <2>2. CASE supportSize = 1 /\ AliveSupports = {slots[1]}
    BY <2>2, FS_Singleton
  <2>3. QED
    BY <1>1, <2>1, <2>2 DEF OneSupport
<1> DEFINE AliveCores == {w \in Workers : w[1] = "core" /\ state[w] \notin {"new", "dead"}}
           Command == [w \in AliveCores |-> w[2]]
<1>4. IsFiniteSet(CoresMade) /\ Cardinality(CoresMade) <= pool.coreThreadCount /\ Cardinality(CoresMade) \in Nat
  <2>1. CoresMade \in SUBSET Tasks
    BY DEF CoresMade
  <2>2. coreSize = Cardinality(CoresMade) /\ coreSize <= pool.coreThreadCount
    <3>1. Looked \in Int
      BY <1>2 DEF Looked
    <3>2. QED
      BY <1>1, <1>2, <3>1 DEF CallsInTurn
  <2>3. QED
    BY <2>1, <2>2, SetFacts, FS_CardinalityType
<1>5. IsFiniteSet(AliveCores) /\ Cardinality(AliveCores) <= Cardinality(CoresMade)
  <2>1. Command \in Injection(AliveCores, CoresMade)
    <3>1. \A w \in AliveCores : w[2] \in CoresMade
      BY WorkerFacts DEF CoresMade
    <3>2. \A v, w \in AliveCores : v[2] = w[2] => v = w
      BY WorkerFacts
    <3>3. QED
      BY <3>1, <3>2 DEF Injection, IsInjective
  <2>2. QED
    BY <1>4, <2>1, FS_Injection
<1>6. Alive = AliveCores \cup AliveSupports /\ AliveCores \cap AliveSupports = {}
  BY WorkerFacts DEF Alive, AliveSupports
<1>7. Cardinality(Alive) = Cardinality(AliveCores) + supportSize
  <2> HIDE DEF AliveCores
  <2>1. Cardinality(Alive) = Cardinality(AliveCores) + Cardinality(AliveSupports) - Cardinality(AliveCores \cap AliveSupports)
    BY <1>3, <1>5, <1>6, FS_Union
  <2>2. Cardinality(AliveCores \cap AliveSupports) = 0
    BY <1>6, FS_EmptySet
  <2>3. Cardinality(AliveCores) \in Nat /\ Cardinality(AliveSupports) \in Nat
    BY <1>3, <1>5, FS_CardinalityType
  <2>4. QED
    BY <1>3, <2>1, <2>2, <2>3
<1>8. WithinMaxThreads
  <2>1. pool.coreThreadCount + supportSize <= pool.maxThreadCount
    BY <1>1, <1>2 DEF Serial, OneSupport
  <2>2. Cardinality(AliveCores) \in Nat /\ supportSize \in Int
    BY <1>5, FS_CardinalityType, States1
  <2>3. QED
    BY <1>2, <1>4, <1>5, <1>7, <2>1, <2>2 DEF WithinMaxThreads
<1>9. EndedAreRemoved
  <2>1. {w \in Alive : w[1] = "support"} = AliveSupports
    BY DEF Alive, AliveSupports
  <2>2. QED
    BY <1>3, <2>1 DEF EndedAreRemoved
<1>10. QED
  BY <1>8, <1>9

\* The invariant holds in every state of the pool.
LEMMA PoolInvariant == Spec => [](IInv /\ SerialInv)
<1>1. Init => IInv /\ SerialInv
  BY InitIInv, InitSerialInv
<1>2. (IInv /\ SerialInv) /\ [Next]_vars => (IInv /\ SerialInv)'
  BY NextIInv, NextSerialInv
<1>3. QED
  BY <1>1, <1>2, PTL DEF Spec

\* For every pool, callers and tasks: no task is ever in two places; and with one caller, room
\* for one support thread and a queue with room for the core threads' tasks, no more than
\* maxThreadCount threads exist and each support thread that ended has left its list.
THEOREM PoolStaysInOrder == Spec => []PoolInOrder
<1>1. IInv /\ SerialInv => PoolInOrder
  BY OnePlace, SerialPromises DEF IInv, PoolInOrder
<1>2. QED
  BY <1>1, PoolInvariant, PTL

-----------------------------------------------------------------------------
(* The calls of execute(), and the tasks as TaskPool sees them *)

\* A call of execute() that returns has put its task on the queue, given it to a
\* support thread or refused it: that is the whole of what it may end with.
THEOREM CallsPlaceTheirTask == Spec => NothingSwallowed
<1> USE DEF Goto, Return
<1> DEFINE Placed(s) == cmd[s] \in Range(taskQueue') \cup {task'[w] : w \in Workers} \cup rejected'
<1>1. ASSUME IInv, [Next]_vars, NEW s \in Submitters, pc[s] # "idle", pc'[s] = "idle" PROVE Placed(s)
  <2>0. /\ pc \in [Submitters -> Positions] /\ cmd[s] \in Tasks /\ taskQueue \in Seq(Tasks)
        /\ task \in [Workers -> Tasks \cup {None}]
    BY <1>1, States1
  <2>1. Offer(s) \/ OfferAgain(s) \/ AddSupport(s) \/ AddSupportThrows(s) \/ Reject(s)
    BY <1>1, <2>0 DEF Next, Submit, Work, vars, subVars, Execute, CheckCore, ReadCoreSize, AddCore, Offer, OfferFails,
       CheckMax, ReadSupportSize, AddSupport, AddSupportThrows, OfferAgain, Reject, RunFirst, Take, Finish, FinishThrows,
       TimesOut, Search, SearchFails, Shift, Shrink
  <2>2. CASE Offer(s) \/ OfferAgain(s)
    <3>1. taskQueue' = Append(taskQueue, cmd[s])
      BY <2>2 DEF Offer, OfferAgain, Offered
    <3>2. Len(taskQueue) + 1 \in DOMAIN taskQueue' /\ taskQueue'[Len(taskQueue) + 1] = cmd[s]
      BY <2>0, <3>1
    <3>3. QED
      BY <3>2 DEF Range
  <2>3. CASE AddSupport(s)
    <3>1. Support(cmd[s]) \in Workers /\ task'[Support(cmd[s])] = cmd[s]
      BY <2>0, <2>3, WorkerFacts DEF AddSupport
    <3>2. QED
      BY <3>1
  <2>4. CASE AddSupportThrows(s) \/ Reject(s)
    BY <2>4 DEF AddSupportThrows, Reject
  <2>5. QED
    BY <2>1, <2>2, <2>3, <2>4
<1>2. IInv /\ [Next]_vars => [\A s \in Submitters : pc[s] # "idle" /\ pc'[s] = "idle" => Placed(s)]_vars
  BY <1>1
<1>3. QED
  BY <1>2, PoolInvariant, PTL DEF Spec, NothingSwallowed

\* What TaskPool sees of a task, by the places it can be in.
Classified ==
  /\ status = [t \in Tasks |-> status[t]]
  /\ \A t \in Tasks :
       status[t] = IF t \in finished \/ \E w \in Workers : task[w] = t /\ state[w] = "running" THEN "started"
                   ELSE IF t \in rejected THEN "rejected"
                   ELSE IF t \in Range(taskQueue) \/ \E w \in Workers : task[w] = t THEN "accepted"
                   ELSE "new"

\* That is its status.
LEMMA StatusOf == Classified
  BY DEF Classified, status

\* A task in its caller's hands is new.
LEMMA NewInHand == ASSUME IInv, NEW s \in Submitters, pc[s] # "idle", cmd' = [cmd EXCEPT ![s] = None], handed' = handed
                   PROVE  cmd[s] \in Tasks /\ status[cmd[s]] = "new" /\ cmd[s] # None
<1>1. cmd[s] \in Tasks /\ Unplaced(cmd[s])
  BY Returned
<1>0. taskQueue \in Seq(Tasks)
  BY States1
<1>2. cmd[s] \notin Range(taskQueue)
  BY <1>0, <1>1 DEF Unplaced, Range
<1>3. QED
  BY <1>1, <1>2, StatusOf, WorkerFacts DEF Unplaced, Classified

\* Every step of the pool is a step of TaskPool, or changes no task's status.
LEMMA StepsOfTasks == IInv /\ [Next]_vars => [Pool!Next]_status
<1> SUFFICES ASSUME IInv, [Next]_vars PROVE Pool!Next \/ status' = status
  OBVIOUS
<1> USE DEF Goto, Return, Move
<1>0. /\ task \in [Workers -> Tasks \cup {None}] /\ state \in [Workers -> States] /\ Once /\ Working
      /\ taskQueue \in Seq(Tasks) /\ \A t \in Tasks : t # None
      /\ \A s \in Submitters : pc[s] # "idle" => cmd[s] \in Tasks
  BY States1, WorkerFacts DEF IInv
<1>1. Classified /\ Classified'
  BY StatusOf, PTL
<1>2. ASSUME UNCHANGED <<taskQueue, task, finished, rejected>>,
             \A w \in Workers : task[w] # None => (state'[w] = "running" <=> state[w] = "running")
      PROVE  status' = status
  <2>1. \A t \in Tasks : (\E w \in Workers : task'[w] = t /\ state'[w] = "running") <=> \E w \in Workers : task[w] = t /\ state[w] = "running"
    BY <1>0, <1>2
  <2>2. \A t \in Tasks : status'[t] = status[t]
    BY <1>1, <1>2, <2>1 DEF Classified
  <2>3. QED
    BY <1>1, <2>2 DEF Classified
<1>3. ASSUME NEW t \in Tasks, NEW x, status'[t] = x, \A u \in Tasks : u # t => status'[u] = status[u]
      PROVE  status' = [status EXCEPT ![t] = x]
  BY <1>1, <1>3 DEF Classified
<1>4. ASSUME NEW s \in Submitters, Offer(s) \/ OfferAgain(s) PROVE Pool!Accept(cmd[s])
  <2>1. /\ pc[s] # "idle" /\ cmd' = [cmd EXCEPT ![s] = None] /\ UNCHANGED <<handed, task, state, finished, rejected>>
        /\ taskQueue' = Append(taskQueue, cmd[s])
    BY <1>4 DEF Offer, OfferAgain, Offered, wrkVars
  <2>2. cmd[s] \in Tasks /\ status[cmd[s]] = "new" /\ Unplaced(cmd[s])
    BY <2>1, NewInHand, Returned
  <2>3. \A t \in Tasks : t \in Range(taskQueue') <=> t \in Range(taskQueue) \/ t = cmd[s]
    <3>1. /\ DOMAIN taskQueue = 1 .. Len(taskQueue) /\ DOMAIN taskQueue' = 1 .. Len(taskQueue) + 1
          /\ \A i \in 1 .. Len(taskQueue) + 1 : taskQueue'[i] = IF i <= Len(taskQueue) THEN taskQueue[i] ELSE cmd[s]
          /\ Len(taskQueue) \in Nat
      BY <1>0, <2>1, <2>2
    <3>2. \A t \in Tasks : t \in Range(taskQueue') => t \in Range(taskQueue) \/ t = cmd[s]
      BY <3>1 DEF Range
    <3>3. \A t \in Tasks : t \in Range(taskQueue) => t \in Range(taskQueue')
      BY <3>1 DEF Range
    <3>4. cmd[s] \in Range(taskQueue')
      BY <3>1 DEF Range
    <3>5. QED
      BY <3>2, <3>3, <3>4
  <2>4. status'[cmd[s]] = "accepted" /\ \A t \in Tasks : t # cmd[s] => status'[t] = status[t]
    BY <1>1, <2>1, <2>2, <2>3 DEF Classified, Unplaced
  <2>5. status' = [status EXCEPT ![cmd[s]] = "accepted"]
    BY <1>3, <2>2, <2>4
  <2>6. QED
    BY <2>2, <2>5 DEF Pool!Accept, Pool!Becomes
<1>5. ASSUME NEW s \in Submitters, AddSupport(s) PROVE Pool!Accept(cmd[s])
  <2>1. /\ pc[s] # "idle" /\ cmd' = [cmd EXCEPT ![s] = None] /\ UNCHANGED <<handed, taskQueue, finished, rejected>>
        /\ task' = [task EXCEPT ![Support(cmd[s])] = cmd[s]] /\ state' = [state EXCEPT ![Support(cmd[s])] = "first"]
    BY <1>5 DEF AddSupport
  <2>2. cmd[s] \in Tasks /\ status[cmd[s]] = "new" /\ Unplaced(cmd[s]) /\ Unspent(cmd[s])
    BY <2>1, NewInHand, Returned
  <2>3. Support(cmd[s]) \in Workers /\ state[Support(cmd[s])] = "new"
    BY <2>2, WorkerFacts DEF IInv, Commands
  <2>4. task[Support(cmd[s])] = None
    BY <1>0, <2>3 DEF Working
  <2>5. \A w \in Workers : /\ task'[w] = IF w = Support(cmd[s]) THEN cmd[s] ELSE task[w]
                           /\ state'[w] = IF w = Support(cmd[s]) THEN "first" ELSE state[w]
    BY <1>0, <2>1
  <2>6. \A t \in Tasks : (\E w \in Workers : task'[w] = t) <=> t = cmd[s] \/ \E w \in Workers : task[w] = t
    BY <1>0, <2>3, <2>4, <2>5
  <2>7. \A t \in Tasks : (\E w \in Workers : task'[w] = t /\ state'[w] = "running")
                           <=> \E w \in Workers : task[w] = t /\ state[w] = "running"
    BY <2>3, <2>5
  <2>8. status'[cmd[s]] = "accepted" /\ \A t \in Tasks : t # cmd[s] => status'[t] = status[t]
    BY <1>1, <2>1, <2>2, <2>6, <2>7 DEF Classified, Unplaced
  <2>9. status' = [status EXCEPT ![cmd[s]] = "accepted"]
    BY <1>3, <2>2, <2>8
  <2>10. QED
    BY <2>2, <2>9 DEF Pool!Accept, Pool!Becomes
<1>6. ASSUME NEW s \in Submitters, AddSupportThrows(s) \/ Reject(s) PROVE Pool!Reject(cmd[s])
  <2>1. /\ pc[s] # "idle" /\ cmd' = [cmd EXCEPT ![s] = None] /\ UNCHANGED <<handed, taskQueue, task, state, finished>>
        /\ rejected' = rejected \cup {cmd[s]}
    BY <1>6 DEF AddSupportThrows, Reject, wrkVars
  <2>2. cmd[s] \in Tasks /\ status[cmd[s]] = "new" /\ Unplaced(cmd[s])
    BY <2>1, NewInHand, Returned
  <2>3. status'[cmd[s]] = "rejected" /\ \A t \in Tasks : t # cmd[s] => status'[t] = status[t]
    BY <1>1, <2>1, <2>2 DEF Classified, Unplaced
  <2>4. status' = [status EXCEPT ![cmd[s]] = "rejected"]
    BY <1>3, <2>2, <2>3
  <2>5. QED
    BY <2>2, <2>4 DEF Pool!Reject, Pool!Becomes
<1>7. ASSUME NEW w \in Workers, RunFirst(w) PROVE task[w] \in Tasks /\ Pool!Start(task[w])
  <2>1. /\ state[w] = "first" /\ state' = [state EXCEPT ![w] = "running"] /\ UNCHANGED <<taskQueue, task, finished, rejected>>
    BY <1>7 DEF RunFirst
  <2>2. /\ task[w] \in Tasks /\ task[w] # None /\ task[w] \notin finished /\ task[w] \notin rejected
        /\ \A v \in Workers : task[v] = task[w] => v = w
    BY <1>0, <2>1 DEF Working, Once
  <2>3. status[task[w]] = "accepted" /\ status'[task[w]] = "started" /\ \A t \in Tasks : t # task[w] => status'[t] = status[t]
    BY <1>0, <1>1, <2>1, <2>2 DEF Classified
  <2>4. status' = [status EXCEPT ![task[w]] = "started"]
    BY <1>3, <2>2, <2>3
  <2>5. QED
    BY <2>2, <2>3, <2>4 DEF Pool!Start, Pool!Becomes
<1>8. ASSUME NEW w \in Workers, Take(w) PROVE Head(taskQueue) \in Tasks /\ Pool!Start(Head(taskQueue))
  <2> DEFINE first == Head(taskQueue)
  <2>1. /\ state[w] = "taking" /\ state' = [state EXCEPT ![w] = "running"] /\ UNCHANGED <<finished, rejected>>
        /\ task' = [task EXCEPT ![w] = first] /\ taskQueue' = Tail(taskQueue) /\ taskQueue # <<>> /\ task[w] = None
    BY <1>0, <1>8 DEF Take, Working
  <2>2. /\ DOMAIN taskQueue = 1 .. Len(taskQueue) /\ DOMAIN taskQueue' = 1 .. Len(taskQueue) - 1 /\ Len(taskQueue) \in Nat \ {0}
        /\ \A i \in 1 .. Len(taskQueue) - 1 : taskQueue'[i] = taskQueue[i + 1]
        /\ first = taskQueue[1] /\ first \in Tasks
    BY <1>0, <2>1
  <2>3. first \notin finished /\ first \notin rejected /\ (\A v \in Workers : task[v] # first) /\ first \in Range(taskQueue)
    BY <1>0, <2>2 DEF Once, Range
  <2>4. \A t \in Tasks : t # first => (t \in Range(taskQueue') <=> t \in Range(taskQueue))
    <3>1. \A t \in Tasks : t \in Range(taskQueue') => t \in Range(taskQueue)
      BY <2>2 DEF Range
    <3>2. ASSUME NEW t \in Tasks, t # first, t \in Range(taskQueue) PROVE t \in Range(taskQueue')
      <4>1. PICK i \in 1 .. Len(taskQueue) : taskQueue[i] = t
        BY <2>2, <3>2 DEF Range
      <4>2. i - 1 \in 1 .. Len(taskQueue) - 1 /\ (i - 1) + 1 = i
        BY <2>2, <3>2, <4>1
      <4>3. taskQueue'[i - 1] = t
        BY <2>2, <4>1, <4>2
      <4>4. QED
        BY <2>2, <4>2, <4>3 DEF Range
    <3>3. QED
      BY <3>1, <3>2
  <2>5. \A v \in Workers : /\ task'[v] = IF v = w THEN first ELSE task[v]
                           /\ state'[v] = IF v = w THEN "running" ELSE state[v]
    BY <1>0, <2>1
  <2>6. \A t \in Tasks : t # first => /\ (\E v \in Workers : task'[v] = t) <=> \E v \in Workers : task[v] = t
                                      /\ (\E v \in Workers : task'[v] = t /\ state'[v] = "running")
                                           <=> \E v \in Workers : task[v] = t /\ state[v] = "running"
    BY <1>0, <2>1, <2>5
  <2> HIDE DEF first
  <2>7. status[first] = "accepted" /\ status'[first] = "started"
    BY <1>1, <2>1, <2>2, <2>3, <2>5 DEF Classified
  <2>8. \A t \in Tasks : t # first => status'[t] = status[t]
    BY <1>1, <2>1, <2>4, <2>6 DEF Classified
  <2>9. status' = [status EXCEPT ![first] = "started"]
    BY <1>3, <2>2, <2>7, <2>8
  <2>10. QED
    BY <2>2, <2>7, <2>9 DEF Pool!Start, Pool!Becomes, first
<1>9. ASSUME NEW w \in Workers, Finish(w) \/ FinishThrows(w) PROVE status' = status
  <2>1. /\ state[w] = "running" /\ state' \in {[state EXCEPT ![w] = "taking"], [state EXCEPT ![w] = "dead"]}
        /\ finished' = finished \cup {task[w]} /\ task' = [task EXCEPT ![w] = None] /\ UNCHANGED <<taskQueue, rejected>>
    BY <1>9 DEF Finish, FinishThrows
  <2>2. task[w] \in Tasks /\ task[w] # None /\ \A v \in Workers : task[v] = task[w] => v = w
    BY <1>0, <2>1 DEF Working, Once
  <2>3. \A v \in Workers : v # w => task'[v] = task[v] /\ state'[v] = state[v]
    BY <1>0, <2>1
  <2>4. task'[w] = None
    BY <1>0, <2>1
  <2>5. \A t \in Tasks : t # task[w] => /\ (\E v \in Workers : task'[v] = t) <=> \E v \in Workers : task[v] = t
                                        /\ (\E v \in Workers : task'[v] = t /\ state'[v] = "running")
                                             <=> \E v \in Workers : task[v] = t /\ state[v] = "running"
    BY <1>0, <2>3, <2>4
  <2>6. status[task[w]] = "started" /\ status'[task[w]] = "started"
    BY <1>1, <2>1, <2>2 DEF Classified
  <2>7. \A t \in Tasks : t # task[w] => status'[t] = status[t]
    BY <1>1, <2>1, <2>5 DEF Classified
  <2>8. QED
    BY <1>1, <2>2, <2>6, <2>7 DEF Classified
<1>10. ASSUME NEW s \in Submitters, \/ Execute(s) \/ CheckCore(s) \/ ReadCoreSize(s) \/ OfferFails(s) \/ CheckMax(s)
                                    \/ ReadSupportSize(s)
       PROVE  status' = status
  BY <1>2, <1>10 DEF Execute, CheckCore, ReadCoreSize, OfferFails, CheckMax, ReadSupportSize, wrkVars
<1>11. ASSUME NEW s \in Submitters, AddCore(s) PROVE status' = status
  <2>1. /\ UNCHANGED <<taskQueue, task, finished, rejected>> /\ state' = [state EXCEPT ![Core(cmd[s])] = "taking"]
        /\ state[Core(cmd[s])] = "new" /\ Core(cmd[s]) \in Workers
    BY <1>0, <1>11, WorkerFacts DEF AddCore, IInv, Commands, BeforeCore
  <2>2. QED
    BY <1>0, <1>2, <2>1 DEF Working
<1>12. ASSUME NEW w \in Workers, TimesOut(w) \/ Search(w) \/ SearchFails(w) \/ Shift(w) \/ Shrink(w) PROVE status' = status
  BY <1>0, <1>2, <1>12 DEF TimesOut, Search, SearchFails, Shift, Shrink
<1>13. ASSUME UNCHANGED vars PROVE status' = status
  BY <1>2, <1>13 DEF vars, wrkVars
<1>14. ASSUME NEW s \in Submitters, Execute(s) \/ Submit(s) PROVE Pool!Next \/ status' = status
  <2>1. CASE Offer(s) \/ OfferAgain(s) \/ AddSupport(s) \/ AddSupportThrows(s) \/ Reject(s)
    <3>1. cmd[s] \in Tasks
      BY <1>0, <2>1 DEF Offer, OfferAgain, AddSupport, AddSupportThrows, Reject
    <3>2. QED
      BY <1>4, <1>5, <1>6, <2>1, <3>1 DEF Pool!Next
  <2>2. CASE ~(Offer(s) \/ OfferAgain(s) \/ AddSupport(s) \/ AddSupportThrows(s) \/ Reject(s))
    BY <1>10, <1>11, <1>14, <2>2 DEF Submit
  <2>3. QED
    BY <2>1, <2>2
<1>15. ASSUME NEW w \in Workers, Work(w) PROVE Pool!Next \/ status' = status
  BY <1>7, <1>8, <1>9, <1>12, <1>15 DEF Work, Pool!Next
<1>16. QED
  BY <1>13, <1>14, <1>15 DEF Next

\* Every behaviour of the executor is one of TaskPool: a task is started at most once,
\* one that was refused never is, and none is taken back.
THEOREM PoolImplementsTaskPool == Spec => ImplementsTaskPool
<1>1. Init => Pool!Init
  <2> SUFFICES ASSUME Init PROVE status = [t \in Tasks |-> "new"]
    BY DEF Pool!Init
  <2>1. Range(taskQueue) = {}
    BY DEF Init, Range
  <2>2. QED
    BY <2>1, WorkerFacts DEF Init, status
<1>2. IInv /\ [Next]_vars => [Pool!Next]_status
  BY StepsOfTasks
<1>3. QED
  BY <1>1, <1>2, PoolInvariant, PTL DEF Spec, ImplementsTaskPool, Pool!Spec
=============================================================================
