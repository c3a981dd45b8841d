# A verification project for JavaLearning

JavaLearning is a collection of small Java programs: hand-written versions of concurrency and
framework building blocks (`src/skill-stacks/.../handTearing`), RPC clients and servers over Netty
(`src/netty-demo`, `src/skill-stacks/.../nettyT`), multi-thread exercises, a socket chat, a Zookeeper
property refresher, a Spring REST back end, data-structure exercises, and a front end of Vue pages
(`src/WebBase/FrontBase`) with the two libraries it brings as source, `vue.js` (2.7.16) and
`axios.js` (1.7.2). The parts do not form one
program: each is a component with its own state and its own users, and they are modelled one by one.
There are no design documents; what a component promises is read from its code, its comments
(in Chinese), and the small `main` programs that exercise it.

The two libraries were written elsewhere, but they are files of the repository, the pages do nothing
without them, and what is hard about the front end, its microtasks, its caches, its cancellations,
happens in them. They are modelled from their source like the rest.

Paths below leave out `src/`; `FB` is `WebBase/FrontBase`, `HT` is `skill-stacks/src/main/java/handTearing`, `ND` is
`netty-demo/src/main/java/com/learning/netty`, `NT` is `skill-stacks/src/main/java/nettyT`.

## 1. Inventory

| Component | State | Operations | What is hard | What makes it correct |
|---|---|---|---|---|
| `HT/lock` MyLock | isLocked, holdThread, linked queue of nodes, park permits | lock, unlock | every shared access interleaves; plain fields beside atomics; park/unpark | one owner; queue order; no lost wakeup; only the holder releases |
| `HT/executor` MyExecutor | blocking queue, coreThreads, supportThreads | execute, core loop, support loop | unsynchronized submit against workers; poll timeouts; tasks that throw | nothing accepted is lost or run twice; limits on threads; reject only when full |
| `HT/scheduler` MyScheduler | priority queue of tasks, trigger thread, clock | schedule, trigger loop | peek/poll race, park/unpark, time | never early; period kept; no lost wakeup |
| `HT/rateLimited` TokenBucket, LeakyBucket | tokens or water, last time | tryAcquire | refill arithmetic, clock going back | grants bounded by capacity + rate x time; the two are equivalent |
| `HT/snowflake` SnowFlake | lastStamp, sequence | getNextSnowflakeId | sequence wrap, clock going back, two threads | unique and increasing ids |
| `HT/hashMap` three maps | bucket array, node chains, size | put, get, remove, resize | chain surgery, migration, negative hash codes | each is a finite map |
| `HT/spring` ApplicationContext | bean definitions, ioc, loadingIoc, processors | createBean, autowire, initialise | circular references, processor order, failures | singletons fully built and shared |
| `ND` RPC, `NT` RPC | channel, promise map, sequence ids | proxy call, response handlers | reply racing the registration, lost replies, lazily created channel | each call gets its own answer |
| `ND/basic/multi` ServerChannel | worker register queue, selector | register, worker loop | coalesced wakeups | every accepted channel is registered |
| `HT`-independent `multiThread` demos | counters, flags, queues | two or more threads | check-then-act, notify order | alternation, bounded counter |
| `Basic-app` socket chat | list of sockets | accept, read, forward to all | unsynchronized list, dead peers | a message reaches every other live peer |
| `curator-learn` RefreshManager | Zookeeper nodes, bean fields | start-up scan, watcher | change between node creation and map entry | a bean field follows its node |
| `FB` pages: VueDemo, AxiosDemo, the views of `vue-project` | data of each page | clicks, typing, answers of a server | answers that come late or in another order | a page shows its data |
| `vue.js` reactive data and watchers | objects with getters, deps, watchers and what they read | get, set, delete, array methods, evaluate | subscriptions change with every evaluation; destroyed parts | a watcher listens to what it read last, and to nothing else |
| `vue.js` scheduler | queue of watchers, callbacks of nextTick | queue, flush | watchers that queue watchers during the flush; loops | once a flush, parents first |
| `vue.js` compiler | the tree under construction | open, close, text; optimise; generate | slots, branches and loops that qualify each other; what is static | the code means what the template says |
| `vue.js` patch and DOM modules | vnodes, document | create, patch, reorder, remove | one vnode in several places; keys; components inside | the document is what was rendered; keyed elements move with their item |
| `vue.js` instances | options, props, slots, events, hooks | create, mount, update, destroy | props and slots of an older render; errors | no trace of a destroyed instance |
| `vue.js` async components, keep-alive, transition | factories, cache, callbacks of enter and leave | resolve, reject, time out; keep, prune; enter, leave | late, cancelled, or for an owner that is gone | what is shown is the view named; all that begins ends |
| `axios.js` | interceptors, tokens, signals, listeners, a promise for each request | request, cancel, abort, eject, answers, timeouts | everything meets everything else on its way | cancelled stays cancelled; every request ends; what goes out is what was asked |
| `spring-demo`, `shardingJDBC`, `rocketMQ`, ... | databases and brokers | CRUD, producers | external services | mostly outside this code |

The list of all components, the ones that are not modelled too, is in `PROJECT.json` with the reason
for each; the hazards, each at its line, are there too.

The components do not call each other: MyExecutor and MyScheduler, which meet in `SchedulerTest`, are
the exception on the Java side, and there the executor is a thread pool of the JDK with an unbounded
queue. So composition happens inside components: callers and workers around a pool, two limiters under one
clock, a client, its event loop and a server around two wires, three maps under the same calls. On the
front end the parts of `vue.js` call each other in every direction (a setter queues a watcher, whose
render patches, which creates instances, which observe data), and `VueApp` composes them all with the
browser and the user. A page calls axios and puts the answer into its data: there the two meet only
in the answer, so the pages take it as a task that may come at any time after it was asked for.

## 2. The modules

A component has a module; an abstract specification, where there is a promise shorter than the code,
is a module of its own; `MC<component>` holds an instance for TLC that a cfg alone cannot give (MyExecutor's pools stand at the
end of its module); `<component>Proofs` the theorems.
Variables have the names of the fields they stand for. A variable the comment calls *auxiliary* is
not in the code: it records history for a property, and no guard reads it.

| Component | Module | Abstract specification | Run | Proofs |
|---|---|---|---|---|
| MyLock | `MyLock` | `FifoMutex` | `lock`, `lock_careless` | `MyLockProofs` |
| MyExecutor | `MyExecutor` | `TaskPool` | `exec` | `MyExecutorProofs` |
| MyScheduler | `MyScheduler` | | `sched` | `MySchedulerProofs` |
| TokenBucket, LeakyBucket | `TokenBucket`, `LeakyBucket`, composed in `RateLimiters` | each other | `clocks` | `ClockProofs` |
| SnowFlake | `SnowFlake` | | `clocks` | `ClockProofs` |
| the two RPC clients and their server | `RpcClient` | `RemoteCalls` | `rpc` | `RpcClientProofs` |
| the three hash maps | `MyArrayHashMap`, `MyFixedHashMap`, `MyDynamicHashMap`, composed in `HashMaps` | `FiniteMap` | `maps` | `HashMapsProofs` |
| ApplicationContext | `ApplicationContext` | | `context` | `ApplicationContextProofs` |
| vue.js and the pages | `VueWatcher`, `VueScheduler`, `VueOptions`, `VueInstance`, `VueRender`, `VueDom`, `VuePatch`, `VueTransition`, joined in `VueRuntime`; `VueCompiler`; `FrontPages`; composed in `VueApp` | `VueMeaning` | `vue_templates`, `vue_update`, `vue_view` | |
| axios.js | `AxiosConfig`, `AxiosOptions`, `Axios` | | `axios` | `AxiosProofs` |

**Memory model.** Threads interleave at single accesses of shared variables. Plain fields are read
and written in program order. In MyLock every plain store (`next`, `holdThread`) is followed by an
atomic operation of the same thread before another thread relies on it, so the interleavings are the
outcomes; in MyExecutor the racing `ArrayList` operations are split into their reads and writes. `remove` reads
the size once, as later JDKs do; JDK 8 reads it again before it writes it, and a change between the two is not modelled.

**MyLock.** `pc` holds where each thread stands in `lock()` and `unlock()`; one label per shared
access: `ReadTail`, `CasTail` and `Link` are the first loop (the swing of `tail` and the link of the
node), `ReadHead`, `ReadNext`, `CasLock` and `Park` the second, `SetHold`, `Cut` and `SetHead` what
the new holder does. `park` consumes a permit or wakes for no reason; `unpark` leaves a permit. The
queue node of the k-th call of a thread is the pair of thread and k, so nodes are never reused.
`Strangers` call `unlock()` although they never lock; `Careless` threads call it once more when they are outside. The run `lock`
has none of these, as the code does not withstand them; the run `lock_careless` has one.
`FifoMutex` is the promise: an owner, a queue of waiting threads in the order they swung `tail`, grants
to the first of it, and barging only when the lock is unfair.

**MyExecutor.** `pc` is per submitter, `state` per worker. Each test of a size, each offer and each
half of a list update is a step. `pool` is chosen in `Init` among the records of `Pools`: one run
covers several sizes and kinds of clients. A worker is named by its class and by the command whose call made it: a call makes
at most one core thread or one support thread. `TaskPool` is the promise, seen through `status`, what has become of each task: a task handed over becomes
accepted, then started once, or is rejected.

**MyScheduler.** The trigger's loop is split at each access of the queue and each read of the clock.
`permit` is the trigger's park permit. The clock is `now`, which advances and does not go back.

**The limiters.** `double` amounts are whole units (a unit is the finest fraction), so no rounding is
modelled. `tryAcquire` is `synchronized`, hence one step; a refused call still updates the level and
the time, as the code does. `RateLimiters` gives both the same calls and a clock that jumps forward
and back. `tokenSum`, `leakySum` and `forward` belong to an observer that may start to count at any
moment (`OpenWindow`).

**SnowFlake.** One module for several generators, each with its own clock and one caller (the method
is not synchronized, and `main` calls it from one thread). The wait for the next millisecond is a
state (`spinning`), in which the clock may be set back. A field of b bits is given by its size 2^b.
`Compose` joins the fields and `Signed` wraps the sum to the width of a `long`, so timestamps that
outgrow their bits are in the model. Room and machine numbers are chosen in `Init` for each generator, no pair twice, and
never change; they fit their bits (the constructor does not check that). `MCClocks` has TLC check the limiters and the generators,
which share nothing, in one run: a behaviour is of one of them.

**RPC.** One module for `netty-demo` and `nettyT`, which differ in the order of sending and registering
(`Ready`, `Sent`) and in what ends a wait; `client` is chosen in `Init`. A call goes through the
double-checked `getChannel` and its lock, takes an id, sends and registers in the client's order, and
waits for its promise. The server takes requests in order and answers; the client's event loop takes
answers in order and completes the promise it removes. A service returns, throws with or without
a message, or is not there. A connection may fail to open and may break. An exception without a message counts as a value in
nettyT, as the code tells the cases apart by that field. Messages arrive whole: framing is not in the
model. `RemoteCalls` is the promise: each call is executed at most once and ends with its own
outcome.

**The maps.** A call is one step, and so is every step of `expandIfNeeded`: `TakeSlot` takes the next head,
`Move` relinks one node, `Replace` swaps the arrays; calls wait until it is done. The nodes of the dynamic map are
named by their keys, which are unique in it. What a loop finds along the links is `Nodes`, the least set that has its
start and is closed under `next`: no chain is walked. `Table` reads the map's content from wherever its nodes hang,
and `FiniteMap` says what `put`, `get`, `remove` answer. The list and the chains of the other two are sequences.
Hash codes are any integers; `getIndex` is modelled with Java's `%`, negative results included.

**ApplicationContext.** The constructor is sequential and recursive: `stack` holds the calls of
`doCreateBean` under way with the field each is at. `Init` chooses the autowired fields of each bean among `FieldLists`
(in the run: all lists of different types), which beans
are processors and which of these return a different object, so the run covers all graphs. An
object is its bean and the processors that replaced it (`Raw`, `Finished`). The type of a field has
one bean. `Reaches` says that one bean uses another, directly or not.

**Vue: one turn is one step.** JavaScript runs to the end of what it was called for, so the runtime is
written as operators that take its whole state `s` and return the next one, and an action of `VueApp` is
what the browser runs between two points where something else can come in: a listener of an event, a
microtask, a frame, a timer, the end of a CSS transition, an answer. `Turn` is the constant operator
through which `VueApp` calls the runtime; the instances give it `VueRuntime.RunTurn`. The modules of the
runtime are mutually recursive. What one needs from those that come after it is a constant operator of
its own (`QueueWatcher`, `Builtin`, ...), and `VueRuntime` ties the knot with `INSTANCE ... WITH`. `EagerFolds` has the folds these operators
are written with: TLC evaluates the community modules' folds lazily, and a chain of whole computations
then nests too deep. Objects, vnodes, DOM nodes, functions and transitions are mutable and shared in
JavaScript, so each kind has a heap in `s` and is referred to by its index. Vue numbers its deps and
watchers; here a dep is the pair of object and property, and a watcher its index in `s.watcher`.

**Vue: templates and pages.** A template is the sequence of tokens the HTML scanner finds, and
an expression or a statement of the application is a tuple (`VueWatcher` evaluates it, tracking what
it reads). `VueCompiler` builds the element tree from the tokens, optimises it and
generates code, as records whose `op` is Vue's helper; `VueRender` runs it. `FrontPages` has the pages of the repository with
their options; of element-ui it takes the parts that keep or pass on state. `VueMeaning` says
what a template *means*, by recursion over its tree and the data of the moment, without compiler,
vnode, cache or patch: it is the reference the document is compared with. It is not taken from the
code; where HTML and Vue's guide leave a choice (an absent attribute, white space between blocks)
it follows what Vue's own runtime helpers do with a single value.

**Vue: the user.** `Elements` is what a user can reach: in the document and not inside something hidden.
An event passes the elements of its path listener by listener (`Deliver`), with the microtasks in between, and an
element's listeners are those it has when the event arrives.

**axios.** A request has the place its chain of reactions has reached (`stage`), the interceptors that are still to run
(`before`, `after`), what its promise was last settled with (`val`), and two auxiliary parts: a log of what ran
and the interceptors registered when it was asked for (`due`). `Axios` has the life of requests: the chain with synchronous and
asynchronous interceptors, CancelToken with its promise and its list of listeners, signals, the two adapters with everything
the network can do to them, the throttled progress of downloads (`progress`) and a clock. A call that runs synchronous
interceptors takes a step for each, and nothing comes between them (`Calling`). An instance's `plan` is the requests that are
asked in turn, the defaults and the interceptors; `Next` interleaves reactions (microtasks) and, when none is ready, tasks:
answers, errors, timeouts, cancellations at any moment, interceptors that are ejected or added. The sequential part is
in two modules: `AxiosConfig` has the headers with their rewrite rules, what becomes of an answer's body, and the options that the
adapters look at; `AxiosOptions` what is made of a request when it is asked for and when it leaves: merged options, the body and its
Content-Type, form data, the URL, and the wire. `Axios` takes the latter as constant operators (`Configured`, `AdapterFor`, `Outgoing`), which
`MCAxios` gives it: what is proved of a request holds for any of them.

## 3. The runs

All bounds are constants of the cfg or of the MC module. `CHECK_DEADLOCK FALSE` stands where calls are
bounded, so that the system stops when they are used up (lock, executor, RPC, scheduler: the clock
stops; the Vue runs and axios, where events and requests are bounded). It is checked in the other runs.

| Run | Instance | Shows |
|---|---|---|
| `vue_templates` | seventeen templates (keyed and unkeyed lists, branches, static trees that are hoisted, v-once, v-pre, slots old and new, scoped, passed on and conditional, dynamic components, tables with closing tags left out); two changes of five kinds each | the document is what the template means for the data, whatever the compiler hoisted, the patch reused and the cache kept; keyed items keep their elements |
| `vue_update` | the pages of the repository, a panel that toggles itself, a number that a watcher holds down with a part that mirrors it, boxes to check, keys, a choice of one and of several from a list that changes; three events | page and inputs show the data; watchers listen to what they read; a click does not reach the listener its own flush added; a flush renders once |
| `vue_view` | the router's views (one loaded when visited), a slow or failing component with loading, delay and timeout, three tabs under keep-alive with max 2 inside an out-in transition, an in-out pair, v-show with appear; three events | the view named is shown as far as it has come; instances are alive for a reason; one tab at a time; transitions end |
| `axios` | two requests over xhr and fetch, the second a rival or the retry of the first, with a token, a signal, interceptors of each kind, options and headers of all layers; the network answers, fails, times out or aborts | see the properties in section 3.1 |
| `lock` | three threads lock, one twice, a stranger unlocks at any time; fair and unfair | mutual exclusion, with a stranger about; the first in the queue is never asleep with nobody about to wake it; each call returns; the lock is a FIFO mutex |
| `lock_careless` | two threads, one of which calls `unlock()` again after it unlocked | a violation: that call is not refused, and the lock is freed under the other thread (divergence 1) |
| `exec` | five pools: room for one support thread, no core thread, tasks that throw, two submitters | no task is lost, run twice, or swallowed; limits hold where list operations cannot overlap; accepted tasks start |
| `sched` | two callers, delays 0 and 2, clock to 5 | never early; each task has one entry; no lost wakeup; tasks keep running |
| `clocks` | the limiters with capacity 5, rate 2, requests 1, 3 and 6, clock to 5; two generators of ids with small fields and timestamps beyond their bits | no window grants more than capacity and what the time that passed generates; both limiters answer alike; ids increase on each machine and never meet |
| `rpc` | two threads, three calls, either client | one connection; only pending calls are registered; a registered call is found by its answer in nettyT; outcomes are the caller's own; calls of nettyT return |
| `maps` | four keys with colliding and negative hash codes, two values | the dynamic map is a finite map, also while nodes migrate; its chains are well formed; the other maps agree; migrations end |
| `context` | three beans: 4096 choices of their fields, all choices of processors | each bean is created once; fields hold the container's object except inside circles with a replacing processor; all processors are applied |

### 3.1 The properties of the front end

- `DomIsMeaning`, `ShowsItsData`, `ShowsTheView`: between tasks the document is what `VueMeaning` gives for the
  template and the data. They fail for whatever is stale: a static subtree that was not static, props
  or slots of an older render, a component that resolved and told nobody. `ShowsItsData` also asks that what
  is chosen from a list of several is still on it (`OffersTheChosen`): v-model notices options that
  went or moved after the page was patched, and sends a change event of its own.
- `KeyedKept`: an item that stays keeps its DOM node wherever it moves.
- `SubscriptionsAgree`: the Deps' lists and the watchers' lists say the same, once each, and destroyed
  instances are in neither.
- `NotByTheClickThatMadeIt`: the click that opens the panel does not close it, although the flush puts a
  listener on the panel before the click has passed it (the time stamps of `vue.js:8011`).
- `RenderedOncePerFlush`: a component is rendered once a flush although its watchers queue each other.
- `KeptOrGone`: every instance is in the document or in the cache, or destroyed; the cache is within its max.
- `OneTabAtATime` (part of `ShowsTheView`), `TransitionsEnd`: out-in never shows two views; no enter or leave is forgotten when
  it is cancelled, delayed by another, or overtaken.
- `CancelHolds`: a request cancelled before its answer was handed on is rejected as cancelled, although the
  adapter's promise was fulfilled first. `CancelReachesTheWire`: no cancelled exchange goes on.
  `ListenersGo`: requests that were answered leave no listener behind.
- `InOrder`: request interceptors last to first, one dispatch, response interceptors first to last, none
  left out, whatever is ejected meanwhile.
- `SentAsAsked`: headers come from the nearest layer, the Content-Type fits the body and the body reads
  back as what was given, the XSRF token stays at home; a retry with `error.config` sends the same.
- `ProgressGrows`: progress reports grow and their parts add up.
- `EveryRequestEnds`: whatever is cancelled, thrown or unsupported, every promise is settled.

In the Java runs one invariant of each module gathers its type invariant and what its queues, lists and
maps must satisfy between steps (`NoLostWakeup`, `PoolInOrder`, `QueueInOrder`, `AnswersInOrder`, `AllAgree`, `WellWired`); their conjuncts are
named definitions with a comment of their own.

**Why the bounds are enough.** In `vue_templates` two changes make a document that was rendered, patched
and patched again, which is what a stale cache needs, and the kinds of change are the moves of a keyed
diff: reverse, replace at both ends, new items between old ones, branches that switch. `vue_update` needs three events: to
fill a page, to change it, and to change it back while an answer is due. In `vue_view` three clicks visit a tab, leave it and
come back, or start a transition, cancel it and cancel that, and the tabs are one more than the cache holds.
`MAX_UPDATE_COUNT` is 4 instead of 100: a loop is cut later, not differently. In `axios` two
requests share a token, or the second cancels the first or is its retry, and `MaxLoaded` lets a progress report come early, be put off,
and meet another. Three lockers are the least with a holder, a first and a second in the
queue; the second call of one makes the queue wrap around a served node; the fourth thread is the
stranger. In the executor one submitter already has all races with ending workers, and a second
adds the races of `execute()` with itself; the number of tasks lets every pool fill, reject, shrink
and fill again. Two tasks are enough for an entry to overtake the one that was peeked. The buckets'
requests are smaller than, between and larger than the level, the clock is long enough to fill a bucket
from empty. The generators' fields are so small that sequence wrap, parity of the start value and
timestamp overflow all happen. Two callers and three calls let an answer of an earlier call meet
the registration of a later one and a connection be opened under a race. In `maps` all four
keys share a slot through the first expansion; the second splits a chain, and a chain of three can stay,
so that its middle can be removed. The keys are bytes: 253 has the hash code -3. With three beans there are circles
of one, two and three, chains into circles and two processors beside a plain bean.

**Fairness.** The JVM schedules a thread that can run, and an event loop handles what is queued: weak fairness of each
thread's steps. A thread in its critical section unlocks; a task's `run()` ends; the clock ticks; a
service answers. A browser ends the turn it began, runs the frames and timers it was asked for and ends a
CSS transition that still runs; a network exchange ends somehow; promise reactions run. For Vue and axios these are stated as `[]<>` of the states in which nothing is due, because
`ENABLED` of an action that is a whole turn is too expensive to evaluate at every state: an action is enabled just when something is due. There is no fairness for calls, spurious wakeups, a stranger's `unlock()`, a clock
set back, or a connection that breaks. The loop of a migration goes on (`Expand`), which ends only if it meets no circle. Where the code waits on a lock (`Lock` in `RpcClient`), weak
fairness suffices because calls are bounded, so the lock cannot be taken from a waiter for ever.
`CallsReturn` of MyLock likewise says that a call returns when the others call finitely often: an
unfair lock may starve a waiter otherwise (listed as a hazard).

**Known divergences.** Modelling met these disagreements of code and comments. The first has a run of its own and is
a finding of `PROJECT.json`; the properties leave the others out where the text says so, and `PROJECT.json` lists them as hazards.
1. `MyLock.unlock` never clears `holdThread`: a thread that unlocks twice can free the lock of the next, until that one has
   written the field, though lines 22 and 105 promise it an error. The run `lock_careless` violates `NeverFreedUnderHolder`.
2. `MyExecutor`: an ending support thread's `remove` (148) races `add` (87); a size is lost and more than
   `maxThreadCount` threads run, with a single submitter. `WithinMaxThreads` says it; a pool with two places for support threads violates it.
   It takes no race when the queue fills before all core threads exist: with `coreThreadCount` = `maxThreadCount` = 3 and one
   place in the queue, line 84 lets a support thread take the place of a core thread, and line 70, which looks at `coreThreads`
   only, creates the core threads all the same. So the limit is claimed under `Serial`: one caller, no tasks that throw, at
   most one place for a support thread, and a queue with room for the tasks of all core threads but one.
3. `netty-demo` sends a request (`RpcClientManager.java:52`) before it registers the promise (63); an answer in between is dropped and
   the caller waits for ever (`AnswersFindTheirPromise`). nettyT registers first, and `RegisteredInTime` holds there.
4. `MyFixedHashMap.getIndex` (29) is negative for negative hash codes: every call with such a key throws.
5. axios: `onerror`, `onabort` and `ontimeout` of an xhr do not call `done`, so their listeners stay on the token; `composeSignals`
   never subscribes to a CancelToken, so fetch goes on; a synchronous interceptor that throws and has a
   second function is followed by the dispatch of the config before it (without a second function by a
   TypeError); what a synchronous dispatch throws skips the response interceptors; URLSearchParams under a
   JSON Content-Type are quoted once more at each retry; the throttle may drop the last report; an
   interceptor ejected while a request runs still runs for it.
6. v-model on a select of several keeps values whose options were cut off at the end of the list, or all
   of them when none is left: `some` (`vue.js:8856`) walks the options there are now, though the comment above it
   (8847-8850) says that values without an option are filtered out.
7. `UserView.vue` shows the answer that came last, whichever question it answers.

Each property of a passing run has a mutant: a definition above the one it replaces, named
`<definition>_<what is wrong>`, with which the property fails under the same cfg.

## 4. The proofs

`MyLockProofs` - for any number of threads and calls, fair or unfair, with strangers:
`MutualExclusionHolds`, `HolderNeverRefused`. `IInv` adds to mutual exclusion that
`isLocked` is up exactly while a thread owns the lock, that `holdThread` is the owner from its write to
the release, and that strangers never get past the check. Mutual exclusion alone is not inductive:
a release by a thread that is not the owner would break it, and what forbids that release is
`holdThread`. The theorems assume `NotCareless`; they are
false without it (divergence 1). For these the shape of the queue plays no part.

It is all that matters for the other two, `WakeupsAreNotLost` and `LockIsFifo`. `QInv` says what the linked nodes are at
every moment: `arrivals`, the threads in the order they swung `tail`, are the threads with a node in the queue (`Members`); each
node hangs on the one before it, or its thread has swung `tail` and is about to link it
(`Linked`), and on no other, but that the old `head` may still point to the node of the thread that was served (`NoOtherLinks`); nodes are those of calls made (`MadeBefore`). The first of the queue hangs on
`Served`, the node of the thread that took the lock and has not moved `head` yet, or else `head`. A lost wakeup is prepared before a thread
sleeps: `Woken` therefore speaks of a thread that will sleep because it read an old head, and `WakeStays`
shows that whoever is to wake it stays on its way until it has left a permit. `LockIsFifo` maps each step to a join, a
grant to the first, an overtaking (only unfair) or a release of `FifoMutex`, or to a stutter. It is the safety part (`Fifo!Safety`):
that waiting threads get their turn is left to the run.

`MyExecutorProofs` - for any pools, callers, numbers of tasks and tasks that throw: `PoolStaysInOrder`, `CallsPlaceTheirTask`, and
`PoolImplementsTaskPool`. `Commands` ties each call to a task of its own, which nobody else holds and whose
workers are not made yet; `Once` says that a task is in one place and `Working` which workers have one. The two
`ArrayList`s lose updates, so nothing exact holds of their sizes: `Sized` only bounds them, and what was read of them, by the threads made and ended,
which is what keeps an index within its array. Under `Serial` exact counts do hold, and `SerialInv` has
them: the core threads are as many as the calls that looked for them (`CallsInTurn`), so the queue cannot fill before all exist, and the
one support thread has the first place of its list (`OneSupport`). The refinement follows from `Commands`,
`Once` and `Working` alone: a step changes the `status` of one task, as `TaskPool` allows, or of none, whatever the lists lost.

`ApplicationContextProofs` - for any finite set of beans, any fields (two of one type included) and any processors: `ContextIsWired`
and `ProcessorsMissNoOther`. `Calls` says that no bean is on the stack twice and that each was asked for by
those below it; `Caches` that a bean that was made is in one of `ioc` and `loadingIoc`; `Injected` what the fields already filled hold:
the bean of the container, or the raw object of a bean in the same circle, which was under way then.
The difficulty is to keep the second once the circle is left: `Holds` says it of the graph, which never changes, not of
the stack. `Processed` does the same for beans that missed a processor: one that some processor reaches. `Reaches` is stated as membership of every set that is closed
under use, not as a path, so that its transitivity needs no induction. `DefinitionFacts` shows from the library's bijections that the scan,
`SetToSeq`, finds each bean.

`ClockProofs`, the limiters - for any capacity, rate, requests and clock: `TokenWindowHolds`,
`LeakyWindowHolds`, `SameAnswersHold`. `Budget` says that what was granted in the window, and what a call made now would find in
the bucket, are together within capacity + rate x time. Setting the clock back lowers what a call finds: such a call generates nothing and only moves the
time of the last generation, so that no time is counted twice. The leaky bucket's bound follows
from the token bucket's through `SameAnswers`, which is part of the invariant.

`ClockProofs`, the ids - for any field sizes, machines and clocks: `IdsIncrease`, and `IdsAreOwn` while
timestamps fit their bits. `Latest` ties `lastId` to `lastStamp` and the sequence; the lemmas `Higher` and `SameFields` are
the arithmetic of mixed radix numbers: a higher first digit makes a higher number, equal
numbers have equal digits.

`HashMapsProofs` - for any keys, values, hash codes and lengths: `MapsAgree`, and `DynamicMapIsAMap`, the refinement of
`FiniteMap`. The links are a graph, and an induction along them is out of reach; so what is found is a least closed set, and its
lemmas carry the proof: it is closed (`Closed`) and within every closed set (`Least`), so what else it may have is referred to
(`Referred`). `Shape` is what is inductive. New nodes and removed ones have no successor (`Fresh`); each node is in the
slot of its key, while nodes migrate in the new array only (`InSlots`); no two references lead to one node
(`ReferredOnce`). `Move` is then a rotation of three references, which finds the same nodes (`Rotates`), and an unlinked
node is the only one lost (`Leaves`), for which `ReferredOnce` is needed: a second way to it would keep it.
`Added` and `Without` say what a call makes of any of the maps, the list lemmas
(`Appends`, `Updates`, `Drops`) show it of a sequence, `ChainChanges` of the array of chains, and `Narrow` cuts the
map to the keys that the fixed array takes.

`MySchedulerProofs` - for any number of callers, any delays and any time: `QueueStaysInOrder` and
`NothingIsEarly`. `Placed` says where the one entry of each task is, in the queue or in the trigger's hands;
`Timely` that no entry in the queue starts before the delay of its task is over; `Seen` what the
trigger still knows of the entry it peeked: callers add entries meanwhile, but nobody else takes one away, so
that entry is still there and whatever is polled starts no later. `Woken` is `SleepsToEarliest` from
the moment the trigger looks, not only while it sleeps: that is what makes it inductive.

`RpcClientProofs` - for any number of threads and calls, both clients, also when the connection breaks:
`AnswersStayInOrder`, and `CallsAreRemote`, the refinement: every behaviour of `RpcClient` is one of
`RemoteCalls` under the mapping the run `rpc` checks. The invariant follows an id through the places it can be in: it belongs to one call
(`Numbered`), is at most once on the wire (`WireApart`) and not before it is sent, and leaves PROMISES only with its
answer (`InStep`). For nettyT what is on the wire is registered (`Awaited`); for netty-demo that is
false, which is divergence 3. `Truthful` and `Executed` add what a message says and when a call is executed; a step is then a
call, an execution, a return or a failure of `RemoteCalls`, or is not seen there.

`AxiosProofs` - for any plan, any number of requests, tokens and signals, any options and any bounds: `CancelHolds`,
`CancelReachesTheWire`, `ListenersGo`, `ProgressGrows`, `InOrder`. `WireInv` is the inductive invariant of the first
three: it keeps exchanges and listeners in step (`Linked`). A request whose exchange is under way listens to its signals, none of
which was aborted, and over xhr to its token; one that was answered listens to nothing. `Alive` is
what that needs: where the adapter is, a request open for as long as its exchange. The properties alone are not inductive: that
a cancellation reaches the wire depends on a listener that was subscribed many steps before, and `dispatchRequest` looks at
the signals just before `composeSignals` listens to them, which is why no fetch starts under an aborted one (`StartFetchTurn`).
A step is then of two kinds (`NextOutside`): the turn of one request's chain, for which `Legal` is kept along the operators it is
composed of, or something from outside, which leaves every chain alone and settles the adapter's promise at most (`Outside`).
`ChainInv` uses that division: it says where each chain is. While request interceptors run, all that was logged lies behind those still to
run, and they and the logged ones are all that were registered (`Asking`); from the dispatch to the answer only they and
it are logged (`Sent`); then the same of the response interceptors in their order (`Answered`). That what is still to run
has a last and a first member is `GreatestOf` and `LeastOf`, without induction: the intervals below its members are finite sets.
`ProgInv` relates what was loaded, cut into pieces (`ChunkPieces`), pulled, posted, put off and told: each is at most the one before, and
a report that was put off is larger than all that were made and smaller than all that are still posted. Of the
plans the proofs assume only that their interceptors are finite lists (`PlansAssumption`).

The assumptions are the named `ASSUME`s of the modules, evaluated by TLC in the runs. Only
model-checked of the Java programs are: liveness (`CallsReturn`, `AcceptedAreStarted`, `KeepsRunning`, `MigrationEnds`, and the fairness of
`FifoMutex` in `ImplementsFifoMutex`), which the prover cannot reach. `LeakyWindow` is proved only: with `SameAnswers` it says nothing of the code that `TokenWindow` does not.
Of axios.js `EveryRequestEnds` is liveness, and `SentAsAsked` is about what the recursive operators of `AxiosOptions` make of nested data:
both are left to the run. Nothing is proved of vue.js: its modules are recursive through and through (a render creates an instance,
which renders), over trees of any depth, and neither recursive operators nor induction over data are in
the prover's reach.

## 5. Plan

Done, in this order: MyLock with its promise and proofs, MyExecutor, MyScheduler with proofs, the limiters with
proofs, SnowFlake with proofs, RPC with its promise and proofs, the maps, ApplicationContext; then vue.js with the pages of the
repository, and axios.js; then the proofs of MyLock's queue, of MyExecutor, of ApplicationContext, of the maps, and of the life of
axios's requests.

Next, modules:
1. Pages over axios: `Axios` as the world a page of `FrontPages` asks, instead of answers as tasks.
2. `FrameDecoder`: the stream cut at any place, `MyFrameDecoder` against `DemoMsgCodec`; composed with
   `RpcClient` it removes the assumption of whole messages.
3. `ServerChannel`: registration queue, `wakeup` and `select` of the worker; does every accepted
   channel get registered?
4. `RefreshManager`: node, watcher and map; does a field follow its node?
5. `SocketChat`, `MySimpleLock`, the exercises in `multiThread`, `Kmp`, `AcAutoMachine` and `Bitmap`.

Next, theorems: the safety properties of the Java programs and of axios's requests are proved. Of `vue.js` the lists of Deps
and watchers (`SubscriptionsAgree`) could be, if they were a module of their own.

## 6. Not modelled

- Of `vue.js`: `$attrs` and `$listeners` as reactive properties, the composition API, server rendering and
  hydration, TransitionGroup, JavaScript hooks of a transition and explicit durations, custom directives, filters, computed setters, `inline-template`, dynamic directive arguments, v-text,
  v-html (no template of the repository uses them), v-on of an object, v-bind of an object on a slot, v-for on a scoped slot, `.number` and `.trim`, mouse buttons
  other than the first, key names that are numbers, v-for over a string, xlink, and elements with a hyphen in their tag. Warnings are not
  modelled, so checks that only warn (the types of props) are not there. The regular expressions of the HTML scanner and of expressions are replaced by
  tokens and tuples. `FB/Base3/Ajax/js/vue.js` is the same file as `FB/Base3/Vue/js/vue.js`, which is the one the map names.
- Of `axios.js`: upload progress, transfer rates, the encodings of characters, the options of
  paramsSerializer and formSerializer, response streams, the readystate path of old browsers, and what is for Node only.
- Of the pages: what lays out or logs; element-ui's select, pagination and date pickers, and ElementView's row-class-name.
- Programs around external services (databases, brokers, Zookeeper's and
  Dubbo's own behaviour, object storage), configuration, pages of markup only, the plain JavaScript
  exercises of `FB/Base2`, and exercises that show one feature of the language. `PROJECT.json` names each with its reason.
