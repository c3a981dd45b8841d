---------------------------- MODULE VueScheduler ----------------------------
(***************************************************************************)
(* Vue's scheduler (vue.js): watchers whose data changed are queued once,  *)
(* the queue is flushed in one microtask in the order the watchers were    *)
(* created, and watchers queued while it is flushed find their place in    *)
(* it.  Operators on the runtime state s; the parts used here:             *)
(*   s.queue, s.has, s.waiting, s.flushing, s.index   the queue; index is  *)
(*                 the place of the watcher being run, from 1              *)
(*   s.circular    how often a watcher queued itself while it ran          *)
(*   s.activated   activatedChildren                                       *)
(*   s.callbacks, s.pending   nextTick's callbacks, and whether the        *)
(*                 microtask that runs them is scheduled                   *)
(*   s.cut         the loop guard stopped a flush (the warning)            *)
(*   s.clock, s.flushAt   the time, and that of the last flush             *)
(***************************************************************************)
EXTENDS Integers, Sequences, SequencesExt, FiniteSetsExt, TLC, EagerFolds

CONSTANTS MAX_UPDATE_COUNT,     \* vue.js:3237 says 100
          Before(_, _),         \* watcher.before
          Run(_, _),            \* Watcher.run
          CallUpdated(_, _),    \* callUpdatedHooks for one watcher
          Activate(_, _),       \* callActivatedHooks for one component
          CleanupPending(_),    \* cleanupDeps of the deps
          CallBack(_, _)        \* a callback given to nextTick

Flush == <<"flush">>

\* nextTick, vue.js:3839-3864: one microtask for all callbacks of a turn
NextTick(s, cb) == [s EXCEPT !.callbacks = Append(@, cb), !.pending = TRUE]

\* the place behind the last watcher not younger than w, never before the one
\* that is running
Place(s, w) == Max({s.index} \cup {i \in s.index + 1 .. Len(s.queue) : s.queue[i] <= w})

Mut_QueueAtEnd(s, w) ==
  IF w \in s.has THEN s
  ELSE LET t == [s EXCEPT !.has = @ \cup {w}, !.queue = Append(@, w)]
       IN IF t.waiting THEN t ELSE NextTick([t EXCEPT !.waiting = TRUE], Flush)

\* queueWatcher, vue.js:3372-3402
QueueWatcher(s, w) ==
  IF w \in s.has THEN s
  ELSE LET t == [s EXCEPT !.has = @ \cup {w},
                          !.queue = IF s.flushing THEN InsertAt(@, Place(s, w) + 1, w)
                                    ELSE Append(@, w)]
       IN IF t.waiting THEN t ELSE NextTick([t EXCEPT !.waiting = TRUE], Flush)

\* resetSchedulerState, vue.js:3245-3252
ResetSchedulerState(s) ==
  [s EXCEPT !.index = 0, !.queue = <<>>, !.activated = <<>>, !.has = {},
            !.circular = <<>>, !.waiting = FALSE, !.flushing = FALSE]

\* sortCompareFn, vue.js:3279-3288: by creation; parents before children, user
\* watchers before the render watcher
SortQueue(q) == SortSeq(q, LAMBDA a, b : a < b)

Times(s, w) == IF w \in DOMAIN s.circular THEN s.circular[w] ELSE 0

\* flushSchedulerQueue, vue.js:3307-3326: the loop; the length is read anew
\* each time round, and a watcher that keeps queueing itself is cut off
RECURSIVE RunFrom(_, _)
RunFrom(s, i) ==
  IF i > Len(s.queue) THEN s
  ELSE LET w == s.queue[i]
           t == Before([s EXCEPT !.index = i], w)
           u == Run([t EXCEPT !.has = @ \ {w}], w)
           n == Times(u, w) + 1
       IN IF w \notin u.has THEN RunFrom(u, i + 1)
          ELSE IF n > MAX_UPDATE_COUNT THEN [u EXCEPT !.cut = TRUE]
          ELSE RunFrom([u EXCEPT !.circular = (w :> n) @@ @], i + 1)

\* callUpdatedHooks, vue.js:3341-3350: last first
CallUpdatedHooks(s, q) == Each(CallUpdated, s, Reverse(q))

\* callActivatedHooks, vue.js:3361-3366
CallActivatedHooks(s, q) == Each(Activate, s, q)

\* flushSchedulerQueue, vue.js:3292-3340: sort, run, reset, and only then the
\* hooks, on copies of the queues
FlushSchedulerQueue(s) ==
  LET t == RunFrom([s EXCEPT !.flushing = TRUE, !.flushAt = s.clock, !.queue = SortQueue(@)], 1)
      u == CallActivatedHooks(ResetSchedulerState(t), t.activated)
  IN CleanupPending(CallUpdatedHooks(u, t.queue))

\* flushCallbacks, vue.js:3761-3768: callbacks added by these run in the next
\* microtask
FlushCallbacks(s) ==
  LET one(t, cb) == IF cb = Flush THEN FlushSchedulerQueue(t) ELSE CallBack(t, cb)
  IN Each(one, [s EXCEPT !.pending = FALSE, !.callbacks = <<>>], s.callbacks)

\* queueActivatedComponent, vue.js:3355-3360
QueueActivatedComponent(s, vm) ==
  [s EXCEPT !.vm[vm].inactive = "no", !.activated = Append(@, vm)]
=============================================================================
