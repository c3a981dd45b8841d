----------------------------- MODULE FifoMutex -----------------------------
(***************************************************************************)
(* What the blocking lock of handTearing/lock promises its callers, with   *)
(* nothing of how it is done: at most one owner, the waiting threads are   *)
(* served in the order they joined the queue, and, when the lock is not    *)
(* fair, a newcomer may take a free lock ahead of the queue ("barge").     *)
(* MyLock is shown to implement this specification.                        *)
(***************************************************************************)
EXTENDS Sequences, SequencesExt

CONSTANTS Threads,   \* the threads that use the lock
          NoThread   \* "nobody", not a thread

VARIABLES fair,      \* FALSE when newcomers may overtake the queue
          owner,     \* the thread that holds the lock, or NoThread
          waiting    \* the queue of threads that joined and were not served yet

vars == <<fair, owner, waiting>>

Init == fair \in BOOLEAN /\ owner = NoThread /\ waiting = <<>>

\* A thread takes its place at the end of the queue.
Join(t) == /\ owner # t
           /\ ~Contains(waiting, t)
           /\ waiting' = Append(waiting, t)
           /\ UNCHANGED <<fair, owner>>

\* The first of the queue gets the lock.
Grant == /\ owner = NoThread
         /\ waiting # <<>>
         /\ owner' = Head(waiting)
         /\ waiting' = Tail(waiting)
         /\ UNCHANGED fair

\* A thread outside the queue takes the free lock.
Barge(t) == /\ ~fair
            /\ owner = NoThread
            /\ ~Contains(waiting, t)
            /\ owner' = t
            /\ UNCHANGED <<fair, waiting>>

Release == /\ owner # NoThread
           /\ owner' = NoThread
           /\ UNCHANGED <<fair, waiting>>

Next == \/ Grant \/ Release
        \/ \E t \in Threads : Join(t) \/ Barge(t)

\* Somebody takes a lock that is wanted: the first of the queue or a barger.
TakeWanted == waiting # <<>> /\ (Grant \/ \E t \in Threads : Barge(t))

\* Without the promise that something happens.
Safety == Init /\ [][Next]_vars

Spec == Safety /\ WF_vars(TakeWanted) /\ WF_vars(Release)
=============================================================================
