----------------------------- MODULE LeakyBucket -----------------------------
(***************************************************************************)
(* handTearing/rateLimited/LeakyBucket.java, in the units of TokenBucket.  *)
(***************************************************************************)
EXTENDS Integers

CONSTANTS capacity,      \* of the bucket, in units
          leakPerMs      \* units that leak per millisecond

VARIABLES now,           \* System.currentTimeMillis()
          currentWater, lastLeakTime,
          granted        \* the answer of the last call of tryAcquire

Most(a, b) == IF a >= b THEN a ELSE b

Init == /\ currentWater = 0
        /\ lastLeakTime = now
        /\ granted = FALSE

\* leakWater(): nothing when the clock was set back.  In both cases the time
\* of the last leak becomes the current time.
Left == IF now < lastLeakTime
        THEN currentWater
        ELSE Most(currentWater - (now - lastLeakTime) * leakPerMs, 0)

\* Mutant: the last unit of room is never given away.
TryAcquire_Strict(permits) ==
  /\ lastLeakTime' = now
  /\ granted' = (permits < capacity - Left)
  /\ currentWater' = IF permits < capacity - Left THEN Left + permits ELSE Left

TryAcquire(permits) ==
  /\ lastLeakTime' = now
  /\ granted' = (permits <= capacity - Left)
  /\ currentWater' = IF permits <= capacity - Left THEN Left + permits ELSE Left
=============================================================================
