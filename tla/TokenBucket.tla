----------------------------- MODULE TokenBucket -----------------------------
(***************************************************************************)
(* handTearing/rateLimited/TokenBucket.java.  Tokens are counted in units  *)
(* small enough for the refill of one millisecond to be a whole number     *)
(* (the code computes in double: its rounding is left out).  tryAcquire is *)
(* synchronized: one step, the reading of the clock included.              *)
(***************************************************************************)
EXTENDS Integers

CONSTANTS capacity,      \* of the bucket, in units
          tokensPerMs    \* units generated per millisecond

VARIABLES now,           \* System.currentTimeMillis()
          currentTokens, lastGenerateTime,
          granted        \* the answer of the last call of tryAcquire

Least(a, b) == IF a <= b THEN a ELSE b

Init == /\ currentTokens = capacity
        /\ lastGenerateTime = now
        /\ granted = FALSE

\* Mutant: a clock set back counts as time passed.
Generated_Back == IF now < lastGenerateTime
                  THEN Least(capacity, currentTokens + (lastGenerateTime - now) * tokensPerMs)
                  ELSE Least(capacity, currentTokens + (now - lastGenerateTime) * tokensPerMs)

\* generateTokens(): nothing when the clock was set back.  In both cases
\* the time of the last generation becomes the current time.
Generated == IF now < lastGenerateTime
             THEN currentTokens
             ELSE Least(capacity, currentTokens + (now - lastGenerateTime) * tokensPerMs)

TryAcquire(permits) ==
  /\ lastGenerateTime' = now
  /\ granted' = (permits <= Generated)
  /\ currentTokens' = IF permits <= Generated THEN Generated - permits ELSE Generated
=============================================================================
