---------------------------- MODULE RateLimiters ----------------------------
(***************************************************************************)
(* The two rate limiters of handTearing/rateLimited side by side: built    *)
(* with the same capacity and rate, they see the same clock, which may be  *)
(* set back, and the same calls.                                           *)
(***************************************************************************)
EXTENDS Integers

CONSTANTS Capacity, Rate,  \* units, units per millisecond
          Permits,         \* the arguments of tryAcquire considered
          MaxNow,         \* bound: the clock shows 0 .. MaxNow
          MaxForward       \* bound: milliseconds that pass in one window

ASSUME LimiterAssumption == /\ Capacity \in Nat \ {0} /\ Rate \in Nat \ {0}
                            /\ Permits \subseteq Nat \ {0}
                            /\ MaxNow \in Nat /\ MaxForward \in Nat

VARIABLES now,
          currentTokens, lastGenerateTime, tokenGranted,
          currentWater, lastLeakTime, leakyGranted,
          tokenSum, leakySum,  \* auxiliary: permits each granted since the window opened
          forward              \* auxiliary: milliseconds the clock advanced since then

tokenVars == <<currentTokens, lastGenerateTime, tokenGranted, tokenSum>>
leakyVars == <<currentWater, lastLeakTime, leakyGranted, leakySum>>
limiterVars == <<now, tokenVars, leakyVars, forward>>

Token == INSTANCE TokenBucket WITH capacity <- Capacity, tokensPerMs <- Rate, granted <- tokenGranted
Leaky == INSTANCE LeakyBucket WITH capacity <- Capacity, leakPerMs <- Rate, granted <- leakyGranted

LimitersInit == /\ now \in 0 .. MaxNow
        /\ Token!Init /\ Leaky!Init
        /\ tokenSum = 0 /\ leakySum = 0 /\ forward = 0

Advance(t) == /\ now < t /\ forward + (t - now) <= MaxForward
              /\ now' = t
              /\ forward' = forward + (t - now)
              /\ UNCHANGED <<tokenVars, leakyVars>>

SetBack(t) == t < now /\ now' = t /\ UNCHANGED <<tokenVars, leakyVars, forward>>

Counted(sum, permits, granted) == IF granted THEN sum + permits ELSE sum

TryAcquire(permits) == /\ Token!TryAcquire(permits)
                       /\ Leaky!TryAcquire(permits)
                       /\ tokenSum' = Counted(tokenSum, permits, tokenGranted')
                       /\ leakySum' = Counted(leakySum, permits, leakyGranted')
                       /\ UNCHANGED <<now, forward>>

\* The observer starts to count anew, at any moment.
OpenWindow == tokenSum' = 0 /\ leakySum' = 0 /\ forward' = 0
              /\ UNCHANGED <<now, currentTokens, lastGenerateTime, tokenGranted,
                             currentWater, lastLeakTime, leakyGranted>>

LimitersNext == \/ \E t \in 0 .. MaxNow : Advance(t) \/ SetBack(t)
        \/ \E permits \in Permits : TryAcquire(permits)
        \/ OpenWindow

LimitersSpec == LimitersInit /\ [][LimitersNext]_limiterVars

-----------------------------------------------------------------------------
(* Properties *)

\* In any stretch of time the token bucket grants at most its capacity plus
\* what the time that really passed generates, also when the clock is set back.
TokenWindow == tokenSum <= Capacity + Rate * forward

\* The same for the leaky bucket.
LeakyWindow == leakySum <= Capacity + Rate * forward

\* The two limiters answer alike, and the room in one is the tokens of the other.
SameAnswers == /\ tokenGranted = leakyGranted
               /\ currentTokens = Capacity - currentWater
               /\ lastGenerateTime = lastLeakTime
=============================================================================
