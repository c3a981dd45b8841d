----------------------------- MODULE ClockProofs -----------------------------
(***************************************************************************)
(* The two parts of handTearing that live by the wall clock, which may be  *)
(* set back.                                                               *)
(*   The limiters of RateLimiters stay equivalent and within their budget, *)
(* for every capacity, rate and set of permits; the invariant Budget is    *)
(* what a window can still cost: the permits granted so far and the tokens *)
(* a call would find now.                                                  *)
(*   The ids of SnowFlake strictly increase on every machine and differ    *)
(* between machines, for all field sizes and machines, as long as the      *)
(* timestamps fit their bits; the invariant Latest ties the last id to the *)
(* two fields a generator keeps: while it spins, the id is the last of its *)
(* millisecond.                                                            *)
(***************************************************************************)
EXTENDS RateLimiters, SnowFlake, TLAPS

\* Multiplication distributes over a sum.
LEMMA Distribute == ASSUME NEW a \in Int, NEW b \in Int, NEW r \in Int
                    PROVE  r * (a + b) = r * a + r * b /\ (a + b) * r = a * r + b * r
  BY SMT

\* The product of two numbers is a number.
LEMMA Product == ASSUME NEW a \in Nat, NEW r \in Nat PROVE a * r \in Nat
  BY SMT

-----------------------------------------------------------------------------
(* The rate limiters *)

\* What a call finds at time t in a token bucket left with n tokens at last.
Found(t, last, n) == IF t < last THEN n
                     ELSE Token!Least(Capacity, n + (t - last) * Rate)

LimitersTyped == /\ now \in Int /\ forward \in Nat
         /\ currentTokens \in Nat /\ currentTokens <= Capacity
         /\ lastGenerateTime \in Int
         /\ tokenGranted \in BOOLEAN /\ leakyGranted \in BOOLEAN
         /\ currentWater \in Int /\ lastLeakTime \in Int
         /\ tokenSum \in Nat /\ leakySum \in Nat

\* What is granted and what could be granted now stay within the budget.
Budget == tokenSum + Found(now, lastGenerateTime, currentTokens) <= Capacity + Rate * forward

\* Equivalent limiters grant the same permits.
SameSums == tokenSum = leakySum

LimitersInv == LimitersTyped /\ SameAnswers /\ SameSums /\ Budget

-----------------------------------------------------------------------------
(* Arithmetic of a bucket *)

\* Multiplication commutes.
LEMMA Commute == ASSUME NEW a \in Int, NEW r \in Int PROVE a * r = r * a
  BY SMT

\* A call finds at least what was left and at most what the bucket holds.
LEMMA FoundBounds == ASSUME NEW t \in Int, NEW last \in Int,
                            NEW n \in Nat, n <= Capacity
                     PROVE  /\ Found(t, last, n) \in Nat
                            /\ n <= Found(t, last, n) /\ Found(t, last, n) <= Capacity
<1>1. CASE t < last
  BY <1>1, LimiterAssumption DEF Found
<1>2. CASE t >= last
  <2>1. t - last \in Nat
    BY <1>2
  <2>2. (t - last) * Rate \in Nat
    BY <2>1, Product, LimiterAssumption
  <2>3. QED
    BY <1>2, <2>2, LimiterAssumption DEF Found, Token!Least
<1>3. QED
  BY <1>1, <1>2

\* A call d milliseconds later finds no less, and at most d * Rate more.
LEMMA FoundGrows == ASSUME NEW t \in Int, NEW d \in Nat, NEW last \in Int,
                           NEW n \in Nat, n <= Capacity
                    PROVE  /\ Found(t, last, n) <= Found(t + d, last, n)
                           /\ Found(t + d, last, n) <= Found(t, last, n) + d * Rate
<1>1. d * Rate \in Nat
  BY Product, LimiterAssumption
<1>2. CASE t + d < last
  <2>1. t < last
    BY <1>2
  <2>2. QED
    BY <1>1, <1>2, <2>1 DEF Found
<1>3. CASE t < last /\ last <= t + d
  <2>1. (t + d) - last \in Nat /\ last - t \in Nat /\ d = ((t + d) - last) + (last - t)
    BY <1>3
  <2>2. ((t + d) - last) * Rate \in Nat /\ (last - t) * Rate \in Nat
    BY <2>1, Product, LimiterAssumption
  <2>3. d * Rate = ((t + d) - last) * Rate + (last - t) * Rate
    BY <2>1, Distribute, LimiterAssumption
  <2>4. QED
    BY <1>1, <1>3, <2>2, <2>3, LimiterAssumption DEF Found, Token!Least
<1>4. CASE last <= t
  <2>1. t - last \in Nat /\ (t + d) - last = (t - last) + d
    BY <1>4
  <2>2. (t - last) * Rate \in Nat
    BY <2>1, Product, LimiterAssumption
  <2>3. ((t + d) - last) * Rate = (t - last) * Rate + d * Rate
    BY <2>1, Distribute, LimiterAssumption
  <2>4. QED
    BY <1>1, <1>4, <2>2, <2>3, LimiterAssumption DEF Found, Token!Least
<1>5. QED
  BY <1>2, <1>3, <1>4

\* Right after a call, the next one finds what it left.
LEMMA FoundNow == ASSUME NEW t \in Int, NEW n \in Nat, n <= Capacity
                  PROVE  Found(t, t, n) = n
<1>1. t - t = 0 /\ 0 * Rate = 0
  BY LimiterAssumption
<1>2. QED
  BY <1>1, LimiterAssumption DEF Found, Token!Least

\* The room a call finds in the leaky bucket is the tokens it finds in the
\* token bucket.
LEMMA SameLevel == ASSUME LimitersTyped, SameAnswers
                   PROVE  /\ Token!Generated = Found(now, lastGenerateTime, currentTokens)
                          /\ Leaky!Left \in Int
                          /\ Capacity - Leaky!Left = Token!Generated
<1>1. Token!Generated = Found(now, lastGenerateTime, currentTokens)
  BY DEF Token!Generated, Found
<1>2. CASE now < lastGenerateTime
  BY <1>1, <1>2, LimiterAssumption DEF Found, Leaky!Left, LimitersTyped, SameAnswers
<1>3. CASE now >= lastGenerateTime
  <2>1. (now - lastGenerateTime) * Rate \in Int
    BY LimiterAssumption DEF LimitersTyped
  <2>2. QED
    BY <1>1, <1>3, <2>1, LimiterAssumption
       DEF Found, Token!Least, Leaky!Left, Leaky!Most, LimitersTyped, SameAnswers
<1>4. QED
  BY <1>1, <1>2, <1>3 DEF LimitersTyped

-----------------------------------------------------------------------------
(* The invariant *)

\* At first both limiters are full and nothing was granted.
LEMMA LimitersInitInv == LimitersInit => LimitersInv
<1> SUFFICES ASSUME LimitersInit PROVE LimitersInv
  OBVIOUS
<1>1. LimitersTyped /\ SameAnswers /\ SameSums
  <2>1. tokenGranted \in BOOLEAN /\ leakyGranted \in BOOLEAN /\ tokenGranted = leakyGranted
    BY Zenon DEF LimitersInit, Token!Init, Leaky!Init
  <2>2. QED
    BY <2>1, LimiterAssumption DEF LimitersInit, Token!Init, Leaky!Init, LimitersTyped, SameAnswers, SameSums
<1>2. Rate * forward = 0 /\ tokenSum = 0
  BY LimiterAssumption DEF LimitersInit
<1>3. Found(now, lastGenerateTime, currentTokens) <= Capacity
  BY <1>1, FoundBounds DEF LimitersTyped
<1>4. Found(now, lastGenerateTime, currentTokens) \in Nat
  BY <1>1, FoundBounds DEF LimitersTyped
<1>5. QED
  BY <1>1, <1>2, <1>3, <1>4, LimiterAssumption DEF LimitersInv, Budget

\* When the clock advances, time pays for what a call finds more.
LEMMA AdvanceInv == ASSUME LimitersInv, NEW t \in 0 .. MaxNow, Advance(t) PROVE LimitersInv'
<1> DEFINE d == t - now
           f == Found(now, lastGenerateTime, currentTokens)
           g == Found(now', lastGenerateTime', currentTokens')
<1>1. d \in Nat /\ forward \in Nat /\ forward' = forward + d /\ now' = now + d
  BY LimiterAssumption DEF LimitersInv, LimitersTyped, Advance
<1>2. /\ lastGenerateTime' = lastGenerateTime /\ currentTokens' = currentTokens
      /\ tokenSum' = tokenSum
  BY DEF Advance, tokenVars
<1>3. LimitersTyped' /\ SameAnswers' /\ SameSums'
  BY <1>1, LimiterAssumption DEF Advance, tokenVars, leakyVars, LimitersInv, LimitersTyped, SameAnswers, SameSums
<1>4. d * Rate \in Nat /\ d * Rate = Rate * d
  BY <1>1, Product, Commute, LimiterAssumption
<1>5. Rate * forward' = Rate * forward + d * Rate /\ Rate * forward \in Int
  BY <1>1, <1>4, Distribute, LimiterAssumption
<1>6. g <= f + d * Rate
  BY <1>1, <1>2, FoundGrows DEF LimitersInv, LimitersTyped
<1>7. f \in Nat /\ g \in Nat
  BY <1>3, FoundBounds DEF LimitersInv, LimitersTyped
<1>8. tokenSum' + g <= Capacity + Rate * forward'
  <2> HIDE DEF f, g, d
  <2> QED
    BY <1>1, <1>2, <1>4, <1>5, <1>6, <1>7, tokenSum + f <= Capacity + Rate * forward,
       LimiterAssumption DEF LimitersInv, LimitersTyped, Budget, f
<1>9. QED
  BY <1>3, <1>8 DEF LimitersInv, Budget

\* When the clock is set back, a call finds no more than before.
LEMMA SetBackInv == ASSUME LimitersInv, NEW t \in 0 .. MaxNow, SetBack(t) PROVE LimitersInv'
<1> DEFINE d == now - t
           f == Found(now, lastGenerateTime, currentTokens)
           g == Found(now', lastGenerateTime', currentTokens')
<1>1. d \in Nat /\ now = t + d /\ now' = t /\ t \in Int
  BY LimiterAssumption DEF LimitersInv, LimitersTyped, SetBack
<1>2. /\ lastGenerateTime' = lastGenerateTime /\ currentTokens' = currentTokens
      /\ tokenSum' = tokenSum /\ forward' = forward
  BY DEF SetBack, tokenVars
<1>3. LimitersTyped' /\ SameAnswers' /\ SameSums'
  BY <1>1, LimiterAssumption DEF SetBack, tokenVars, leakyVars, LimitersInv, LimitersTyped, SameAnswers, SameSums
<1>4. g <= f
  BY <1>1, <1>2, FoundGrows DEF LimitersInv, LimitersTyped
<1>5. f \in Nat /\ g \in Nat
  BY <1>3, FoundBounds DEF LimitersInv, LimitersTyped
<1>6. Rate * forward \in Int /\ tokenSum \in Nat
  BY LimiterAssumption DEF LimitersInv, LimitersTyped
<1>7. tokenSum + f <= Capacity + Rate * forward
  BY DEF LimitersInv, Budget
<1>8. tokenSum' + g <= Capacity + Rate * forward'
  <2> HIDE DEF f, g, d
  <2> QED
    BY <1>2, <1>4, <1>5, <1>6, <1>7, LimiterAssumption
<1>9. QED
  BY <1>3, <1>8 DEF LimitersInv, Budget

\* A call moves what it grants from the tokens found to the sum.
LEMMA TryAcquireInv == ASSUME LimitersInv, NEW permits \in Permits, TryAcquire(permits) PROVE LimitersInv'
<1> DEFINE f == Found(now, lastGenerateTime, currentTokens)
<1>1. permits \in Nat /\ Rate * forward \in Int /\ Capacity \in Nat
  BY LimiterAssumption DEF LimitersInv, LimitersTyped
<1>2. f \in Nat /\ f <= Capacity
  BY FoundBounds DEF LimitersInv, LimitersTyped
<1>3. Token!Generated = f /\ Leaky!Left \in Int /\ Capacity - Leaky!Left = f
  BY SameLevel DEF LimitersInv
<1> HIDE DEF f
<1>4. /\ lastGenerateTime' = now /\ lastLeakTime' = now /\ now' = now /\ forward' = forward
      /\ tokenGranted' = (permits <= f) /\ leakyGranted' = (permits <= f)
      /\ currentTokens' = IF permits <= f THEN f - permits ELSE f
      /\ currentWater' = IF permits <= f THEN Leaky!Left + permits ELSE Leaky!Left
  BY <1>3 DEF TryAcquire, Token!TryAcquire, Leaky!TryAcquire
<1>5. /\ tokenSum' = IF permits <= f THEN tokenSum + permits ELSE tokenSum
      /\ leakySum' = IF permits <= f THEN leakySum + permits ELSE leakySum
  BY <1>4 DEF TryAcquire, Counted
<1>6. LimitersTyped' /\ SameAnswers' /\ SameSums'
  BY <1>1, <1>2, <1>3, <1>4, <1>5 DEF LimitersInv, LimitersTyped, SameAnswers, SameSums
<1>7. Found(now', lastGenerateTime', currentTokens') = currentTokens'
  BY <1>4, <1>6, FoundNow DEF LimitersTyped
<1>8. tokenSum + f <= Capacity + Rate * forward
  BY DEF LimitersInv, Budget, f
<1>9. tokenSum' + currentTokens' <= Capacity + Rate * forward'
  BY <1>1, <1>2, <1>4, <1>5, <1>8 DEF LimitersInv, LimitersTyped
<1>10. QED
  BY <1>6, <1>7, <1>9 DEF LimitersInv, Budget

\* A new window starts with a budget of its capacity.
LEMMA OpenWindowInv == ASSUME LimitersInv, OpenWindow PROVE LimitersInv'
<1> DEFINE g == Found(now', lastGenerateTime', currentTokens')
<1>1. LimitersTyped' /\ SameAnswers' /\ SameSums'
  BY DEF OpenWindow, LimitersInv, LimitersTyped, SameAnswers, SameSums
<1>2. g \in Nat /\ g <= Capacity
  BY <1>1, FoundBounds DEF LimitersTyped
<1>3. tokenSum' = 0 /\ Rate * forward' = 0
  BY LimiterAssumption DEF OpenWindow
<1>4. tokenSum' + g <= Capacity + Rate * forward'
  <2> HIDE DEF g
  <2> QED
    BY <1>2, <1>3, LimiterAssumption
<1>5. QED
  BY <1>1, <1>4 DEF LimitersInv, Budget

\* The clock and every pair of calls keep the invariant.
LEMMA LimitersNextInv == LimitersInv /\ [LimitersNext]_limiterVars => LimitersInv'
<1> SUFFICES ASSUME LimitersInv, [LimitersNext]_limiterVars PROVE LimitersInv'
  OBVIOUS
<1>1. CASE \E t \in 0 .. MaxNow : Advance(t)
  BY <1>1, AdvanceInv
<1>2. CASE \E t \in 0 .. MaxNow : SetBack(t)
  BY <1>2, SetBackInv
<1>3. CASE \E permits \in Permits : TryAcquire(permits)
  BY <1>3, TryAcquireInv
<1>4. CASE OpenWindow
  BY <1>4, OpenWindowInv
<1>5. CASE UNCHANGED limiterVars
  BY <1>5 DEF limiterVars, tokenVars, leakyVars, LimitersInv, LimitersTyped, SameAnswers, SameSums, Budget
<1>6. QED
  BY <1>1, <1>2, <1>3, <1>4, <1>5 DEF LimitersNext

\* The limiters' invariant holds, for every capacity and rate.
LEMMA LimitersInvHolds == LimitersSpec => []LimitersInv
  BY LimitersInitInv, LimitersNextInv, PTL DEF LimitersSpec

-----------------------------------------------------------------------------
(* Theorems *)

\* tryAcquire of TokenBucket never grants, in any window, more than its
\* capacity and what the time that passed generates.
THEOREM TokenWindowHolds == LimitersSpec => []TokenWindow
<1>1. LimitersInv => TokenWindow
  <2> SUFFICES ASSUME LimitersInv PROVE TokenWindow
    OBVIOUS
  <2>1. Found(now, lastGenerateTime, currentTokens) \in Nat
    BY FoundBounds DEF LimitersInv, LimitersTyped
  <2>2. Rate * forward \in Int
    BY LimiterAssumption DEF LimitersInv, LimitersTyped
  <2>3. QED
    BY <2>1, <2>2, LimiterAssumption DEF LimitersInv, LimitersTyped, Budget, TokenWindow
<1>2. QED
  BY <1>1, LimitersInvHolds, PTL

\* tryAcquire of LeakyBucket never grants more than that either.
THEOREM LeakyWindowHolds == LimitersSpec => []LeakyWindow
<1>1. LimitersInv /\ TokenWindow => LeakyWindow
  BY DEF LimitersInv, SameSums, TokenWindow, LeakyWindow
<1>2. QED
  BY <1>1, LimitersInvHolds, TokenWindowHolds, PTL

\* TokenBucket and LeakyBucket give the same answer to every call.
THEOREM SameAnswersHold == LimitersSpec => []SameAnswers
<1>1. LimitersInv => SameAnswers
  BY DEF LimitersInv
<1>2. QED
  BY <1>1, LimitersInvHolds, PTL

-----------------------------------------------------------------------------
(* The generators of ids *)

\* The number whose fields are the timestamp, the machine and the sequence.
Value(m, stamp, seq) ==
  ((stamp * RoomSize + roomId[m]) * MachineSize + machineId[m]) * SequenceSize + seq

\* The machines' numbers fit their fields, and no two machines have the same.
Numbered == /\ \A m \in Machines : roomId[m] \in 0 .. RoomSize - 1 /\ machineId[m] \in 0 .. MachineSize - 1
            /\ \A m, n \in Machines : roomId[m] = roomId[n] /\ machineId[m] = machineId[n] => m = n

Typed == /\ clock \in [Machines -> Int] /\ lastStamp \in [Machines -> Int]
         /\ \A m \in Machines : clock[m] >= StartStamp /\ lastStamp[m] >= StartStamp
         /\ sequence \in [Machines -> 0 .. SequenceSize - 1]
         /\ spinning \in [Machines -> BOOLEAN]
         /\ lastId \in [Machines -> Int]

\* The sequence number of the id returned last.
LastSequence(m) == IF spinning[m] THEN SequenceSize - 1 ELSE sequence[m]

Latest == \A m \in Machines :
            InRange(m) => \/ lastId[m] = -1
                          \/ lastId[m] = Value(m, lastStamp[m] - StartStamp, LastSequence(m))

IInv == Numbered /\ Typed /\ Latest

-----------------------------------------------------------------------------
(* Numbers made of fields *)

\* A higher field decides, whatever the lower field is.
LEMMA Higher == ASSUME NEW a \in Nat, NEW b \in Nat, a < b, NEW s \in Nat \ {0},
                       NEW x \in 0 .. s - 1, NEW y \in Nat
                PROVE  a * s + x < b * s + y
<1> DEFINE c == b - (a + 1)
<1>1. c \in Nat /\ b = (a + 1) + c
  OBVIOUS
<1>2. c * s \in Nat /\ a * s \in Nat
  BY <1>1, Product
<1>3. b * s = (a + 1) * s + c * s /\ (a + 1) * s = a * s + 1 * s /\ 1 * s = s
  <2> HIDE DEF c
  <2> QED
    BY <1>1, Distribute
<1>4. QED
  <2> HIDE DEF c
  <2> QED
    BY <1>2, <1>3

\* Two equal numbers have equal fields.
LEMMA SameFields == ASSUME NEW a \in Nat, NEW b \in Nat, NEW s \in Nat \ {0},
                           NEW x \in 0 .. s - 1, NEW y \in 0 .. s - 1,
                           a * s + x = b * s + y
                    PROVE  a = b /\ x = y
<1>1. a * s \in Nat /\ b * s \in Nat
  BY Product
<1>2. ~(a < b)
  <2> SUFFICES ASSUME a < b PROVE FALSE
    OBVIOUS
  <2>1. a * s + x < b * s + y
    BY Higher
  <2>2. QED
    BY <1>1, <2>1
<1>3. ~(b < a)
  <2> SUFFICES ASSUME b < a PROVE FALSE
    OBVIOUS
  <2>1. b * s + y < a * s + x
    BY Higher
  <2>2. QED
    BY <1>1, <2>1
<1>4. a = b
  BY <1>2, <1>3
<1>5. QED
  BY <1>1, <1>4

\* The upper fields of an id form a number.
LEMMA Upper == ASSUME Numbered, NEW m \in Machines, NEW stamp \in Nat
               PROVE  /\ stamp * RoomSize + roomId[m] \in Nat
                      /\ (stamp * RoomSize + roomId[m]) * MachineSize + machineId[m] \in Nat
<1>1. stamp * RoomSize \in Nat
  BY Product, SnowFlakeAssumption
<1>2. stamp * RoomSize + roomId[m] \in Nat
  BY <1>1, SnowFlakeAssumption DEF Numbered
<1>3. (stamp * RoomSize + roomId[m]) * MachineSize \in Nat
  BY <1>2, Product, SnowFlakeAssumption
<1>4. QED
  BY <1>2, <1>3, SnowFlakeAssumption DEF Numbered

\* An id is a number.
LEMMA ValueIsNat == ASSUME Numbered, NEW m \in Machines, NEW stamp \in Nat,
                           NEW seq \in 0 .. SequenceSize - 1
                    PROVE  Value(m, stamp, seq) \in Nat
<1> DEFINE u == (stamp * RoomSize + roomId[m]) * MachineSize + machineId[m]
<1>1. u \in Nat
  BY Upper
<1>2. u * SequenceSize \in Nat
  <2> HIDE DEF u
  <2> QED
    BY <1>1, Product, SnowFlakeAssumption
<1>3. Value(m, stamp, seq) = u * SequenceSize + seq
  BY DEF Value
<1>4. QED
  <2> HIDE DEF u
  <2> QED
    BY <1>2, <1>3, SnowFlakeAssumption

\* An id of a later millisecond is greater.
LEMMA Later == ASSUME Numbered, NEW m \in Machines, NEW t \in Nat, NEW u \in Nat, t < u,
                      NEW x \in 0 .. SequenceSize - 1, NEW y \in 0 .. SequenceSize - 1
               PROVE  Value(m, t, x) < Value(m, u, y)
<1> DEFINE a == t * RoomSize + roomId[m]
           b == u * RoomSize + roomId[m]
           c == a * MachineSize + machineId[m]
           d == b * MachineSize + machineId[m]
<1>1. roomId[m] \in 0 .. RoomSize - 1 /\ machineId[m] \in 0 .. MachineSize - 1
  BY DEF Numbered
<1>2. a \in Nat /\ b \in Nat /\ c \in Nat /\ d \in Nat
  BY Upper
<1>3. a < b
  BY <1>1, Higher, SnowFlakeAssumption
<1>4. c < d
  <2> HIDE DEF a, b
  <2> QED
    BY <1>1, <1>2, <1>3, Higher, SnowFlakeAssumption
<1>5. Value(m, t, x) = c * SequenceSize + x /\ Value(m, u, y) = d * SequenceSize + y
  BY DEF Value
<1>6. QED
  <2> HIDE DEF c, d
  <2> QED
    BY <1>2, <1>4, <1>5, Higher, SnowFlakeAssumption

\* A timestamp that fits its bits leaves the sign bit alone.
LEMMA Fits == ASSUME Numbered, NEW m \in Machines, NEW stamp \in Nat, stamp < StampSize,
                     NEW seq \in 0 .. SequenceSize - 1
              PROVE  Value(m, stamp, seq) < Positive /\ Positive \in Nat
<1> DEFINE a == stamp * RoomSize + roomId[m]
           c == a * MachineSize + machineId[m]
           p == StampSize * RoomSize
           q == p * MachineSize
<1>1. p \in Nat /\ q \in Nat /\ a \in Nat /\ c \in Nat
  <2>1. p \in Nat
    BY Product, SnowFlakeAssumption
  <2>2. q \in Nat
    <3> HIDE DEF p
    <3> QED
      BY <2>1, Product, SnowFlakeAssumption
  <2>3. QED
    BY <2>1, <2>2, Upper
<1>2. roomId[m] \in 0 .. RoomSize - 1 /\ machineId[m] \in 0 .. MachineSize - 1
  BY DEF Numbered
<1>3. a < p + 0
  BY <1>2, Higher, SnowFlakeAssumption
<1>4. c < q + 0
  <2> HIDE DEF a, p
  <2> QED
    BY <1>1, <1>2, <1>3, Higher, SnowFlakeAssumption
<1>5. Value(m, stamp, seq) = c * SequenceSize + seq /\ Positive = q * SequenceSize
  BY DEF Value, Positive
<1>6. QED
  <2> HIDE DEF c, q
  <2>1. c * SequenceSize + seq < q * SequenceSize + 0 /\ q * SequenceSize \in Nat
    BY <1>1, <1>4, Higher, Product, SnowFlakeAssumption
  <2>2. QED
    BY <1>5, <2>1

\* The remainder of a number below the divisor.
LEMMA Remainder == ASSUME NEW x \in Nat, NEW n \in Nat, x < n PROVE x % n = x
  BY SMT

\* Then the id composed is the number of its fields.
LEMMA Composed == ASSUME Numbered, NEW m \in Machines, NEW stamp \in Nat, stamp < StampSize,
                         NEW seq \in 0 .. SequenceSize - 1
                  PROVE  Compose(m, stamp, seq) = Value(m, stamp, seq)
<1> DEFINE v == Value(m, stamp, seq)
<1>1. v \in Nat /\ v < Positive /\ Positive \in Nat
  BY ValueIsNat, Fits
<1>2. Compose(m, stamp, seq) = Signed(v)
  BY DEF Compose, Value
<1>3. Signed(v) = v
  <2> HIDE DEF v
  <2>1. v < 2 * Positive /\ 2 * Positive \in Nat
    BY <1>1
  <2>2. v % (2 * Positive) = v
    BY <1>1, <2>1, Remainder
  <2>3. QED
    BY <1>1, <2>2 DEF Signed
<1>4. QED
  BY <1>2, <1>3

\* Two machines never compose the same id.
LEMMA Distinct == ASSUME Numbered, NEW m \in Machines, NEW n \in Machines,
                         NEW t \in Nat, NEW u \in Nat,
                         NEW x \in 0 .. SequenceSize - 1, NEW y \in 0 .. SequenceSize - 1,
                         Value(m, t, x) = Value(n, u, y)
                  PROVE  m = n
<1> DEFINE a == t * RoomSize + roomId[m]
           b == u * RoomSize + roomId[n]
           c == a * MachineSize + machineId[m]
           d == b * MachineSize + machineId[n]
<1>1. a \in Nat /\ b \in Nat /\ c \in Nat /\ d \in Nat
  BY Upper
<1>2. /\ roomId[m] \in 0 .. RoomSize - 1 /\ machineId[m] \in 0 .. MachineSize - 1
      /\ roomId[n] \in 0 .. RoomSize - 1 /\ machineId[n] \in 0 .. MachineSize - 1
  BY DEF Numbered
<1>3. c = d
  <2>1. c * SequenceSize + x = d * SequenceSize + y
    BY DEF Value
  <2> HIDE DEF c, d
  <2> QED
    BY <1>1, <2>1, SameFields, SnowFlakeAssumption
<1>4. a = b /\ machineId[m] = machineId[n]
  <2>1. a * MachineSize + machineId[m] = b * MachineSize + machineId[n]
    BY <1>3
  <2> HIDE DEF a, b, c, d
  <2> QED
    BY <1>1, <1>2, <2>1, SameFields, SnowFlakeAssumption
<1>5. roomId[m] = roomId[n]
  BY <1>2, <1>4, SameFields, SnowFlakeAssumption
<1>6. QED
  BY <1>4, <1>5 DEF Numbered

-----------------------------------------------------------------------------
(* The invariant *)

\* The generators start with an invariant that says nothing of ids yet.
LEMMA InitIInv == Init => IInv
<1> SUFFICES ASSUME Init PROVE IInv
  OBVIOUS
<1>1. Typed
  BY SnowFlakeAssumption DEF Init, Typed
<1>2. Latest
  BY DEF Init, Latest
<1>3. Numbered
  BY DEF Init, Numbered
<1>4. QED
  BY <1>1, <1>2, <1>3 DEF IInv

\* A call that returns keeps the last id and the fields together, and the
\* id grows when the pair of timestamp and sequence does.
LEMMA ReturnIInv == ASSUME IInv, NEW m \in Machines, NEW t \in Int, t >= StartStamp,
                           NEW s \in 0 .. SequenceSize - 1, Return(m, t, s),
                           \/ t > lastStamp[m]
                           \/ t = lastStamp[m] /\ s > LastSequence(m)
                    PROVE  /\ IInv'
                           /\ \A n \in Machines :
                                lastId'[n] # lastId[n] /\ InRange(n)' => lastId'[n] > lastId[n]
<1>1. /\ lastStamp' = [lastStamp EXCEPT ![m] = t] /\ sequence' = [sequence EXCEPT ![m] = s]
      /\ lastId' = [lastId EXCEPT ![m] = Compose(m, t - StartStamp, s)]
      /\ spinning' = [spinning EXCEPT ![m] = FALSE] /\ clock' = clock
      /\ UNCHANGED config /\ Numbered
  BY DEF Return, IInv
<1>2. t - StartStamp \in Nat /\ lastStamp[m] - StartStamp \in Nat
      /\ LastSequence(m) \in 0 .. SequenceSize - 1
  BY SnowFlakeAssumption DEF IInv, Typed, LastSequence
<1>3. Value(m, t - StartStamp, s) \in Nat
  BY <1>1, <1>2, ValueIsNat
<1>4. t - StartStamp < StampSize => Compose(m, t - StartStamp, s) = Value(m, t - StartStamp, s)
  BY <1>1, <1>2, Composed
<1>5. Compose(m, t - StartStamp, s) \in Int
  <2> DEFINE v == Value(m, t - StartStamp, s)
  <2>1. Positive \in Nat \ {0}
    BY <1>1, Fits, ValueIsNat, SnowFlakeAssumption, 0 < StampSize
  <2>2. v % (2 * Positive) \in Int
    <3> HIDE DEF v
    <3> QED
      BY <1>3, <2>1 DEF v
  <2>3. Compose(m, t - StartStamp, s) = Signed(v)
    BY DEF Compose, Value
  <2>4. QED
    <3> HIDE DEF v
    <3> QED
      BY <2>1, <2>2, <2>3 DEF Signed
<1>6. Typed'
  BY <1>1, <1>5 DEF IInv, Typed
<1>7. Latest'
  <2> SUFFICES ASSUME NEW n \in Machines, InRange(n)', lastId'[n] # -1
               PROVE  lastId'[n] = Value(n, lastStamp'[n] - StartStamp, LastSequence(n)')
    BY <1>1 DEF Latest, Value, config
  <2>1. CASE n = m
    BY <2>1, <1>1, <1>4 DEF IInv, Typed, InRange, LastSequence
  <2>2. CASE n # m
    BY <2>2, <1>1 DEF IInv, Typed, Latest, InRange, LastSequence
  <2>3. QED
    BY <2>1, <2>2
<1>8. ASSUME NEW n \in Machines, lastId'[n] # lastId[n], InRange(n)'
      PROVE  lastId'[n] > lastId[n]
  <2>1. n = m
    BY <1>1, <1>8 DEF IInv, Typed
  <2>2. t - StartStamp < StampSize /\ InRange(m)
    BY <1>1, <1>8, <2>1, SnowFlakeAssumption DEF IInv, Typed, InRange
  <2>3. lastId'[m] = Value(m, t - StartStamp, s)
    BY <1>1, <1>4, <2>2 DEF IInv, Typed
  <2>4. CASE lastId[m] = -1
    BY <1>3, <2>1, <2>3, <2>4
  <2>5. CASE lastId[m] = Value(m, lastStamp[m] - StartStamp, LastSequence(m))
    <3>1. CASE t > lastStamp[m]
      <4>1. lastStamp[m] - StartStamp < t - StartStamp
        BY <3>1, SnowFlakeAssumption DEF IInv, Typed
      <4>2. QED
        BY <1>1, <1>2, <2>1, <2>3, <2>5, <4>1, Later, ValueIsNat
    <3>2. CASE t = lastStamp[m] /\ s > LastSequence(m)
      <4> DEFINE u == ((t - StartStamp) * RoomSize + roomId[m]) * MachineSize + machineId[m]
      <4>1. u * SequenceSize \in Int
        <5>1. u \in Nat
          BY <1>1, <1>2, Upper
        <5> HIDE DEF u
        <5> QED
          BY <5>1, SnowFlakeAssumption
      <4>2. lastId'[m] = u * SequenceSize + s /\ lastId[m] = u * SequenceSize + LastSequence(m)
        BY <2>3, <2>5, <3>2 DEF Value
      <4>3. QED
        <5> HIDE DEF u
        <5> QED
          BY <1>2, <2>1, <3>2, <4>1, <4>2
    <3>3. QED
      BY <3>1, <3>2
  <2>6. QED
    BY <2>2, <2>4, <2>5 DEF IInv, Latest
<1>9. Numbered'
  BY <1>1 DEF Numbered, config
<1>10. QED
  BY <1>6, <1>7, <1>8, <1>9 DEF IInv

\* The masked successor of a sequence number.
LEMMA MaskedSuccessor == ASSUME NEW s \in 0 .. SequenceSize - 1
                         PROVE  (s + 1) % SequenceSize =
                                  IF s + 1 = SequenceSize THEN 0 ELSE s + 1
<1>1. CASE s + 1 = SequenceSize
  <2>1. SequenceSize % SequenceSize = 0
    BY SnowFlakeAssumption
  <2>2. QED
    BY <1>1, <2>1
<1>2. CASE s + 1 # SequenceSize
  BY <1>2, Remainder, SnowFlakeAssumption
<1>3. QED
  BY <1>1, <1>2

\* What every step of a machine keeps and never undoes.
Step == IInv' /\ \A n \in Machines :
                   lastId'[n] # lastId[n] /\ InRange(n)' => lastId'[n] > lastId[n]

\* The next id of the same millisecond: the sequence, and so the id, grows.
LEMMA SameMillisecondStep == ASSUME IInv, NEW m \in Machines, SameMillisecond(m) PROVE Step
<1>1. clock[m] \in Int /\ clock[m] >= StartStamp /\ clock[m] = lastStamp[m]
      /\ sequence[m] \in 0 .. SequenceSize - 1 /\ ~spinning[m]
  BY DEF IInv, Typed, SameMillisecond
<1>2. NextSequence(m) = sequence[m] + 1 /\ NextSequence(m) \in 0 .. SequenceSize - 1
  BY <1>1, MaskedSuccessor, SnowFlakeAssumption DEF SameMillisecond, NextSequence
<1>3. NextSequence(m) > LastSequence(m)
  BY <1>1, <1>2 DEF LastSequence
<1>4. QED
  BY <1>1, <1>2, <1>3, ReturnIInv DEF SameMillisecond, Step

\* The first id of a later millisecond: the timestamp grows.
LEMMA NextMillisecondStep == ASSUME IInv, NEW m \in Machines, NextMillisecond(m) PROVE Step
<1>1. clock[m] \in Int /\ clock[m] >= StartStamp /\ clock[m] > lastStamp[m]
      /\ 0 \in 0 .. SequenceSize - 1
  BY SnowFlakeAssumption DEF IInv, Typed, NextMillisecond
<1>2. QED
  BY <1>1, ReturnIInv DEF NextMillisecond, Step

\* A later millisecond, whose sequence starts with its parity (SnowFlake.java).
LEMMA NewMillisecondStep == ASSUME IInv, NEW m \in Machines, NewMillisecond(m) PROVE Step
<1>1. clock[m] \in Int /\ clock[m] >= StartStamp /\ clock[m] > lastStamp[m]
  BY DEF IInv, Typed, NewMillisecond
<1>2. clock[m] % 2 \in 0 .. SequenceSize - 1
  <2>1. clock[m] % 2 \in 0 .. 1
    BY <1>1
  <2>2. QED
    BY <2>1, SnowFlakeAssumption
<1>3. QED
  BY <1>1, <1>2, ReturnIInv DEF NewMillisecond, Step

\* A generator that runs out of sequence numbers spins, its last id the
\* millisecond's last.
LEMMA ExhaustedStep == ASSUME IInv, NEW m \in Machines, Exhausted(m) PROVE Step
<1>1. sequence[m] = SequenceSize - 1
  BY MaskedSuccessor, SnowFlakeAssumption DEF IInv, Typed, Exhausted, NextSequence
<1>2. Typed'
  BY SnowFlakeAssumption DEF IInv, Typed, Exhausted
<1>3. \A n \in Machines : LastSequence(n)' = LastSequence(n)
  <2> TAKE n \in Machines
  <2>1. CASE n = m
    BY <1>1, <2>1 DEF IInv, Typed, Exhausted, LastSequence
  <2>2. CASE n # m
    BY <2>2 DEF IInv, Typed, Exhausted, LastSequence
  <2>3. QED
    BY <2>1, <2>2
<1>4. lastId' = lastId /\ lastStamp' = lastStamp /\ UNCHANGED config
  BY DEF Exhausted
<1>5. Latest' /\ Numbered'
  BY <1>3, <1>4 DEF IInv, Latest, InRange, Value, Numbered, config
<1>6. QED
  BY <1>2, <1>4, <1>5 DEF IInv, Step

\* A refused call and the clocks leave the generator alone.
LEMMA OtherStep == ASSUME IInv, clock' \in [Machines -> Int],
                          \A m \in Machines : clock'[m] >= StartStamp,
                          UNCHANGED <<config, lastStamp, sequence, spinning, lastId>>
                   PROVE  Step
<1>1. Typed' /\ Latest' /\ Numbered'
  BY DEF IInv, Typed, Latest, InRange, LastSequence, Value, Numbered, config
<1>2. QED
  BY <1>1 DEF IInv, Step

\* Every step keeps the invariant, and the ids grow.
LEMMA NextStep == ASSUME IInv, [Next]_vars PROVE Step
<1>1. CASE UNCHANGED vars
  BY <1>1, OtherStep DEF vars, IInv, Typed
<1>2. ASSUME NEW m \in Machines, Refuse(m) PROVE Step
  BY <1>2, OtherStep DEF Refuse, IInv, Typed
<1>3. ASSUME NEW m \in Machines, ClockForward(m) PROVE Step
  <2>1. clock' \in [Machines -> Int] /\ \A n \in Machines : clock'[n] >= StartStamp
    BY <1>3, SnowFlakeAssumption DEF ClockForward, IInv, Typed
  <2>2. QED
    BY <1>3, <2>1, OtherStep DEF ClockForward
<1>4. ASSUME NEW m \in Machines, ClockBack(m) PROVE Step
  <2>1. clock' \in [Machines -> Int] /\ \A n \in Machines : clock'[n] >= StartStamp
    BY <1>4, SnowFlakeAssumption DEF ClockBack, IInv, Typed
  <2>2. QED
    BY <1>4, <2>1, OtherStep DEF ClockBack
<1>5. QED
  BY <1>1, <1>2, <1>3, <1>4, SameMillisecondStep, ExhaustedStep, NextMillisecondStep,
     NewMillisecondStep DEF Next

\* The generators' invariant holds, for all field sizes and machines.
LEMMA InvariantHolds == Spec => []IInv
<1>1. IInv /\ [Next]_vars => IInv'
  BY NextStep DEF Step
<1>2. QED
  BY <1>1, InitIInv, PTL DEF Spec

-----------------------------------------------------------------------------
(* Theorems *)

\* getNextSnowflakeId returns strictly increasing ids on every machine, as
\* long as the timestamps fit their bits.
THEOREM IdsIncrease == Spec => Increasing
<1>1. IInv /\ [Next]_vars =>
        [\A m \in Machines :
           lastId'[m] # lastId[m] /\ InRange(m)' => lastId'[m] > lastId[m]]_vars
  BY NextStep DEF Step
<1>2. QED
  BY <1>1, InvariantHolds, PTL DEF Spec, Increasing

\* No two machines return the same id, as long as the timestamps fit.
THEOREM IdsAreOwn == Spec => []((\A m \in Machines : InRange(m)) => OwnIds)
<1>1. IInv => ((\A m \in Machines : InRange(m)) => OwnIds)
  <2> SUFFICES ASSUME IInv, \A m \in Machines : InRange(m),
                      NEW m \in Machines, NEW n \in Machines,
                      lastId[m] # -1, lastId[n] # -1, lastId[m] = lastId[n]
               PROVE  m = n
    BY DEF OwnIds
  <2>1. /\ lastId[m] = Value(m, lastStamp[m] - StartStamp, LastSequence(m))
        /\ lastId[n] = Value(n, lastStamp[n] - StartStamp, LastSequence(n))
    BY DEF IInv, Latest
  <2>2. /\ lastStamp[m] - StartStamp \in Nat /\ lastStamp[n] - StartStamp \in Nat
        /\ LastSequence(m) \in 0 .. SequenceSize - 1
        /\ LastSequence(n) \in 0 .. SequenceSize - 1
    BY SnowFlakeAssumption DEF IInv, Typed, LastSequence
  <2>3. PICK t \in Nat, u \in Nat,
             x \in 0 .. SequenceSize - 1, y \in 0 .. SequenceSize - 1 :
          Value(m, t, x) = Value(n, u, y)
    BY <2>1, <2>2, lastId[m] = lastId[n]
  <2>4. QED
    BY <2>3, Distinct DEF IInv
<1>2. QED
  BY <1>1, InvariantHolds, PTL
=============================================================================
