------------------------------ MODULE SnowFlake ------------------------------
(***************************************************************************)
(* handTearing/snowflake/SnowFlake.java: generators of 64-bit ids on       *)
(* several machines, each with a clock of its own that may be set back,    *)
(* each called by one thread.  A field of b bits is given by its size 2^b. *)
(***************************************************************************)
EXTENDS Integers

CONSTANTS StampSize, RoomSize, MachineSize, SequenceSize,
          Machines,
          StartStamp, MaxTime  \* bound: the clocks show StartStamp .. MaxTime

ASSUME SnowFlakeAssumption ==
  /\ StampSize \in Nat \ {0} /\ RoomSize \in Nat \ {0} /\ MachineSize \in Nat \ {0}
  /\ SequenceSize \in Nat \ {0, 1}
  /\ StartStamp \in Nat /\ MaxTime \in Nat

VARIABLES roomId, machineId,      \* of each machine; no step changes them
          clock,                  \* System.currentTimeMillis() of each machine
          lastStamp, sequence,
          spinning,               \* the call waits for the next millisecond
          lastId,                 \* the id returned last, -1 before the first
          refused                 \* the last call threw the exception of a clock set back

config == <<roomId, machineId>>
vars == <<config, clock, lastStamp, sequence, spinning, lastId, refused>>

\* Whoever sets the machines up gives no two the same numbers.
Init == /\ roomId \in [Machines -> 0 .. RoomSize - 1]
        /\ machineId \in [Machines -> 0 .. MachineSize - 1]
        /\ \A m, n \in Machines : roomId[m] = roomId[n] /\ machineId[m] = machineId[n] => m = n
        /\ clock \in [Machines -> StartStamp .. MaxTime]
        /\ lastStamp = [m \in Machines |-> StartStamp]
        /\ sequence = [m \in Machines |-> 0]
        /\ spinning = [m \in Machines |-> FALSE]
        /\ lastId = [m \in Machines |-> -1]
        /\ refused = [m \in Machines |-> FALSE]

\* The bits below the sign.
Positive == StampSize * RoomSize * MachineSize * SequenceSize

\* A shifted value that leaves the 63 bits reaches the sign bit of the long.
Signed(id) == IF id % (2 * Positive) < Positive
              THEN id % (2 * Positive) ELSE (id % (2 * Positive)) - 2 * Positive

\* Mutant: the room is shifted as little as the machine.
Compose_SameShift(m, stamp, seq) ==
  Signed((stamp * RoomSize * MachineSize + roomId[m] + machineId[m]) * SequenceSize + seq)

\* The shifted fields joined by |: a sum, as each fits its bits.
Compose(m, stamp, seq) ==
  Signed(((stamp * RoomSize + roomId[m]) * MachineSize + machineId[m]) * SequenceSize + seq)

\* The rest of a call that has settled its millisecond and sequence number.
Return(m, timestamp, seq) ==
  /\ lastStamp' = [lastStamp EXCEPT ![m] = timestamp]
  /\ sequence' = [sequence EXCEPT ![m] = seq]
  /\ lastId' = [lastId EXCEPT ![m] = Compose(m, timestamp - StartStamp, seq)]
  /\ refused' = [refused EXCEPT ![m] = FALSE]
  /\ spinning' = [spinning EXCEPT ![m] = FALSE]
  /\ UNCHANGED <<config, clock>>

Refuse(m) == /\ ~spinning[m] /\ clock[m] < lastStamp[m]
             /\ refused' = [refused EXCEPT ![m] = TRUE]
             /\ UNCHANGED <<config, clock, lastStamp, sequence, spinning, lastId>>

NextSequence(m) == (sequence[m] + 1) % SequenceSize

SameMillisecond(m) == /\ ~spinning[m] /\ clock[m] = lastStamp[m]
                      /\ NextSequence(m) # 0
                      /\ Return(m, clock[m], NextSequence(m))

\* The sequence is used up.  lastStamp still holds the local timestamp.
Exhausted(m) == /\ ~spinning[m] /\ clock[m] = lastStamp[m]
                /\ NextSequence(m) = 0
                /\ sequence' = [sequence EXCEPT ![m] = 0]
                /\ spinning' = [spinning EXCEPT ![m] = TRUE]
                /\ UNCHANGED <<config, clock, lastStamp, lastId, refused>>

\* Mutant: the loop ends when the clock shows the same millisecond again.
NextMillisecond_Same(m) == /\ spinning[m] /\ clock[m] >= lastStamp[m]
                           /\ Return(m, clock[m], 0)

\* The loop ends when it reads a later millisecond.
NextMillisecond(m) == spinning[m] /\ clock[m] > lastStamp[m] /\ Return(m, clock[m], 0)

\* A new millisecond: the sequence starts with the parity of the timestamp.
NewMillisecond(m) == /\ ~spinning[m] /\ clock[m] > lastStamp[m]
                     /\ Return(m, clock[m], clock[m] % 2)

ClockForward(m) == /\ clock[m] < MaxTime
                   /\ clock' = [clock EXCEPT ![m] = @ + 1]
                   /\ UNCHANGED <<config, lastStamp, sequence, spinning, lastId, refused>>

ClockBack(m) == /\ \E t \in StartStamp .. clock[m] - 1 : clock' = [clock EXCEPT ![m] = t]
                /\ UNCHANGED <<config, lastStamp, sequence, spinning, lastId, refused>>

Next == \E m \in Machines :
          \/ Refuse(m) \/ SameMillisecond(m) \/ Exhausted(m)
          \/ NextMillisecond(m) \/ NewMillisecond(m)
          \/ ClockForward(m) \/ ClockBack(m)

Spec == Init /\ [][Next]_vars

-----------------------------------------------------------------------------
(* Properties *)

\* While the timestamp fits its bits, the ids of a machine strictly increase,
\* whatever its clock does: with OwnIds, no id is ever given out twice.
InRange(m) == lastStamp[m] - StartStamp < StampSize
Increasing == [][\A m \in Machines :
                   lastId'[m] # lastId[m] /\ InRange(m)' => lastId'[m] > lastId[m]]_vars

\* Two machines never have the same id, however their clocks differ.
OwnIds == \A m, n \in Machines :
            m # n /\ lastId[m] # -1 /\ lastId[n] # -1 => lastId[m] # lastId[n]
=============================================================================
