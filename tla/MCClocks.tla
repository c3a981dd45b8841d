------------------------------ MODULE MCClocks ------------------------------
(* The two programs that live by the wall clock, for TLC.  They share       *)
(* nothing, so a behaviour is one of the limiters or one of the generators  *)
(* of ids, while the other program has just been started.                   *)
EXTENDS RateLimiters, SnowFlake

VARIABLE program
all == <<program, limiterVars, vars>>

Limiting   == program = "limiters" /\ LimitersNext /\ UNCHANGED <<program, vars>>
Generating == program = "generators" /\ Next /\ UNCHANGED <<program, limiterVars>>

\* The generators as they were started when only the limiters run.
Numbered == /\ roomId = [m \in Machines |-> 0]
            /\ machineId = CHOOSE number \in [Machines -> 0 .. MachineSize - 1] :
                             \A m, n \in Machines : number[m] = number[n] => m = n
            /\ clock = lastStamp

ClocksInit == /\ LimitersInit /\ Init
              /\ \/ program = "limiters" /\ Numbered
                 \/ program = "generators" /\ now = 0

ClocksSpec == ClocksInit /\ [][Limiting \/ Generating]_all
=============================================================================
