----------------------------- MODULE RemoteCalls -----------------------------
(***************************************************************************)
(* What a proxy of the RPC clients promises: a call is executed at most    *)
(* once, and it ends either with what its own execution gave or with an    *)
(* exception before it was ever sent.                                      *)
(***************************************************************************)
CONSTANTS Callers,
          Services,    \* what may be asked for
          Outcomes     \* Outcomes[s]: how a call of service s may end once executed

VARIABLES phase, service, outcome

Init == /\ phase = [t \in Callers |-> "idle"]
        /\ service \in [Callers -> Services]
        /\ outcome = [t \in Callers |-> "none"]

Call(t) == /\ phase[t] = "idle"
           /\ phase' = [phase EXCEPT ![t] = "called"]
           /\ \E s \in Services : service' = [service EXCEPT ![t] = s]
           /\ UNCHANGED outcome

Execute(t) == /\ phase[t] = "called"
              /\ phase' = [phase EXCEPT ![t] = "executed"]
              /\ UNCHANGED <<service, outcome>>

Return(t) == /\ phase[t] = "executed"
             /\ phase' = [phase EXCEPT ![t] = "idle"]
             /\ \E o \in Outcomes[service[t]] : outcome' = [outcome EXCEPT ![t] = o]
             /\ UNCHANGED service

\* No connection: the call was not sent.
Fail(t) == /\ phase[t] = "called"
           /\ phase' = [phase EXCEPT ![t] = "idle"]
           /\ outcome' = [outcome EXCEPT ![t] = "exception"]
           /\ UNCHANGED service

Next == \E t \in Callers : Call(t) \/ Execute(t) \/ Return(t) \/ Fail(t)

Spec == Init /\ [][Next]_<<phase, service, outcome>>
=============================================================================
