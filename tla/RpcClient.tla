------------------------------ MODULE RpcClient ------------------------------
(***************************************************************************)
(* The RPC clients over Netty with their server.  netty-demo sends a       *)
(* request and then registers its promise; nettyT registers first.  In     *)
(* both, the threads that call a proxy share one channel, opened by the    *)
(* first of them, and block until the channel's event loop has completed   *)
(* the promise.  The server answers on one event loop, in order.           *)
(***************************************************************************)
EXTENDS Naturals, Sequences, SequencesExt

CONSTANTS Threads, None,
          MaxCalls     \* bound: calls altogether

ASSUME RpcAssumption == None \notin Threads \cup {"open", "closed"} /\ MaxCalls \in Nat \ {0}

\* What the service does: it returns, throws with a message, throws without
\* one, or its class or method is not there.  netty-demo answers for an
\* interface without an implementation as for one that throws.
Services == {"returns", "throws", "throwsNull", "unknown"}

VARIABLES client,       \* the code that runs: "netty-demo" or "nettyT"
          channel,      \* None before, then "open", perhaps "closed" for good
          lockHolder,   \* of LOCK in getChannel
          nextId, promises,          \* the generator, the keys of PROMISES
          pc, sequenceId, service,   \* of each thread: its place and its call
          promise,      \* the promise of its call: "pending" or the outcome
          outcome,      \* how its last call ended
          requests, responses,       \* on the wire, in order
          executed,     \* auxiliary: the ids the server has served
          dropped,      \* auxiliary: the answers whose promise was missing
          connections   \* auxiliary: how many were opened

wire == <<requests, responses, executed>>
shared == <<channel, lockHolder, promises, dropped, connections>>
call == <<nextId, sequenceId, service, promise>>
vars == <<client, wire, shared, call, pc, outcome>>

Init == /\ client \in {"netty-demo", "nettyT"}
        /\ channel = None /\ lockHolder = None /\ connections = 0
        /\ nextId = 0 /\ promises = {} /\ dropped = {}
        /\ pc = [t \in Threads |-> "idle"]
        /\ sequenceId = [t \in Threads |-> 0]
        /\ service = [t \in Threads |-> "returns"]
        /\ promise = [t \in Threads |-> "pending"]
        /\ outcome = [t \in Threads |-> "none"]
        /\ requests = <<>> /\ responses = <<>> /\ executed = {}

Goto(t, from, to) == pc[t] = from /\ pc' = [pc EXCEPT ![t] = to]

\* Where a call goes once it has the channel, and once it has sent.
Ready == IF client = "nettyT" THEN "put" ELSE "send"
Sent == IF client = "nettyT" THEN "await" ELSE "put"

-----------------------------------------------------------------------------
(* A call of the proxy *)

Call(t) == /\ Goto(t, "idle", "getChannel") /\ nextId < MaxCalls
           /\ nextId' = nextId + 1
           /\ sequenceId' = [sequenceId EXCEPT ![t] = nextId + 1]
           /\ \E s \in Services : service' = [service EXCEPT ![t] = s]
           /\ promise' = [promise EXCEPT ![t] = "pending"]
           /\ UNCHANGED <<client, wire, shared, outcome>>

\* The first test of getChannel, outside the lock.
GetChannel(t) == /\ Goto(t, "getChannel", IF channel # None THEN Ready ELSE "lock")
                 /\ UNCHANGED <<client, wire, shared, call, outcome>>

Lock(t) == /\ Goto(t, "lock", "locked") /\ lockHolder = None
           /\ lockHolder' = t
           /\ UNCHANGED <<client, wire, channel, promises, dropped, connections, call, outcome>>

\* The second test: another thread opened the channel before.
Recheck(t) == /\ Goto(t, "locked", Ready) /\ channel # None
              /\ lockHolder' = None
              /\ UNCHANGED <<client, wire, channel, promises, dropped, connections, call, outcome>>

\* Mutant: every thread in the lock connects.
Connect_Always(t) == /\ Goto(t, "locked", Ready)
                     /\ channel' = "open" /\ connections' = connections + 1
                     /\ lockHolder' = None
                     /\ UNCHANGED <<client, wire, promises, dropped, call, outcome>>

Connect(t) == /\ Goto(t, "locked", Ready) /\ channel = None
              /\ channel' = "open" /\ connections' = connections + 1
              /\ lockHolder' = None
              /\ UNCHANGED <<client, wire, promises, dropped, call, outcome>>

\* No connection: the call ends with an exception (nettyT: as the channel is null).
ConnectFails(t) == /\ Goto(t, "locked", "idle") /\ channel = None
                   /\ outcome' = [outcome EXCEPT ![t] = "exception"]
                   /\ lockHolder' = None
                   /\ UNCHANGED <<client, wire, channel, promises, dropped, connections, call>>

\* writeAndFlush: on a closed channel it fails, and nobody hears of it.
Send(t) == /\ Goto(t, "send", Sent)
           /\ requests' = IF channel = "open"
                          THEN Append(requests, [id |-> sequenceId[t], service |-> service[t]])
                          ELSE requests
           /\ UNCHANGED <<client, responses, executed, shared, call, outcome>>

Register(t) == /\ Goto(t, "put", IF client = "nettyT" THEN "send" ELSE "await")
               /\ promises' = promises \cup {sequenceId[t]}
               /\ UNCHANGED <<client, wire, channel, lockHolder, dropped, connections, call, outcome>>

\* Mutant: await returns with whatever the promise holds.
Return_AnyTime(t) == /\ Goto(t, "await", "idle")
                     /\ outcome' = [outcome EXCEPT ![t] =
                                      IF promise[t] = "value" THEN "value" ELSE "exception"]
                     /\ UNCHANGED <<client, wire, shared, call>>

Return(t) == /\ Goto(t, "await", "idle") /\ promise[t] # "pending"
             /\ outcome' = [outcome EXCEPT ![t] = promise[t]]
             /\ UNCHANGED <<client, wire, shared, call>>

-----------------------------------------------------------------------------
(* The event loops *)

\* The server executes a request; a class or method it does not find throws in
\* the handler, outside of what is answered.
Serve == /\ requests # <<>>
         /\ requests' = Tail(requests)
         /\ executed' = executed \cup {Head(requests).id}
         /\ responses' = IF Head(requests).service = "unknown"
                         THEN responses ELSE Append(responses, Head(requests))
         /\ UNCHANGED <<client, shared, call, pc, outcome>>

\* What the handler makes of a response: nettyT tells an error by its message.
Completed(s) == IF s = "returns" \/ (s = "throwsNull" /\ client = "nettyT")
                THEN "value" ELSE "exception"

\* Mutant: a failure is logged and completes no promise.
ReadResponse_OnlySuccess ==
  LET r == Head(responses) IN
  /\ responses # <<>>
  /\ responses' = Tail(responses)
  /\ promises' = promises \ {r.id}
  /\ promise' = [t \in Threads |-> IF sequenceId[t] = r.id /\ Completed(r.service) = "value"
                                   THEN "value" ELSE promise[t]]
  /\ dropped' = IF r.id \in promises THEN dropped ELSE dropped \cup {r.id}
  /\ UNCHANGED <<client, requests, executed, channel, lockHolder, connections,
                 nextId, sequenceId, service, pc, outcome>>

\* The client's handler takes the promise out of the map and completes it;
\* without a promise it throws, and the answer is lost.
ReadResponse ==
  LET r == Head(responses) IN
  /\ responses # <<>>
  /\ responses' = Tail(responses)
  /\ promises' = promises \ {r.id}
  /\ promise' = [t \in Threads |-> IF sequenceId[t] = r.id /\ r.id \in promises
                                   THEN Completed(r.service) ELSE promise[t]]
  /\ dropped' = IF r.id \in promises THEN dropped ELSE dropped \cup {r.id}
  /\ UNCHANGED <<client, requests, executed, channel, lockHolder, connections,
                 nextId, sequenceId, service, pc, outcome>>

\* The connection breaks: what is on the wire is lost, the channel stays set.
Close == /\ channel = "open"
         /\ channel' = "closed"
         /\ requests' = <<>> /\ responses' = <<>>
         /\ UNCHANGED <<client, executed, lockHolder, promises, dropped, connections,
                        call, pc, outcome>>

Proxy(t) == \/ GetChannel(t) \/ Lock(t) \/ Recheck(t) \/ Connect(t) \/ ConnectFails(t)
            \/ Send(t) \/ Register(t) \/ Return(t)

Next == \/ \E t \in Threads : Call(t) \/ Proxy(t)
        \/ Serve \/ ReadResponse \/ Close

Spec == Init /\ [][Next]_vars

\* Threads and event loops run on; nobody has to call, and no connection has to break.
FairSpec == Spec /\ WF_vars(Serve) /\ WF_vars(ReadResponse)
                 /\ \A t \in Threads : WF_vars(Proxy(t))

-----------------------------------------------------------------------------
(* Properties *)

Ids == 1 .. MaxCalls
TypeOK == /\ client \in {"netty-demo", "nettyT"}
          /\ channel \in {None, "open", "closed"} /\ lockHolder \in Threads \cup {None}
          /\ nextId \in 0 .. MaxCalls /\ sequenceId \in [Threads -> 0 .. MaxCalls]
          /\ promises \subseteq Ids /\ executed \subseteq Ids /\ dropped \subseteq Ids
          /\ pc \in [Threads -> {"idle", "getChannel", "lock", "locked", "send", "put", "await"}]
          /\ service \in [Threads -> Services]
          /\ promise \in [Threads -> {"pending", "value", "exception"}]
          /\ outcome \in [Threads -> {"none", "value", "exception"}]
          /\ \A r \in ToSet(requests) \cup ToSet(responses) : r \in [id : Ids, service : Services]

\* All threads share one channel, however many ask for it at first.
OneConnection == connections <= 1

\* Only a call that has not returned keeps an entry in PROMISES.
OnlyPendingRegistered == \A id \in promises : \E t \in Threads : sequenceId[t] = id /\ pc[t] # "idle"

\* Every answer finds its promise ...
AnswersFindTheirPromise == dropped = {}

\* ... in nettyT, which registers it before the request is sent.
RegisteredInTime == client = "nettyT" => AnswersFindTheirPromise

\* What the calls share is in order: the channel, PROMISES and the answers.
AnswersInOrder == TypeOK /\ OneConnection /\ OnlyPendingRegistered /\ RegisteredInTime

\* How a call may end, by its service, and how far it has come.
Outcomes == [s \in Services |-> CASE s = "returns" -> {"value"}
                                  [] s = "throws" -> {"exception"}
                                  [] s = "throwsNull" -> {"value", "exception"}
                                  [] s = "unknown" -> {}]
phase == [t \in Threads |-> IF pc[t] = "idle" THEN "idle"
                            ELSE IF sequenceId[t] \in executed THEN "executed" ELSE "called"]

\* A call is executed at most once and ends with what its execution gave.
Remote == INSTANCE RemoteCalls WITH Callers <- Threads
ImplementsRemoteCalls == Remote!Spec

\* A call of nettyT returns, if the server knows the service and the
\* connection does not break.
CallsReturn == \A t \in Threads :
                 client = "nettyT" /\ pc[t] = "getChannel" /\ service[t] # "unknown"
                   ~> pc[t] = "idle" \/ channel = "closed"
=============================================================================
