--------------------------- MODULE RpcClientProofs ---------------------------
(***************************************************************************)
(* What the calls of a proxy share stays in order, for any number of       *)
(* threads and calls, also when the connection breaks: one channel is      *)
(* opened, PROMISES holds calls under way only, and every answer of nettyT *)
(* finds its promise.  The argument is that an id is in one place at a     *)
(* time: of one call, at most once on the wire, not before it is sent; and *)
(* that a registered id leaves PROMISES only with its answer.              *)
(***************************************************************************)
EXTENDS RpcClient, TLAPS

Request == [id : Ids, service : Services]

\* A message with this id is among those of s; no two of them share one.
On(s, id) == \E i \in 1 .. Len(s) : s[i].id = id
Apart(s) == \A i, j \in 1 .. Len(s) : s[i].id = s[j].id => i = j

OnWire(id) == On(requests, id) \/ On(responses, id)

\* Before the promise is registered, and before the request is sent.
Unregistered(t) == \/ pc[t] \in {"getChannel", "lock", "locked", "put"}
                   \/ client = "netty-demo" /\ pc[t] = "send"
Unsent(t) == \/ pc[t] \in {"getChannel", "lock", "locked", "send"}
             \/ client = "nettyT" /\ pc[t] = "put"

Typed == /\ TypeOK /\ connections \in Nat
         /\ requests \in Seq(Request) /\ responses \in Seq(Request)

OneChannel == IF channel = None THEN connections = 0 ELSE connections = 1

\* The generator gives every call an id of its own.
Numbered == /\ \A t \in Threads : sequenceId[t] <= nextId /\ (pc[t] # "idle" => sequenceId[t] > 0)
            /\ \A t, u \in Threads : t # u /\ sequenceId[t] = sequenceId[u] => sequenceId[t] = 0
            /\ \A id \in Ids : id \in promises \/ OnWire(id) => id <= nextId

\* No id is on the wire twice.
WireApart == /\ Apart(requests) /\ Apart(responses)
             /\ \A id \in Ids : ~(On(requests, id) /\ On(responses, id))

\* What a call has not done yet has not happened; a completed one is registered no more.
InStep == \A t \in Threads :
            /\ Unregistered(t) => sequenceId[t] \notin promises /\ promise[t] = "pending"
            /\ Unsent(t) => ~OnWire(sequenceId[t])
            /\ pc[t] # "idle" /\ promise[t] # "pending" => sequenceId[t] \notin promises

\* nettyT registers first: what is on the wire has its promise.
Awaited == client = "nettyT" =>
             /\ dropped = {}
             /\ \A id \in Ids : OnWire(id) => id \in promises
             /\ \A t \in Threads : pc[t] = "send" => sequenceId[t] \in promises

IInv == Typed /\ OneChannel /\ Numbered /\ WireApart /\ InStep /\ OnlyPendingRegistered /\ Awaited

-----------------------------------------------------------------------------
(* Messages in order *)

\* A queue without its first message.
LEMMA Shorter == ASSUME NEW s \in Seq(Request), s # <<>>, Apart(s)
                 PROVE  /\ Tail(s) \in Seq(Request) /\ Head(s) \in Request /\ Apart(Tail(s))
                        /\ On(s, Head(s).id) /\ ~On(Tail(s), Head(s).id)
                        /\ \A id : On(Tail(s), id) => On(s, id)
<1>1. Len(s) >= 1 /\ Head(s) = s[1] /\ Head(s) \in Request /\ Tail(s) \in Seq(Request)
  OBVIOUS
<1>2. Len(Tail(s)) = Len(s) - 1 /\ \A i \in 1 .. Len(s) - 1 : Tail(s)[i] = s[i + 1]
  OBVIOUS
<1>3. \A i \in 1 .. Len(s) - 1 : i + 1 \in 1 .. Len(s) /\ i + 1 # 1
  BY <1>1
<1>4. Apart(Tail(s))
  BY <1>1, <1>2, <1>3 DEF Apart
<1>5. On(s, Head(s).id) /\ ~On(Tail(s), Head(s).id)
  BY <1>1, <1>2, <1>3 DEF On, Apart
<1>6. \A id : On(Tail(s), id) => On(s, id)
  BY <1>1, <1>2, <1>3 DEF On
<1>7. QED
  BY <1>1, <1>4, <1>5, <1>6

\* A queue with one more message.
LEMMA Longer == ASSUME NEW s \in Seq(Request), NEW r \in Request, Apart(s), ~On(s, r.id)
                PROVE  /\ Append(s, r) \in Seq(Request) /\ Apart(Append(s, r))
                       /\ \A id : On(Append(s, r), id) <=> On(s, id) \/ id = r.id
<1> DEFINE a == Append(s, r)
<1>1. a \in Seq(Request) /\ Len(a) = Len(s) + 1 /\ Len(s) \in Nat
  OBVIOUS
<1>2. a[Len(s) + 1] = r /\ \A i \in 1 .. Len(s) : a[i] = s[i]
  OBVIOUS
<1> HIDE DEF a
<1>3. \A i \in 1 .. Len(a) : i \in 1 .. Len(s) \/ i = Len(s) + 1
  BY <1>1
<1>4. Apart(a)
  BY <1>1, <1>2, <1>3 DEF Apart, On
<1>5. \A id : On(a, id) <=> On(s, id) \/ id = r.id
  BY <1>1, <1>2, <1>3 DEF On
<1>6. QED
  BY <1>1, <1>4, <1>5 DEF a

\* No message.
LEMMA Empty == /\ <<>> \in Seq(Request) /\ Apart(<<>>) /\ \A id : ~On(<<>>, id)
  BY DEF Apart, On

\* What is in a queue of requests is a request.
LEMMA Elements == ASSUME NEW s \in Seq(Request) PROVE \A r \in ToSet(s) : r \in Request
  BY DEF ToSet

-----------------------------------------------------------------------------
(* The steps *)

\* Nothing is open, sent or registered at first.
LEMMA InitHolds == Init => IInv
<1> SUFFICES ASSUME Init PROVE IInv
  OBVIOUS
<1> USE RpcAssumption DEF Init
<1>1. Typed
  <2>1. requests \in Seq(Request) /\ responses \in Seq(Request)
    BY Empty
  <2>2. \A r \in ToSet(requests) \cup ToSet(responses) : r \in [id : Ids, service : Services]
    BY <2>1, Elements DEF Request
  <2>3. QED
    BY <2>1, <2>2 DEF Typed, TypeOK, Services
<1>2. OneChannel /\ Numbered /\ WireApart /\ OnlyPendingRegistered
  BY Empty DEF OneChannel, Numbered, WireApart, OnlyPendingRegistered, OnWire
<1>3. InStep /\ Awaited
  BY Empty DEF InStep, Awaited, Unregistered, Unsent, OnWire
<1>4. QED
  BY <1>1, <1>2, <1>3 DEF IInv

\* Sending adds the id of the call, which is not on the wire.
LEMMA SendMoves == ASSUME IInv, NEW t \in Threads, Send(t)
                   PROVE  /\ sequenceId[t] \in Ids /\ ~OnWire(sequenceId[t])
                          /\ requests' \in Seq(Request) /\ Apart(requests') /\ responses' = responses
                          /\ \A id : On(requests', id) => On(requests, id) \/ id = sequenceId[t]
<1> DEFINE r == [id |-> sequenceId[t], service |-> service[t]]
<1>1. pc[t] = "send"
  BY DEF Send, Goto
<1>2. sequenceId[t] \in 0 .. MaxCalls /\ service[t] \in Services
  BY DEF IInv, Typed, TypeOK
<1>a. sequenceId[t] > 0
  BY <1>1 DEF IInv, Numbered
<1>3. r \in Request /\ r.id = sequenceId[t] /\ sequenceId[t] \in Ids
  BY <1>2, <1>a, RpcAssumption DEF Request, Ids
<1>4. ~OnWire(sequenceId[t])
  BY <1>1 DEF IInv, InStep, Unsent
<1>5. requests \in Seq(Request) /\ Apart(requests) /\ ~On(requests, r.id)
  BY <1>3, <1>4 DEF IInv, Typed, WireApart, OnWire
<1>6. requests' \in {requests, Append(requests, r)} /\ responses' = responses
  BY DEF Send
<1> HIDE DEF r
<1>7. QED
  BY <1>3, <1>4, <1>5, <1>6, Longer

\* Serving moves an id from one queue to the other, or takes it off the wire.
LEMMA ServeMoves == ASSUME IInv, Serve
                    PROVE  /\ Head(requests).id \in Ids
                           /\ requests' \in Seq(Request) /\ Apart(requests')
                           /\ responses' \in Seq(Request) /\ Apart(responses')
                           /\ \A id \in Ids : ~(On(requests', id) /\ On(responses', id))
                           /\ \A id : On(requests', id) \/ On(responses', id) => OnWire(id)
<1> DEFINE r == Head(requests)
<1>1. requests \in Seq(Request) /\ requests # <<>> /\ Apart(requests) /\ responses \in Seq(Request) /\ Apart(responses)
  BY DEF IInv, Typed, WireApart, Serve
<1>2. requests' = Tail(requests) /\ responses' \in {responses, Append(responses, r)}
  BY DEF Serve
<1>3. r \in Request /\ r.id \in Ids
  BY <1>1, Shorter DEF Request
<1>4. On(requests, r.id) /\ ~On(requests', r.id) /\ requests' \in Seq(Request) /\ Apart(requests')
  BY <1>1, <1>2, Shorter
<1>5. \A id : On(requests', id) => On(requests, id)
  BY <1>1, <1>2, Shorter
<1>6. ~On(responses, r.id)
  BY <1>3, <1>4 DEF IInv, WireApart
<1> HIDE DEF r
<1>7. /\ responses' \in Seq(Request) /\ Apart(responses')
      /\ \A id : On(responses', id) => On(responses, id) \/ id = r.id
  BY <1>1, <1>2, <1>3, <1>6, Longer
<1>8. \A id \in Ids : ~(On(requests', id) /\ On(responses', id))
  BY <1>4, <1>5, <1>7 DEF IInv, WireApart
<1>9. QED
  BY <1>3, <1>4, <1>5, <1>7, <1>8 DEF OnWire, r

\* Reading takes the id of the answer off the wire.
LEMMA ReadMoves == ASSUME IInv, ReadResponse
                   PROVE  /\ Head(responses).id \in Ids /\ OnWire(Head(responses).id)
                          /\ requests' = requests
                          /\ responses' \in Seq(Request) /\ Apart(responses')
                          /\ \A id : On(responses', id) => On(responses, id)
                          /\ ~On(requests', Head(responses).id) /\ ~On(responses', Head(responses).id)
<1> DEFINE r == Head(responses)
<1>1. responses \in Seq(Request) /\ responses # <<>> /\ Apart(responses)
  BY DEF IInv, Typed, WireApart, ReadResponse
<1>2. requests' = requests /\ responses' = Tail(responses)
  BY DEF ReadResponse
<1>3. r \in Request /\ r.id \in Ids /\ On(responses, r.id) /\ ~On(responses', r.id)
  BY <1>1, <1>2, Shorter DEF Request
<1>4. ~On(requests, r.id)
  BY <1>3 DEF IInv, WireApart
<1>5. QED
  BY <1>1, <1>2, <1>3, <1>4, Shorter DEF OnWire

\* Ids, places and messages are what they are declared to be.
LEMMA TypedStays == IInv /\ [Next]_vars => Typed'
<1> SUFFICES ASSUME IInv, [Next]_vars PROVE Typed'
  OBVIOUS
<1> USE RpcAssumption DEF IInv, Typed, TypeOK, Services, Ids
<1>1. ASSUME NEW t \in Threads, Call(t) PROVE Typed'
  BY <1>1 DEF Call, Goto, call, shared, wire
<1>2. ASSUME NEW t \in Threads, GetChannel(t) PROVE Typed'
  BY <1>2 DEF GetChannel, Goto, call, shared, wire, Ready
<1>3. ASSUME NEW t \in Threads, Lock(t) PROVE Typed'
  BY <1>3 DEF Lock, Goto, call, shared, wire
<1>4. ASSUME NEW t \in Threads, Recheck(t) PROVE Typed'
  BY <1>4 DEF Recheck, Goto, call, shared, wire, Ready
<1>5. ASSUME NEW t \in Threads, Connect(t) PROVE Typed'
  BY <1>5 DEF Connect, Goto, call, shared, wire, Ready
<1>6. ASSUME NEW t \in Threads, ConnectFails(t) PROVE Typed'
  BY <1>6 DEF ConnectFails, Goto, call, shared, wire
<1>7. ASSUME NEW t \in Threads, Send(t) PROVE Typed'
  <2>2. requests' \in Seq(Request) /\ responses' \in Seq(Request)
    BY <1>7, SendMoves
  <2>3. \A r \in ToSet(requests') \cup ToSet(responses') : r \in [id : Ids, service : Services]
    BY <2>2, Elements DEF Request
  <2>4. QED
    BY <1>7, <2>2, <2>3 DEF Send, Sent, Goto, call, shared
<1>8. ASSUME NEW t \in Threads, Register(t) PROVE Typed'
  <2>1. sequenceId[t] \in Ids
    <3>1. pc[t] = "put"
      BY <1>8 DEF Register, Goto
    <3>2. sequenceId[t] > 0
      BY <3>1 DEF Numbered
    <3>3. QED
      BY <3>2
  <2>2. QED
    BY <1>8, <2>1 DEF Register, Goto, call, wire
<1>9. ASSUME NEW t \in Threads, Return(t) PROVE Typed'
  BY <1>9 DEF Return, Goto, call, shared, wire
<1>10. CASE Serve
  <2>1. Tail(requests) \in Seq(Request) /\ Head(requests) \in Request
    BY <1>10, Shorter DEF Serve, WireApart
  <2>2. requests' \in Seq(Request) /\ responses' \in Seq(Request)
    BY <1>10, <2>1 DEF Serve
  <2>3. \A r \in ToSet(requests') \cup ToSet(responses') : r \in [id : Ids, service : Services]
    BY <2>2, Elements DEF Request
  <2>4. Head(requests).id \in Ids
    BY <2>1 DEF Request
  <2>5. QED
    BY <1>10, <2>2, <2>3, <2>4 DEF Serve, call, shared
<1>11. CASE ReadResponse
  <2>1. Tail(responses) \in Seq(Request) /\ Head(responses) \in Request
    BY <1>11, Shorter DEF ReadResponse, WireApart
  <2>2. requests' \in Seq(Request) /\ responses' \in Seq(Request)
    BY <1>11, <2>1 DEF ReadResponse
  <2>3. \A r \in ToSet(requests') \cup ToSet(responses') : r \in [id : Ids, service : Services]
    BY <2>2, Elements DEF Request
  <2>4. Head(responses).id \in Ids
    BY <2>1 DEF Request
  <2>5. promise' \in [Threads -> {"pending", "value", "exception"}]
    BY <1>11 DEF ReadResponse, Completed
  <2>6. QED
    BY <1>11, <2>2, <2>3, <2>4, <2>5 DEF ReadResponse
<1>12. CASE Close
  <2>1. requests' \in Seq(Request) /\ responses' \in Seq(Request)
    BY <1>12, Empty DEF Close
  <2>2. \A r \in ToSet(requests') \cup ToSet(responses') : r \in [id : Ids, service : Services]
    BY <2>1, Elements DEF Request
  <2>3. QED
    BY <1>12, <2>1, <2>2 DEF Close, call
<1>13. CASE UNCHANGED vars
  BY <1>13 DEF vars, call, shared, wire
<1>14. QED
  BY <1>1, <1>2, <1>3, <1>4, <1>5, <1>6, <1>7, <1>8, <1>9, <1>10, <1>11, <1>12, <1>13 DEF Next, Proxy

\* A channel is opened only where there is none, and stays set when it breaks.
LEMMA OneChannelStays == IInv /\ [Next]_vars => OneChannel'
<1> SUFFICES ASSUME IInv, [Next]_vars PROVE OneChannel'
  OBVIOUS
<1> USE RpcAssumption DEF IInv, OneChannel
<1>1. ASSUME NEW t \in Threads, Call(t) PROVE OneChannel'
  BY <1>1 DEF Call, Goto, call, shared, wire
<1>2. ASSUME NEW t \in Threads, GetChannel(t) PROVE OneChannel'
  BY <1>2 DEF GetChannel, Goto, call, shared, wire, Ready
<1>3. ASSUME NEW t \in Threads, Lock(t) PROVE OneChannel'
  BY <1>3 DEF Lock, Goto, call, shared, wire
<1>4. ASSUME NEW t \in Threads, Recheck(t) PROVE OneChannel'
  BY <1>4 DEF Recheck, Goto, call, shared, wire, Ready
<1>5. ASSUME NEW t \in Threads, Connect(t) PROVE OneChannel'
  BY <1>5 DEF Connect, Goto, call, shared, wire, Ready
<1>6. ASSUME NEW t \in Threads, ConnectFails(t) PROVE OneChannel'
  BY <1>6 DEF ConnectFails, Goto, call, shared, wire
<1>7. ASSUME NEW t \in Threads, Send(t) PROVE OneChannel'
  BY <1>7 DEF Send, Goto, call, shared, wire, Sent
<1>8. ASSUME NEW t \in Threads, Register(t) PROVE OneChannel'
  BY <1>8 DEF Register, Goto, call, shared, wire
<1>9. ASSUME NEW t \in Threads, Return(t) PROVE OneChannel'
  BY <1>9 DEF Return, Goto, call, shared, wire
<1>10. CASE Serve
  BY <1>10 DEF Serve, call, shared, wire
<1>11. CASE ReadResponse
  BY <1>11 DEF ReadResponse, call, shared, wire, Completed
<1>12. CASE Close
  BY <1>12 DEF Close, call, shared, wire
<1>13. CASE UNCHANGED vars
  BY <1>13 DEF vars, call, shared, wire
<1>14. QED
  BY <1>1, <1>2, <1>3, <1>4, <1>5, <1>6, <1>7, <1>8, <1>9, <1>10, <1>11, <1>12, <1>13 DEF Next, Proxy

\* A new call takes the next id, which nobody has; Append and Tail move ids only.
LEMMA NumberedStays == IInv /\ [Next]_vars => Numbered'
<1> SUFFICES ASSUME IInv, [Next]_vars PROVE Numbered'
  OBVIOUS
<1> USE RpcAssumption DEF IInv, Typed, TypeOK, Numbered, Ids, OnWire
<1>1. ASSUME NEW t \in Threads, Call(t) PROVE Numbered'
  BY <1>1 DEF Call, Goto, call, shared, wire
<1>2. ASSUME NEW t \in Threads, GetChannel(t) PROVE Numbered'
  BY <1>2 DEF GetChannel, Goto, call, shared, wire, Ready
<1>3. ASSUME NEW t \in Threads, Lock(t) PROVE Numbered'
  BY <1>3 DEF Lock, Goto, call, shared, wire
<1>4. ASSUME NEW t \in Threads, Recheck(t) PROVE Numbered'
  BY <1>4 DEF Recheck, Goto, call, shared, wire, Ready
<1>5. ASSUME NEW t \in Threads, Connect(t) PROVE Numbered'
  BY <1>5 DEF Connect, Goto, call, shared, wire, Ready
<1>6. ASSUME NEW t \in Threads, ConnectFails(t) PROVE Numbered'
  BY <1>6 DEF ConnectFails, Goto, call, shared, wire
<1>7. ASSUME NEW t \in Threads, Send(t) PROVE Numbered'
  BY <1>7, SendMoves DEF Send, Goto, Sent, call, shared
<1>8. ASSUME NEW t \in Threads, Register(t) PROVE Numbered'
  BY <1>8 DEF Register, Goto, call, shared, wire
<1>9. ASSUME NEW t \in Threads, Return(t) PROVE Numbered'
  BY <1>9 DEF Return, Goto, call, shared, wire
<1>10. CASE Serve
  BY <1>10, ServeMoves DEF Serve, call, shared
<1>11. CASE ReadResponse
  BY <1>11, ReadMoves DEF ReadResponse
<1>12. CASE Close
  BY <1>12, Empty DEF Close, call
<1>13. CASE UNCHANGED vars
  BY <1>13 DEF vars, call, shared, wire
<1>14. QED
  BY <1>1, <1>2, <1>3, <1>4, <1>5, <1>6, <1>7, <1>8, <1>9, <1>10, <1>11, <1>12, <1>13 DEF Next, Proxy

\* A request is sent once, and leaves the one queue when it joins the other.
LEMMA WireApartStays == IInv /\ [Next]_vars => WireApart'
<1> SUFFICES ASSUME IInv, [Next]_vars PROVE WireApart'
  OBVIOUS
<1> USE DEF IInv, Typed, WireApart
<1>1. ASSUME NEW t \in Threads, Call(t) PROVE WireApart'
  BY <1>1 DEF Call, Goto, call, shared, wire
<1>2. ASSUME NEW t \in Threads, GetChannel(t) PROVE WireApart'
  BY <1>2 DEF GetChannel, Goto, call, shared, wire, Ready
<1>3. ASSUME NEW t \in Threads, Lock(t) PROVE WireApart'
  BY <1>3 DEF Lock, Goto, call, shared, wire
<1>4. ASSUME NEW t \in Threads, Recheck(t) PROVE WireApart'
  BY <1>4 DEF Recheck, Goto, call, shared, wire, Ready
<1>5. ASSUME NEW t \in Threads, Connect(t) PROVE WireApart'
  BY <1>5 DEF Connect, Goto, call, shared, wire, Ready
<1>6. ASSUME NEW t \in Threads, ConnectFails(t) PROVE WireApart'
  BY <1>6 DEF ConnectFails, Goto, call, shared, wire
<1>7. ASSUME NEW t \in Threads, Send(t) PROVE WireApart'
  BY <1>7, SendMoves DEF OnWire
<1>8. ASSUME NEW t \in Threads, Register(t) PROVE WireApart'
  BY <1>8 DEF Register, Goto, call, shared, wire
<1>9. ASSUME NEW t \in Threads, Return(t) PROVE WireApart'
  BY <1>9 DEF Return, Goto, call, shared, wire
<1>10. CASE Serve
  BY <1>10, ServeMoves
<1>11. CASE ReadResponse
  BY <1>11, ReadMoves
<1>12. CASE Close
  BY <1>12, Empty DEF Close
<1>13. CASE UNCHANGED vars
  BY <1>13 DEF vars, call, shared, wire
<1>14. QED
  BY <1>1, <1>2, <1>3, <1>4, <1>5, <1>6, <1>7, <1>8, <1>9, <1>10, <1>11, <1>12, <1>13 DEF Next, Proxy

\* Registering, sending and completing are done by one step each.
LEMMA InStepStays == IInv /\ [Next]_vars => InStep'
<1> SUFFICES ASSUME IInv, [Next]_vars PROVE InStep'
  OBVIOUS
<1> USE RpcAssumption DEF IInv, Typed, TypeOK, InStep, Unregistered, Unsent, OnWire
<1>1. ASSUME NEW t \in Threads, Call(t) PROVE InStep'
  <2>1. nextId + 1 \in Ids /\ nextId + 1 \notin promises /\ ~OnWire(nextId + 1)
    BY <1>1 DEF Call, Numbered, Ids
  <2>2. QED
    BY <1>1, <2>1 DEF Call, Goto, wire, shared
<1>2. ASSUME NEW t \in Threads, GetChannel(t) PROVE InStep'
  BY <1>2 DEF GetChannel, Goto, call, shared, wire, Ready
<1>3. ASSUME NEW t \in Threads, Lock(t) PROVE InStep'
  BY <1>3 DEF Lock, Goto, call, shared, wire
<1>4. ASSUME NEW t \in Threads, Recheck(t) PROVE InStep'
  BY <1>4 DEF Recheck, Goto, call, shared, wire, Ready
<1>5. ASSUME NEW t \in Threads, Connect(t) PROVE InStep'
  BY <1>5 DEF Connect, Goto, call, shared, wire, Ready
<1>6. ASSUME NEW t \in Threads, ConnectFails(t) PROVE InStep'
  BY <1>6 DEF ConnectFails, Goto, call, shared, wire
<1>7. ASSUME NEW t \in Threads, Send(t) PROVE InStep'
  <2>1. \A u \in Threads : u # t => sequenceId[u] # sequenceId[t]
    BY <1>7, SendMoves DEF Numbered, Ids
  <2>2. QED
    BY <1>7, <2>1, SendMoves DEF Send, Goto, Sent, call, shared
<1>8. ASSUME NEW t \in Threads, Register(t) PROVE InStep'
  <2>a. sequenceId[t] \in Nat /\ sequenceId[t] > 0
    BY <1>8 DEF Register, Goto, Numbered
  <2>1. \A u \in Threads : u # t => sequenceId[u] # sequenceId[t]
    BY <2>a DEF Numbered
  <2>2. QED
    BY <1>8, <2>1 DEF Register, Goto, call, wire
<1>9. ASSUME NEW t \in Threads, Return(t) PROVE InStep'
  BY <1>9 DEF Return, Goto, call, shared, wire
<1>10. CASE Serve
  BY <1>10, ServeMoves DEF Serve, call, shared
<1>11. CASE ReadResponse
  BY <1>11, ReadMoves DEF ReadResponse, Completed
<1>12. CASE Close
  BY <1>12, Empty DEF Close, call
<1>13. CASE UNCHANGED vars
  BY <1>13 DEF vars, call, shared, wire
<1>14. QED
  BY <1>1, <1>2, <1>3, <1>4, <1>5, <1>6, <1>7, <1>8, <1>9, <1>10, <1>11, <1>12, <1>13 DEF Next, Proxy

\* A call returns when its promise was taken out and completed.
LEMMA OwnedStays == IInv /\ [Next]_vars => OnlyPendingRegistered'
<1> SUFFICES ASSUME IInv, [Next]_vars PROVE OnlyPendingRegistered'
  OBVIOUS
<1> USE RpcAssumption DEF IInv, Typed, TypeOK, OnlyPendingRegistered
<1>1. ASSUME NEW t \in Threads, Call(t) PROVE OnlyPendingRegistered'
  BY <1>1 DEF Call, Goto, call, shared, wire
<1>2. ASSUME NEW t \in Threads, GetChannel(t) PROVE OnlyPendingRegistered'
  BY <1>2 DEF GetChannel, Goto, call, shared, wire, Ready
<1>3. ASSUME NEW t \in Threads, Lock(t) PROVE OnlyPendingRegistered'
  BY <1>3 DEF Lock, Goto, call, shared, wire
<1>4. ASSUME NEW t \in Threads, Recheck(t) PROVE OnlyPendingRegistered'
  BY <1>4 DEF Recheck, Goto, call, shared, wire, Ready
<1>5. ASSUME NEW t \in Threads, Connect(t) PROVE OnlyPendingRegistered'
  BY <1>5 DEF Connect, Goto, call, shared, wire, Ready
<1>6. ASSUME NEW t \in Threads, ConnectFails(t) PROVE OnlyPendingRegistered'
  BY <1>6 DEF ConnectFails, Goto, call, InStep, Unregistered
<1>7. ASSUME NEW t \in Threads, Send(t) PROVE OnlyPendingRegistered'
  BY <1>7 DEF Send, Goto, call, shared, wire, Sent
<1>8. ASSUME NEW t \in Threads, Register(t) PROVE OnlyPendingRegistered'
  BY <1>8 DEF Register, Goto, call, shared, wire
<1>9. ASSUME NEW t \in Threads, Return(t) PROVE OnlyPendingRegistered'
  BY <1>9 DEF Return, Goto, call, shared, InStep
<1>10. CASE Serve
  BY <1>10 DEF Serve, call, shared, wire
<1>11. CASE ReadResponse
  BY <1>11 DEF ReadResponse, call, shared, wire, Completed
<1>12. CASE Close
  BY <1>12 DEF Close, call, shared, wire
<1>13. CASE UNCHANGED vars
  BY <1>13 DEF vars, call, shared, wire
<1>14. QED
  BY <1>1, <1>2, <1>3, <1>4, <1>5, <1>6, <1>7, <1>8, <1>9, <1>10, <1>11, <1>12, <1>13 DEF Next, Proxy

\* The answer that is read is the only message with its id.
LEMMA AwaitedStays == IInv /\ [Next]_vars => Awaited'
<1> SUFFICES ASSUME IInv, [Next]_vars PROVE Awaited'
  OBVIOUS
<1> USE RpcAssumption DEF IInv, Typed, TypeOK, Awaited, OnWire
<1>1. ASSUME NEW t \in Threads, Call(t) PROVE Awaited'
  BY <1>1 DEF Call, Goto, call, shared, wire
<1>2. ASSUME NEW t \in Threads, GetChannel(t) PROVE Awaited'
  BY <1>2 DEF GetChannel, Goto, call, shared, wire, Ready
<1>3. ASSUME NEW t \in Threads, Lock(t) PROVE Awaited'
  BY <1>3 DEF Lock, Goto, call, shared, wire
<1>4. ASSUME NEW t \in Threads, Recheck(t) PROVE Awaited'
  BY <1>4 DEF Recheck, Goto, call, shared, wire, Ready
<1>5. ASSUME NEW t \in Threads, Connect(t) PROVE Awaited'
  BY <1>5 DEF Connect, Goto, call, shared, wire, Ready
<1>6. ASSUME NEW t \in Threads, ConnectFails(t) PROVE Awaited'
  BY <1>6 DEF ConnectFails, Goto, call, shared, wire
<1>7. ASSUME NEW t \in Threads, Send(t) PROVE Awaited'
  BY <1>7, SendMoves DEF Send, Goto, Sent, call, shared
<1>8. ASSUME NEW t \in Threads, Register(t) PROVE Awaited'
  BY <1>8 DEF Register, Goto, call, shared, wire
<1>9. ASSUME NEW t \in Threads, Return(t) PROVE Awaited'
  BY <1>9 DEF Return, Goto, call, shared, wire
<1>10. CASE Serve
  BY <1>10, ServeMoves DEF Serve, call, shared
<1>11. CASE ReadResponse
  BY <1>11, ReadMoves DEF ReadResponse, InStep, Unsent
<1>12. CASE Close
  BY <1>12, Empty DEF Close, call
<1>13. CASE UNCHANGED vars
  BY <1>13 DEF vars, call, shared, wire
<1>14. QED
  BY <1>1, <1>2, <1>3, <1>4, <1>5, <1>6, <1>7, <1>8, <1>9, <1>10, <1>11, <1>12, <1>13 DEF Next, Proxy

\* Every step of the clients and the server keeps the invariant.
LEMMA Inductive == IInv /\ [Next]_vars => IInv'
  BY TypedStays, OneChannelStays, NumberedStays, WireApartStays, InStepStays, OwnedStays, AwaitedStays
     DEF IInv

\* The invariant holds in all states of the clients and the server.
LEMMA Invariant == Spec => []IInv
  BY InitHolds, Inductive, PTL DEF Spec

-----------------------------------------------------------------------------
\* However many threads call, and in whatever order they run, they share one
\* channel, only calls under way are registered, and nettyT loses no answer.
THEOREM AnswersStayInOrder == Spec => []AnswersInOrder
<1>1. IInv => OneConnection /\ OnlyPendingRegistered /\ RegisteredInTime
  BY DEF IInv, OneChannel, OneConnection, Awaited, RegisteredInTime, AnswersFindTheirPromise
<1>2. IInv => AnswersInOrder
  BY <1>1 DEF IInv, Typed, AnswersInOrder
<1>3. QED
  BY <1>2, Invariant, PTL

-----------------------------------------------------------------------------
(* Calls are remote calls: what is executed and what comes of it *)

\* A message tells the service its call asked for; answers are of services that exist.
Truthful == /\ \A r \in ToSet(requests) \cup ToSet(responses), t \in Threads :
                 r.id = sequenceId[t] => r.service = service[t]
            /\ \A r \in ToSet(responses) : r.service # "unknown"

\* A call is executed after it was sent and before it is answered; it is
\* completed with what its service gives.
Executed == /\ \A id \in executed : id <= nextId
            /\ \A r \in ToSet(requests) : r.id \notin executed
            /\ \A r \in ToSet(responses) : r.id \in executed
            /\ \A t \in Threads : Unsent(t) => sequenceId[t] \notin executed
            /\ \A t \in Threads :
                 pc[t] # "idle" /\ promise[t] # "pending" =>
                   sequenceId[t] \in executed /\ promise[t] \in Outcomes[service[t]]

RInv == IInv /\ Truthful /\ Executed

\* What the queues hold, as sets.
LEMMA Members ==
  ASSUME NEW s \in Seq(Request)
  PROVE  /\ s # <<>> => Head(s) \in ToSet(s) /\ ToSet(Tail(s)) \subseteq ToSet(s)
         /\ \A r \in Request : ToSet(Append(s, r)) = ToSet(s) \cup {r}
         /\ \A r \in ToSet(s) : On(s, r.id)
         /\ ToSet(<<>>) = {}
<1>1. ASSUME s # <<>> PROVE Head(s) \in ToSet(s) /\ ToSet(Tail(s)) \subseteq ToSet(s)
  <2>1. Len(s) >= 1 /\ Head(s) = s[1] /\ Len(Tail(s)) = Len(s) - 1 /\ DOMAIN s = 1 .. Len(s)
    BY <1>1
  <2>2. \A i \in 1 .. Len(s) - 1 : Tail(s)[i] = s[i + 1] /\ i + 1 \in 1 .. Len(s)
    BY <1>1
  <2>3. DOMAIN Tail(s) = 1 .. Len(s) - 1
    BY <1>1
  <2>4. QED
    BY <2>1, <2>2, <2>3 DEF ToSet
<1>2. ASSUME NEW r \in Request PROVE ToSet(Append(s, r)) = ToSet(s) \cup {r}
  <2> DEFINE a == Append(s, r)
  <2>1. DOMAIN a = 1 .. Len(s) + 1 /\ DOMAIN s = 1 .. Len(s) /\ Len(s) \in Nat
    OBVIOUS
  <2>2. a[Len(s) + 1] = r /\ \A i \in 1 .. Len(s) : a[i] = s[i]
    OBVIOUS
  <2> HIDE DEF a
  <2>3. \A x : x \in ToSet(a) <=> x \in ToSet(s) \/ x = r
    BY <2>1, <2>2 DEF ToSet
  <2>4. QED
    BY <2>3 DEF a
<1>3. \A r \in ToSet(s) : On(s, r.id)
  BY DEF ToSet, On
<1>4. ToSet(<<>>) = {}
  BY DEF ToSet
<1>5. QED
  BY <1>1, <1>2, <1>3, <1>4

\* Nothing is on the wire nor executed at first.
LEMMA InitTruthful == Init => Truthful /\ Executed
<1> SUFFICES ASSUME Init PROVE Truthful /\ Executed
  OBVIOUS
<1>1. ToSet(requests) = {} /\ ToSet(responses) = {}
  BY Members, Empty DEF Init
<1>2. QED
  BY <1>1 DEF Init, Truthful, Executed, Unsent

\* What sending adds to the wire is what the call asks for.
LEMMA SendAdds == ASSUME IInv, NEW t \in Threads, Send(t)
                  PROVE  /\ ToSet(requests') \subseteq
                              ToSet(requests) \cup {[id |-> sequenceId[t], service |-> service[t]]}
                         /\ responses' = responses
<1>1. [id |-> sequenceId[t], service |-> service[t]] \in Request /\ requests \in Seq(Request)
  BY SendMoves DEF IInv, Typed, TypeOK, Request
<1>2. QED
  BY <1>1, Members DEF Send

\* What is served was requested, and is no request any more.
LEMMA ServeAdds == ASSUME IInv, Serve
                   PROVE  LET r == Head(requests) IN
                          /\ r \in ToSet(requests) /\ ToSet(requests') \subseteq ToSet(requests)
                          /\ \A q \in ToSet(requests') : q.id # r.id
                          /\ ToSet(responses') \subseteq ToSet(responses) \cup {r}
                          /\ r.service = "unknown" => responses' = responses
<1>1. /\ requests \in Seq(Request) /\ requests # <<>> /\ Apart(requests) /\ responses \in Seq(Request)
      /\ Head(requests) \in Request
  BY Shorter DEF IInv, Typed, WireApart, Serve
<1>2. requests' = Tail(requests) /\ requests' \in Seq(Request) /\ ~On(requests', Head(requests).id)
  BY <1>1, Shorter DEF Serve
<1>3. \A q \in ToSet(requests') : q.id # Head(requests).id
  BY <1>2, Members
<1>4. responses' = IF Head(requests).service = "unknown" THEN responses ELSE Append(responses, Head(requests))
  BY DEF Serve
<1>5. ToSet(responses') \subseteq ToSet(responses) \cup {Head(requests)}
  BY <1>1, <1>4, Members
<1>6. QED
  BY <1>1, <1>2, <1>3, <1>4, <1>5, Members

\* What is read is an answer.
LEMMA ReadTakes == ASSUME IInv, ReadResponse
                   PROVE  Head(responses) \in ToSet(responses) /\ ToSet(responses') \subseteq ToSet(responses)
  BY Members DEF IInv, Typed, ReadResponse

\* Reading completes the promise of the call that is answered, and no other.
LEMMA Completes == ASSUME ReadResponse, NEW u \in Threads
                   PROVE  \/ promise'[u] = promise[u]
                          \/ /\ sequenceId[u] = Head(responses).id
                             /\ promise'[u] = Completed(Head(responses).service)
  BY DEF ReadResponse

\* The ids on the wire have been given out.
LEMMA Given == IInv => \A r \in ToSet(requests) \cup ToSet(responses) : r.id \in Ids /\ r.id <= nextId
<1> SUFFICES ASSUME IInv, NEW r \in ToSet(requests) \cup ToSet(responses)
             PROVE  r.id \in Ids /\ r.id <= nextId
  OBVIOUS
<1>1. r.id \in Ids
  BY DEF IInv, Typed, TypeOK
<1>2. OnWire(r.id)
  BY Members DEF IInv, Typed, OnWire
<1>3. QED
  BY <1>1, <1>2 DEF IInv, Numbered

\* Messages keep what they say, and a new call has an id no message has.
LEMMA TruthfulStays == RInv /\ [Next]_vars => Truthful'
<1> SUFFICES ASSUME RInv, [Next]_vars PROVE Truthful'
  OBVIOUS
<1> USE DEF RInv, IInv, Typed, TypeOK, Truthful
<1>1. ASSUME NEW t \in Threads, Call(t) PROVE Truthful'
  <2>1. \A r \in ToSet(requests) \cup ToSet(responses) : r.id # nextId + 1
    BY Given DEF Ids
  <2>2. QED
    BY <1>1, <2>1 DEF Call, Goto, wire
<1>2. ASSUME NEW t \in Threads, GetChannel(t) PROVE Truthful'
  BY <1>2 DEF GetChannel, Goto, call, shared, wire, Ready
<1>3. ASSUME NEW t \in Threads, Lock(t) PROVE Truthful'
  BY <1>3 DEF Lock, Goto, call, shared, wire
<1>4. ASSUME NEW t \in Threads, Recheck(t) PROVE Truthful'
  BY <1>4 DEF Recheck, Goto, call, shared, wire, Ready
<1>5. ASSUME NEW t \in Threads, Connect(t) PROVE Truthful'
  BY <1>5 DEF Connect, Goto, call, shared, wire, Ready
<1>6. ASSUME NEW t \in Threads, ConnectFails(t) PROVE Truthful'
  BY <1>6 DEF ConnectFails, Goto, call, shared, wire
<1>7. ASSUME NEW t \in Threads, Send(t) PROVE Truthful'
  <2>1. \A u \in Threads : u # t => sequenceId[u] # sequenceId[t]
    BY <1>7, SendMoves DEF Numbered, Ids
  <2>2. QED
    BY <1>7, <2>1, SendAdds DEF Send, call
<1>8. ASSUME NEW t \in Threads, Register(t) PROVE Truthful'
  BY <1>8 DEF Register, Goto, call, shared, wire
<1>9. ASSUME NEW t \in Threads, Return(t) PROVE Truthful'
  BY <1>9 DEF Return, Goto, call, shared, wire
<1>10. CASE Serve
  BY <1>10, ServeAdds DEF Serve, call
<1>11. CASE ReadResponse
  <2>1. requests' = requests /\ sequenceId' = sequenceId /\ service' = service
    BY <1>11 DEF ReadResponse
  <2>2. QED
    BY <1>11, <2>1, ReadTakes
<1>12. CASE Close
  <2>1. ToSet(requests') = {} /\ ToSet(responses') = {}
    BY <1>12, Members, Empty DEF Close
  <2>2. QED
    BY <2>1
<1>13. CASE UNCHANGED vars
  BY <1>13 DEF vars, call, shared, wire
<1>14. QED
  BY <1>1, <1>2, <1>3, <1>4, <1>5, <1>6, <1>7, <1>8, <1>9, <1>10, <1>11, <1>12, <1>13 DEF Next, Proxy

\* A request is executed when it leaves the queue, and only then can be answered.
LEMMA ExecutedStays == RInv /\ [Next]_vars => Executed'
<1> SUFFICES ASSUME RInv, [Next]_vars PROVE Executed'
  OBVIOUS
<1> USE RpcAssumption DEF RInv, IInv, Typed, TypeOK, Executed, Unsent
<1>1. ASSUME NEW t \in Threads, Call(t) PROVE Executed'
  <2>1. nextId + 1 \notin executed
    BY DEF Ids
  <2>2. /\ executed' = executed /\ requests' = requests /\ responses' = responses
        /\ nextId' = nextId + 1 /\ client' = client /\ pc' = [pc EXCEPT ![t] = "getChannel"]
    BY <1>1 DEF Call, Goto, wire
  <2>3. sequenceId'[t] = nextId + 1 /\ promise'[t] = "pending" /\ pc'[t] = "getChannel"
    BY <1>1, <2>2 DEF Call
  <2>4. \A u \in Threads : u # t => /\ sequenceId'[u] = sequenceId[u] /\ promise'[u] = promise[u]
                                    /\ service'[u] = service[u] /\ pc'[u] = pc[u]
    BY <1>1, <2>2 DEF Call
  <2>5. \A id \in executed' : id <= nextId'
    BY <2>2 DEF Ids
  <2>6. \A u \in Threads : Unsent(u)' => sequenceId'[u] \notin executed'
    BY <2>1, <2>2, <2>3, <2>4
  <2>7. \A u \in Threads : pc'[u] # "idle" /\ promise'[u] # "pending" =>
                             sequenceId'[u] \in executed' /\ promise'[u] \in Outcomes[service'[u]]
    BY <2>2, <2>3, <2>4
  <2>8. QED
    BY <2>2, <2>5, <2>6, <2>7
<1>2. ASSUME NEW t \in Threads, GetChannel(t) PROVE Executed'
  BY <1>2 DEF GetChannel, Goto, call, shared, wire, Ready
<1>3. ASSUME NEW t \in Threads, Lock(t) PROVE Executed'
  BY <1>3 DEF Lock, Goto, call, shared, wire
<1>4. ASSUME NEW t \in Threads, Recheck(t) PROVE Executed'
  BY <1>4 DEF Recheck, Goto, call, shared, wire, Ready
<1>5. ASSUME NEW t \in Threads, Connect(t) PROVE Executed'
  BY <1>5 DEF Connect, Goto, call, shared, wire, Ready
<1>6. ASSUME NEW t \in Threads, ConnectFails(t) PROVE Executed'
  BY <1>6 DEF ConnectFails, Goto, call, shared, wire
<1>7. ASSUME NEW t \in Threads, Send(t) PROVE Executed'
  <2>1. sequenceId[t] \notin executed
    BY <1>7 DEF Send, Goto
  <2>2. executed' = executed /\ nextId' = nextId /\ sequenceId' = sequenceId /\ promise' = promise /\ service' = service
    BY <1>7 DEF Send, call
  <2>3. \A u \in Threads : Unsent(u)' => Unsent(u)
    BY <1>7 DEF Send, Goto, Sent
  <2>4. \A u \in Threads : pc'[u] # "idle" => pc[u] # "idle"
    BY <1>7 DEF Send, Goto
  <2>5. QED
    BY <1>7, <2>1, <2>2, <2>3, <2>4, SendAdds
<1>8. ASSUME NEW t \in Threads, Register(t) PROVE Executed'
  <2>1. executed' = executed /\ nextId' = nextId /\ sequenceId' = sequenceId /\ promise' = promise /\ service' = service
    BY <1>8 DEF Register, call, wire
  <2>2. requests' = requests /\ responses' = responses
    BY <1>8 DEF Register, wire
  <2>3. \A u \in Threads : Unsent(u)' => Unsent(u)
    BY <1>8 DEF Register, Goto
  <2>4. \A u \in Threads : pc'[u] # "idle" => pc[u] # "idle"
    BY <1>8 DEF Register, Goto
  <2>5. QED
    BY <2>1, <2>2, <2>3, <2>4
<1>9. ASSUME NEW t \in Threads, Return(t) PROVE Executed'
  BY <1>9 DEF Return, Goto, call, shared, wire
<1>10. CASE Serve
  <2> DEFINE r == Head(requests)
  <2>1. r \in ToSet(requests) /\ r.id \in Ids /\ r.id <= nextId
    BY <1>10, ServeAdds, Given
  <2>2. executed' = executed \cup {r.id} /\ pc' = pc /\ client' = client
    BY <1>10 DEF Serve
  <2>3. nextId' = nextId /\ sequenceId' = sequenceId /\ promise' = promise /\ service' = service
    BY <1>10 DEF Serve, call
  <2>4. \A u \in Threads : Unsent(u) => sequenceId[u] # r.id
    BY <2>1, Members DEF InStep, OnWire
  <2>5. QED
    BY <1>10, <2>1, <2>2, <2>3, <2>4, ServeAdds
<1>11. CASE ReadResponse
  <2> DEFINE r == Head(responses)
  <2>1. r \in ToSet(responses) /\ r.id \in executed /\ r \in [id : Ids, service : Services]
    BY <1>11, ReadTakes
  <2>2. Completed(r.service) \in Outcomes[r.service]
    BY <2>1 DEF Completed, Outcomes, Services, Truthful
  <2>3. /\ executed' = executed /\ pc' = pc /\ client' = client /\ requests' = requests
        /\ nextId' = nextId /\ sequenceId' = sequenceId /\ service' = service
    BY <1>11 DEF ReadResponse
  <2>4. \A u \in Threads : \/ promise'[u] = promise[u]
                           \/ sequenceId[u] = r.id /\ promise'[u] = Completed(r.service)
    BY <1>11, Completes
  <2>5. \A u \in Threads : sequenceId[u] = r.id => service[u] = r.service
    BY <2>1 DEF Truthful
  <2>6. QED
    BY <1>11, <2>1, <2>2, <2>3, <2>4, <2>5, ReadTakes
<1>12. CASE Close
  <2>1. ToSet(requests') = {} /\ ToSet(responses') = {}
    BY <1>12, Members, Empty DEF Close
  <2>2. QED
    BY <1>12, <2>1 DEF Close, call
<1>13. CASE UNCHANGED vars
  BY <1>13 DEF vars, call, shared, wire
<1>14. QED
  BY <1>1, <1>2, <1>3, <1>4, <1>5, <1>6, <1>7, <1>8, <1>9, <1>10, <1>11, <1>12, <1>13 DEF Next, Proxy

\* The calls keep to what they promise as long as they run.
LEMMA RemoteInvariant == Spec => []RInv
<1>1. Init => RInv
  BY InitHolds, InitTruthful DEF RInv
<1>2. RInv /\ [Next]_vars => RInv'
  BY Inductive, TruthfulStays, ExecutedStays DEF RInv
<1>3. QED
  BY <1>1, <1>2, PTL DEF Spec

Abstract == <<phase, service, outcome>>

\* Between its call and its return a thread is where it is, whatever it does.
LEMMA UnderWay == ASSUME DOMAIN pc = Threads, NEW t \in Threads, NEW place, place # "idle",
                         pc[t] # "idle", pc' = [pc EXCEPT ![t] = place],
                         UNCHANGED <<sequenceId, executed, service, outcome>>
                  PROVE  UNCHANGED Abstract
<1>1. \A u \in Threads : pc'[u] = "idle" <=> pc[u] = "idle"
  OBVIOUS
<1>2. phase' = phase
  BY <1>1 DEF phase
<1>3. QED
  BY <1>2 DEF Abstract

\* A call, its execution, its return and its failure are those of RemoteCalls;
\* all other steps it does not see.
LEMMA StepsAreRemote == RInv /\ [Next]_vars => [Remote!Next]_Abstract
<1> SUFFICES ASSUME RInv, [Next]_vars PROVE Remote!Next \/ UNCHANGED Abstract
  BY DEF Abstract
<1>0. /\ DOMAIN pc = Threads /\ sequenceId \in [Threads -> Nat] /\ executed \subseteq Nat
      /\ service \in [Threads -> Services] /\ DOMAIN outcome = Threads /\ DOMAIN promise = Threads
  BY RpcAssumption DEF RInv, IInv, Typed, TypeOK, Ids
<1>1. ASSUME NEW t \in Threads, Call(t) PROVE Remote!Call(t)
  <2>1. nextId + 1 \notin executed
    BY RpcAssumption DEF RInv, IInv, Typed, TypeOK, Executed, Ids
  <2>2. phase[t] = "idle"
    BY <1>1 DEF Call, Goto, phase
  <2>3. pc' = [pc EXCEPT ![t] = "getChannel"] /\ sequenceId' = [sequenceId EXCEPT ![t] = nextId + 1]
        /\ executed' = executed /\ outcome' = outcome
    BY <1>1 DEF Call, Goto, wire
  <2>4. phase' = [phase EXCEPT ![t] = "called"]
    BY <1>0, <2>1, <2>3 DEF phase
  <2>5. \E s \in Services : service' = [service EXCEPT ![t] = s]
    BY <1>1 DEF Call
  <2>6. QED
    BY <2>2, <2>3, <2>4, <2>5 DEF Remote!Call
<1>2. ASSUME NEW t \in Threads, ConnectFails(t) PROVE Remote!Fail(t)
  <2>1. pc[t] = "locked" /\ sequenceId[t] \notin executed
    BY <1>2 DEF ConnectFails, Goto, RInv, Executed, Unsent
  <2>2. /\ pc' = [pc EXCEPT ![t] = "idle"] /\ outcome' = [outcome EXCEPT ![t] = "exception"]
        /\ sequenceId' = sequenceId /\ executed' = executed /\ service' = service
    BY <1>2 DEF ConnectFails, Goto, wire, call
  <2>3. phase[t] = "called" /\ phase' = [phase EXCEPT ![t] = "idle"]
    BY <1>0, <2>1, <2>2 DEF phase
  <2>4. QED
    BY <2>2, <2>3 DEF Remote!Fail
<1>3. ASSUME NEW t \in Threads, Return(t) PROVE Remote!Return(t)
  <2>1. pc[t] = "await" /\ promise[t] # "pending"
    BY <1>3 DEF Return, Goto
  <2>2. sequenceId[t] \in executed /\ promise[t] \in Outcomes[service[t]]
    BY <2>1 DEF RInv, Executed
  <2>3. /\ pc' = [pc EXCEPT ![t] = "idle"] /\ outcome' = [outcome EXCEPT ![t] = promise[t]]
        /\ sequenceId' = sequenceId /\ executed' = executed /\ service' = service
    BY <1>3 DEF Return, Goto, wire, call
  <2>4. phase[t] = "executed" /\ phase' = [phase EXCEPT ![t] = "idle"]
    BY <1>0, <2>1, <2>2, <2>3 DEF phase
  <2>5. QED
    BY <2>2, <2>3, <2>4 DEF Remote!Return
<1>4. CASE Serve
  <2> DEFINE id == Head(requests).id
  <2>1. id \in Ids /\ id \notin executed
    BY <1>4, ServeAdds, Given DEF RInv, Executed
  <2>2. /\ executed' = executed \cup {id} /\ pc' = pc /\ sequenceId' = sequenceId
        /\ service' = service /\ outcome' = outcome
    BY <1>4 DEF Serve, call
  <2>3. CASE \E t \in Threads : sequenceId[t] = id /\ pc[t] # "idle"
    <3>1. PICK t \in Threads : sequenceId[t] = id /\ pc[t] # "idle"
      BY <2>3
    <3>2. \A u \in Threads : u # t => sequenceId[u] # id
      BY <2>1, <3>1, RpcAssumption DEF RInv, IInv, Numbered, Ids
    <3>3. phase[t] = "called" /\ phase' = [phase EXCEPT ![t] = "executed"]
      BY <2>1, <2>2, <3>1, <3>2 DEF phase
    <3>4. Remote!Execute(t)
      BY <2>2, <3>3 DEF Remote!Execute
    <3>5. QED
      BY <3>4 DEF Remote!Next
  <2>4. CASE ~\E t \in Threads : sequenceId[t] = id /\ pc[t] # "idle"
    <3>1. phase' = phase
      BY <2>2, <2>4 DEF phase
    <3>2. QED
      BY <2>2, <3>1 DEF Abstract
  <2>5. QED
    BY <2>3, <2>4
<1>5. ASSUME ReadResponse \/ Close \/ UNCHANGED vars PROVE UNCHANGED Abstract
  <2>1. UNCHANGED <<pc, sequenceId, executed, service, outcome>>
    BY <1>5 DEF ReadResponse, Close, vars, call, wire
  <2>2. phase' = phase
    BY <2>1 DEF phase
  <2>3. QED
    BY <2>1, <2>2 DEF Abstract
<1>6. ASSUME NEW t \in Threads,
             GetChannel(t) \/ Lock(t) \/ Recheck(t) \/ Connect(t) \/ Send(t) \/ Register(t)
      PROVE  UNCHANGED Abstract
  <2>1. UNCHANGED <<sequenceId, executed, service, outcome>>
    BY <1>6 DEF GetChannel, Lock, Recheck, Connect, Send, Register, wire, call
  <2>2. pc[t] # "idle" /\ \E place : place # "idle" /\ pc' = [pc EXCEPT ![t] = place]
    BY <1>6 DEF GetChannel, Lock, Recheck, Connect, Send, Register, Goto, Ready, Sent
  <2>3. QED
    BY <1>0, <2>1, <2>2, UnderWay
<1>7. QED
  BY <1>1, <1>2, <1>3, <1>4, <1>5, <1>6 DEF Next, Proxy, Remote!Next

\* Every behaviour of the clients is one of remote calls: executed at most once,
\* and returned with what the execution gave.
THEOREM CallsAreRemote == Spec => ImplementsRemoteCalls
<1>1. Init => Remote!Init
  BY DEF Init, Remote!Init, phase, Services
<1>2. RInv /\ [Next]_vars => [Remote!Next]_Abstract
  BY StepsAreRemote
<1>3. QED
  BY <1>1, <1>2, RemoteInvariant, PTL DEF Spec, ImplementsRemoteCalls, Remote!Spec, Abstract
=============================================================================
