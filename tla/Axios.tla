------------------------------- MODULE Axios -------------------------------
(***************************************************************************)
(* The life of axios's requests (axios.js): the chain of interceptors      *)
(* around the dispatch, the two adapters and what the network does to      *)
(* them, cancellation by tokens and signals at any moment, timeouts and    *)
(* throttled progress.  Every promise reaction is a step of its own        *)
(* (Step, TokenTold): those of one request come in their order, those of   *)
(* different ones in any, and a task (the network, a timer, a click) only  *)
(* when none is ready.  The application may cancel at any moment.          *)
(***************************************************************************)
EXTENDS AxiosConfig

CONSTANTS
  Plans,        \* what the application does, each a record:
                \*   defaults  the instance's options
                \*   asks      its requests' options; <<"again", r>> those of request r
                \*   request, response   the interceptors, each [does, rejected, sync, skips]
                \*   answers   what the server may answer; fails: or it may not
                \*   manages   whether interceptors come and go meanwhile
                \*   readBack, pairs   what its fields are read back as, and as a form
  Requests,     \* 1..n, the most requests of a plan
  Tokens, Signals,
  Configured(_, _), AdapterFor(_), Outgoing(_, _),
                \* RequestConfig, GetAdapter and Wire, as parameters: TLC's coverage
                \* would unfold them at each place they are called from
  MaxTime, MaxLoaded,     \* bounds on time and on what is loaded
  Threshold, ChunkSize    \* throttle's distance; 64 KiB (axios.js:3261)

ASSUME AxiosAssumption == MaxLoaded \in Nat /\ ChunkSize \in Nat \ {0}
ASSUME PlansAssumption == \A p \in Plans : Len(p.request) \in Nat /\ Len(p.response) \in Nat

VARIABLES plan, handlers, reqs, progress, tokens, signals, clock

vars == <<plan, handlers, reqs, progress, tokens, signals, clock>>

Waiting == <<"waiting">>
Ok(x) == <<"ok", x>>
NoResponse == <<>>
Err(code) == <<"err", [code |-> code, response |-> NoResponse]>>
CANCELED == "ERR_CANCELED"
IsCancel(val) == val[1] = "err" /\ val[2].code = CANCELED

\* A request before it is asked for.  stage: where its chain is, "now" while
\* synchronous interceptors run in the call; before, after: the interceptors
\* still to run; val: what the promise was last settled with; log, due: what
\* ran and what was registered, for the properties; open: xhr's request is not
\* null, or fetch's composed signal has its subscriptions; net: the exchange
NoRequest ==
  [stage |-> "unasked", config |-> None, before |-> {}, after |-> {}, val |-> Waiting,
   log |-> <<>>, due |-> <<>>, adapter |-> "none", open |-> FALSE, net |-> "idle",
   wire |-> <<>>, timer |-> FALSE, leaving |-> FALSE]

NoProgress ==
  [loaded |-> 0, since |-> 0, late |-> 0, lateAt |-> 0, told |-> <<>>, stream |-> <<>>,
   bytes |-> 0, posted |-> <<>>]

\* what a reaction of request r changes: its record q, the tokens, the signals
Turn(r) == [q |-> reqs[r], tokens |-> tokens, signals |-> signals]
Becomes(r, w) == /\ reqs' = [reqs EXCEPT ![r] = w.q]
                 /\ tokens' = w.tokens
                 /\ signals' = w.signals

Over(q) == q.stage = "response" /\ q.after = {} /\ q.val # Waiting

\* Axios.request, axios.js:3694-3736: what _request's promise ends with; an error's
\* stack is made longer and thrown on
Outcome(q) == IF Over(q) THEN q.val ELSE Waiting

Busy(q) == q.net \in {"busy", "head"}
TokenOf(config) == {t \in Tokens : Own(config, "cancelToken") = <<"token", t>>}
SignalOf(config) == {s \in Signals : Own(config, "signal") = <<"signal", s>>}

\* throwIfCancellationRequested, axios.js:3542-3549
CancelRequested(w, config) ==
  \/ \E t \in TokenOf(config) : w.tokens[t].reason
  \/ \E s \in SignalOf(config) : w.signals[s].aborted

Log(q, entry) == [q EXCEPT !.log = Append(@, entry)]
Settled(w, val) == [w EXCEPT !.q.val = val]

-----------------------------------------------------------------------------
\* the adapter's promise is settled once: what comes later is ignored
Settle(q, val) == IF q.val = Waiting THEN [q EXCEPT !.val = val] ELSE q

Mut_OnCanceledNotRejected(q) ==
  IF ~q.open THEN q
  ELSE [q EXCEPT !.open = FALSE, !.net = IF @ = "busy" THEN "aborted" ELSE @]

\* xhrAdapter's onCanceled, axios.js:2991-3007: rejects, then aborts the
\* exchange, whose onabort finds the promise settled
OnCanceled(q) ==
  IF ~q.open THEN q
  ELSE [Settle(q, Err(CANCELED)) EXCEPT !.open = FALSE, !.net = IF @ = "busy" THEN "aborted" ELSE @]

\* composeSignals' onabort, axios.js:3021-3028: once; the fetch under way is
\* rejected and fetchAdapter's catch, 3449-3460, schedules the clean-up
OnAbort(q, code) ==
  IF ~q.open THEN q
  ELSE LET closed == [q EXCEPT !.open = FALSE, !.timer = FALSE]
       IN IF Busy(q) THEN [Settle(closed, Err(code)) EXCEPT !.net = "aborted"] ELSE closed

\* CancelToken.subscribe, axios.js:3943-3954, and addEventListener: the listeners of
\* a token or a signal are the requests they belong to
Subscribed(listened, r) == [listened EXCEPT !.listeners = @ \cup {r}]

\* CancelToken.unsubscribe, axios.js:3960-3969, of those in who
Unsubscribed(listened, who) ==
  [x \in DOMAIN listened |-> [listened[x] EXCEPT !.listeners = @ \ who]]

Mut_DoneForgetsSignal(r) == tokens' = Unsubscribed(tokens, {r}) /\ signals' = signals

\* xhrAdapter's done, axios.js:2866-2873
Done(r) == tokens' = Unsubscribed(tokens, {r}) /\ signals' = Unsubscribed(signals, {r})

Protocols == {"", "http", "https", "file", "blob", "url", "data"}

\* xhrAdapter, axios.js:2859-3008: opens the request, subscribes to the token
\* and the signal, which call at once when they were cancelled, and sends
\* unless the protocol is not supported or the request was cancelled by then
\* (send on null only throws into a promise that is rejected already)
StartXhr(w, r, config) ==
  LET opened == [w.q EXCEPT !.open = TRUE, !.adapter = "xhr"]
      subscribed == IF CancelRequested(w, config) THEN OnCanceled(opened) ELSE opened
      wire == Outgoing(config, "xhr")
  IN [q |-> IF wire.url[2].scheme \notin Protocols THEN Settle(subscribed, Err("ERR_BAD_REQUEST"))
            ELSE IF ~subscribed.open THEN subscribed
            ELSE [subscribed EXCEPT !.net = "busy", !.wire = wire],
      tokens |-> [t \in Tokens |-> IF t \in TokenOf(config) /\ ~w.tokens[t].reason
                                   THEN Subscribed(w.tokens[t], r) ELSE w.tokens[t]],
      signals |-> [s \in Signals |-> IF s \in SignalOf(config) /\ ~w.signals[s].aborted
                                     THEN Subscribed(w.signals[s], r) ELSE w.signals[s]]]

\* composeSignals, axios.js:3018-3053: the timer starts and the signal is
\* listened to, also one that was aborted; a token has no addEventListener and
\* is not
ComposeSignals(w, r, config) ==
  LET timed == Truthy(Own(config, "timeout"))
  IN [q |-> [w.q EXCEPT !.timer = timed,
                        !.open = timed \/ TokenOf(config) # {} \/ SignalOf(config) # {}],
      tokens |-> w.tokens,
      signals |-> [s \in Signals |-> IF s \in SignalOf(config) THEN Subscribed(w.signals[s], r)
                                     ELSE w.signals[s]]]

\* fetchAdapter, axios.js:3361-3413: one signal of all there is to end it
StartFetch(w, r, config) ==
  ComposeSignals([w EXCEPT !.q = [@ EXCEPT !.adapter = "fetch", !.net = "busy",
                                           !.wire = Outgoing(config, "fetch")]], r, config)

\* dispatchRequest, axios.js:3558-3587: what it throws settles the step that
\* called it, else the adapter is waited for
Dispatch(w, r, config) ==
  LET ready == Prepared(config)
      adapter == AdapterFor(Own(config, "adapter"))
      called == [w EXCEPT !.q = [Log(@, <<"dispatch">>) EXCEPT !.config = ready, !.val = Waiting,
                                                               !.stage = "adapter"]]
  IN IF CancelRequested(w, config) THEN Settled(w, Err(CANCELED))
     ELSE IF adapter[1] = "throw" THEN Settled(w, Err(adapter[2]))
     ELSE IF adapter[2] = "xhr" THEN StartXhr(called, r, ready) ELSE StartFetch(called, r, ready)

-----------------------------------------------------------------------------
\* CancelToken, axios.js:3884-3926
NewToken == [reason |-> FALSE, told |-> FALSE, listeners |-> {}]

\* CancelToken's cancel, axios.js:3918-3925: the reason is there at once, the
\* listeners are told in a reaction
CancelIt(toks, t) == [toks EXCEPT ![t].reason = TRUE]

\* what an interceptor of the application makes of the headers
Edited(h, h0) ==
  CASE h.does = "header" ->
         IF HasHeader(h0, "authorization") THEN h0 ELSE SetHeader(h0, "authorization", Str("me"), Undef)
    [] h.does = "strip" -> DeleteHeader(h0, "accept")
    [] h.does = "bare" -> ClearHeaders(h0, DOMAIN h0 \ {"content-type"})

\* an interceptor, as the application wrote it: passes on, throws, adds a
\* header or takes some away, or cancels the token of the request before
Intercept(w, h, x) ==
  CASE h.does = "throw" -> Settled(w, Err("refused"))
    [] h.does \in {"header", "strip", "bare"} ->
         Settled(w, Ok([x EXCEPT !["headers"] = Hdrs(Edited(h, @[2]))]))
    [] h.does = "cancel" ->
         Settled([w EXCEPT !.tokens = IF Tokens = {} THEN @ ELSE CancelIt(@, CHOOSE t \in Tokens : TRUE)], Ok(x))
    [] OTHER -> Settled(w, Ok(x))

Recovered == [status |-> 0, headers |-> None, data |-> Str("fallback")]

\* one reaction of the chain to what the one before it left: promise.then(fulfilled,
\* rejected), whose second function gives something in the error's place, or
\* throws it on; one that was ejected since runs all the same
Handle(w, kind, i, fallback) ==
  LET h == plan[kind][i]
      handler(out) == [w EXCEPT !.q = Log(@, <<kind, i, out>>)]
  IN IF w.q.val[1] = "ok" THEN Intercept(handler("ok"), h, w.q.val[2])
     ELSE IF h.rejected = "none" THEN w
     ELSE IF h.rejected = "recover" THEN Settled(handler("err"), Ok(fallback)) ELSE handler("err")

Ejected == 0

\* InterceptorManager.forEach, axios.js:1797-1804: what was ejected is passed over,
\* and runWhen may decline
Registered(kind, config) ==
  {i \in ToSet(handlers[kind].list) \ {Ejected} :
     kind = "request" => config["method"] \notin plan.request[i].skips}

Mut_Following(kind, ids) == CHOOSE i \in ids : \A j \in ids : i <= j

\* unshiftRequestInterceptors, axios.js:3784-3796, and pushResponseInterceptors:
\* the last request interceptor runs first, the first response interceptor does
Following(kind, ids) ==
  CHOOSE i \in ids : \A j \in ids : IF kind = "request" THEN j <= i ELSE i <= j

Asked == {r \in Requests : reqs[r].stage # "unasked"}

\* a call that runs synchronous interceptors has not returned: nothing else runs
Calling == \E r \in Requests : reqs[r].stage = "now"

\* Axios._request, axios.js:3737-3810: the chain is made; with a synchronous one
\* its interceptors run at once
Ask(r) ==
  /\ ~Calling /\ r \in 1..Len(plan.asks) /\ reqs[r].stage = "unasked"
  /\ \A q \in 1..(r - 1) : reqs[q].stage # "unasked"
  /\ plan.asks[r][1] = "again" => Over(reqs[plan.asks[r][2]])
  /\ LET given == IF plan.asks[r][1] = "again" THEN reqs[plan.asks[r][2]].config ELSE plan.asks[r][2]
         config == Configured(plan.defaults, given)
         requested == Registered("request", config)
         answered == Registered("response", config)
         sync == \A i \in requested : plan.request[i].sync
     IN reqs' = [reqs EXCEPT ![r] =
          IF BadTransitional(config)
          THEN [@ EXCEPT !.stage = "response", !.val = Err(BadOption(config))]
          ELSE [@ EXCEPT !.stage = IF sync THEN "now" ELSE "request", !.config = config,
                         !.before = requested, !.after = answered, !.val = Ok(config),
                         !.due = <<requested, answered>>]]
  /\ UNCHANGED <<plan, handlers, progress, tokens, signals, clock>>

\* what is thrown in the call rejects without the response interceptors
Thrown(w, val) == [w EXCEPT !.q = [@ EXCEPT !.stage = "response", !.before = {}, !.after = {}, !.val = val]]

\* Axios._request, axios.js:3811-3833: synchronous interceptors run in the call,
\* nothing comes between them; the one that throws is given its own error, and
\* unless that throws in its turn the request is dispatched with what there was
CallNow(r) ==
  /\ reqs[r].stage = "now"
  /\ LET q == reqs[r]
         i == Following("request", q.before)
         h == plan.request[i]
         dispatched == Dispatch([Turn(r) EXCEPT !.q.stage = "response"], r, q.val[2])
         v == Handle([Turn(r) EXCEPT !.q.before = @ \ {i}], "request", i, None)
         failed == [v EXCEPT !.q = Log(@, <<"request", i, "err">>)]
     IN Becomes(r, IF q.before = {}
                   THEN IF dispatched.q.stage = "adapter" THEN dispatched
                        ELSE Thrown(dispatched, dispatched.q.val)
                   ELSE IF v.q.val[1] = "ok" THEN v
                   ELSE IF h.rejected = "none" THEN Thrown(v, Err("TypeError"))
                   ELSE IF h.rejected = "recover"
                   THEN [failed EXCEPT !.q = [@ EXCEPT !.before = {}, !.val = q.val]]
                   ELSE Thrown(failed, v.q.val))
  /\ UNCHANGED <<plan, handlers, progress, clock>>

-----------------------------------------------------------------------------
\* transformData, axios.js:2425-2435, of an answer
Transformed(config, response) ==
  [response EXCEPT !.data = TransformResponse(response.data, config).data]
BadJson(config, response) == TransformResponse(response.data, config).bad

Mut_OnAdapterResolution(w, config, response) ==
  IF BadJson(config, response) THEN Err("ERR_BAD_RESPONSE") ELSE Ok(Transformed(config, response))

\* onAdapterResolution, axios.js:3568-3575
OnAdapterResolution(w, config, response) ==
  IF CancelRequested(w, config) THEN Err(CANCELED)
  ELSE IF BadJson(config, response) THEN Err("ERR_BAD_RESPONSE")
  ELSE Ok(Transformed(config, response))

\* onAdapterRejection, axios.js:3575-3586
OnAdapterRejection(w, config, val) ==
  IF IsCancel(val) THEN val
  ELSE IF CancelRequested(w, config) THEN Err(CANCELED)
  ELSE IF val[2].response = NoResponse THEN val
  ELSE IF BadJson(config, val[2].response[1]) THEN Err("ERR_BAD_RESPONSE")
  ELSE <<"err", [val[2] EXCEPT !.response = <<Transformed(config, @[1])>>]>>

\* the reactions of the chain: a request interceptor, the dispatch, which what
\* was rejected before passes over, the adapter's, a response interceptor
RequestReaction(w, r) ==
  LET i == Following("request", w.q.before)
  IN Handle([w EXCEPT !.q.before = @ \ {i}], "request", i, w.q.config)
DispatchReaction(w, r) ==
  LET v == [w EXCEPT !.q.stage = "response"]
  IN IF w.q.val[1] = "ok" THEN Dispatch(v, r, w.q.val[2]) ELSE v
AdapterReaction(w, r) ==
  LET val == IF w.q.val[1] = "ok" THEN OnAdapterResolution(w, w.q.config, w.q.val[2])
             ELSE OnAdapterRejection(w, w.q.config, w.q.val)
  IN [w EXCEPT !.q = [Log(@, <<"adapter">>) EXCEPT !.stage = "response", !.val = val]]
ResponseReaction(w, r) ==
  LET i == Following("response", w.q.after)
  IN Handle([w EXCEPT !.q.after = @ \ {i}], "response", i, Recovered)

StepReady(r) == /\ reqs[r].stage \in {"request", "adapter"} \/ (reqs[r].stage = "response" /\ reqs[r].after # {})
                /\ reqs[r].val # Waiting

\* Axios._request, axios.js:3797-3808: promise.then(fulfilled, rejected)
Step(r) ==
  /\ ~Calling /\ StepReady(r)
  /\ \/ reqs[r].stage = "request" /\ reqs[r].before # {} /\ Becomes(r, RequestReaction(Turn(r), r))
     \/ reqs[r].stage = "request" /\ reqs[r].before = {} /\ Becomes(r, DispatchReaction(Turn(r), r))
     \/ reqs[r].stage = "adapter" /\ Becomes(r, AdapterReaction(Turn(r), r))
     \/ reqs[r].stage = "response" /\ Becomes(r, ResponseReaction(Turn(r), r))
  /\ UNCHANGED <<plan, handlers, progress, clock>>

TellReady(t) == tokens[t].reason /\ ~tokens[t].told

Mut_Told(who) ==
  [r \in Requests |-> IF who # {} /\ r = CHOOSE x \in who : TRUE THEN OnCanceled(reqs[r]) ELSE reqs[r]]

\* the reaction to CancelToken's promise, axios.js:3896-3903: every listener, each
\* of which is about its own request only
Told(who) == [r \in Requests |-> IF r \in who THEN OnCanceled(reqs[r]) ELSE reqs[r]]

TokenTold(t) ==
  /\ ~Calling /\ TellReady(t)
  /\ reqs' = Told(tokens[t].listeners)
  /\ tokens' = [tokens EXCEPT ![t] = [@ EXCEPT !.told = TRUE, !.listeners = {}]]
  /\ UNCHANGED <<plan, handlers, progress, signals, clock>>

\* no call is under way and no reaction is ready: the browser takes its next task
Quiet == ~Calling /\ (\A r \in Requests : ~StepReady(r)) /\ (\A t \in Tokens : ~TellReady(t))

-----------------------------------------------------------------------------
\* source's cancel, axios.js:3976-3986, called by the application
Cancel(t) ==
  /\ ~Calling /\ ~tokens[t].reason /\ Asked # {}
  /\ tokens' = CancelIt(tokens, t)
  /\ UNCHANGED <<plan, handlers, reqs, progress, signals, clock>>

\* AbortController.abort: its listeners are called at once; those of fetch
\* unsubscribe
Abort(s) ==
  /\ ~Calling /\ ~signals[s].aborted /\ Asked # {}
  /\ LET who == signals[s].listeners
         leave == {r \in who : reqs[r].adapter = "fetch" /\ reqs[r].open}
     IN /\ reqs' = [r \in Requests |->
                      IF r \notin who THEN reqs[r]
                      ELSE IF reqs[r].adapter = "xhr" THEN OnCanceled(reqs[r])
                      ELSE OnAbort(reqs[r], CANCELED)]
        /\ tokens' = Unsubscribed(tokens, leave)
        /\ signals' = [Unsubscribed(signals, leave) EXCEPT ![s].aborted = TRUE]
  /\ UNCHANGED <<plan, handlers, progress, clock>>

Changed(kind, h) ==
  ~Calling /\ handlers' = [handlers EXCEPT ![kind] = h] /\ UNCHANGED <<plan, reqs, progress, tokens, signals, clock>>

\* InterceptorManager.use, axios.js:1747-1756: the next one of the plan
Use(kind) ==
  LET h == handlers[kind]
  IN /\ h.used < Len(plan[kind])
     /\ Changed(kind, [list |-> Append(h.list, h.used + 1), used |-> h.used + 1])

\* InterceptorManager.eject, axios.js:1766-1771
Eject(kind, i) ==
  LET h == handlers[kind]
  IN /\ plan.manages /\ i \in DOMAIN h.list /\ h.list[i] # Ejected
     /\ Changed(kind, [h EXCEPT !.list[i] = Ejected])

\* InterceptorManager.clear, axios.js:1779-1784
Clear(kind) ==
  /\ plan.manages /\ handlers[kind].list # <<>>
  /\ Changed(kind, [handlers[kind] EXCEPT !.list = <<>>])

\* an exchange of r's, as a task, and what becomes of the request
Task(r, adapter, states) == Quiet /\ reqs[r].adapter = adapter /\ reqs[r].net \in states
After(r, q) == reqs' = [reqs EXCEPT ![r] = q] /\ UNCHANGED <<plan, handlers, progress, clock>>

\* settle, axios.js:2468-2475
Judged(config, answer) ==
  LET response == [status |-> answer.status, headers |-> ParseHeaders(answer.lines), data |-> answer.data]
      code == IF answer.status \in 400..499 THEN "ERR_BAD_REQUEST"
              ELSE IF answer.status \in 500..599 THEN "ERR_BAD_RESPONSE" ELSE "none"
  IN IF Accepted(config, answer.status) THEN Ok(response)
     ELSE <<"err", [code |-> code, response |-> <<response>>]>>

\* xhrAdapter's onloadend, axios.js:2879-2904
XhrLoad(r) ==
  /\ Task(r, "xhr", {"busy"})
  /\ \E answer \in plan.answers :
       After(r, [Settle(reqs[r], Judged(reqs[r].config, answer)) EXCEPT !.net = "load", !.open = FALSE])
  /\ Done(r)

\* what onerror and its like do: reject, and request = null; the listeners stay
Failed(r, code, net) ==
  After(r, [Settle(reqs[r], Err(code)) EXCEPT !.net = net, !.open = FALSE])
  /\ UNCHANGED <<tokens, signals>>

\* xhrAdapter's onerror, axios.js:2939-2947
XhrError(r) == plan.fails /\ Task(r, "xhr", {"busy"}) /\ Failed(r, "ERR_NETWORK", "error")

\* xhrAdapter's onabort, axios.js:2928-2937: the browser gave the exchange up
XhrAbort(r) == plan.fails /\ Task(r, "xhr", {"busy"}) /\ Failed(r, "ECONNABORTED", "aborted")

\* xhrAdapter's ontimeout, axios.js:2949-2960
XhrTimeout(r) ==
  /\ Task(r, "xhr", {"busy"}) /\ Truthy(Own(reqs[r].config, "timeout"))
  /\ Failed(r, IF Truthy(Own(Transitional(reqs[r].config), "clarifyTimeoutError"))
               THEN "ETIMEDOUT" ELSE "ECONNABORTED", "timeout")

\* fetchAdapter, axios.js:3415-3430: the answer's head is there
FetchHead(r) ==
  /\ Task(r, "fetch", {"busy"})
  /\ After(r, [reqs[r] EXCEPT !.net = "head"]) /\ UNCHANGED <<tokens, signals>>

\* fetchAdapter, axios.js:3431-3447: its body was read; the subscriptions go in
\* a task of their own
FetchBody(r) ==
  /\ Task(r, "fetch", {"head"}) /\ progress[r].stream = <<>>
  /\ \E answer \in plan.answers :
       After(r, [Settle(reqs[r], Judged(reqs[r].config, answer))
                   EXCEPT !.net = "load", !.timer = FALSE, !.leaving = TRUE])
  /\ UNCHANGED <<tokens, signals>>

\* fetchAdapter, axios.js:3449-3460: what fails is a TypeError that names fetch,
\* or another error, whose code goes on
FetchFail(r) ==
  /\ plan.fails /\ Task(r, "fetch", {"busy", "head"})
  /\ \E code \in {"ERR_NETWORK", "none"} :
       After(r, [Settle(reqs[r], Err(code)) EXCEPT !.net = "error", !.leaving = TRUE])
  /\ UNCHANGED <<tokens, signals>>

\* composeSignals' timer, axios.js:3029-3031
FetchTimer(r) ==
  Quiet /\ reqs[r].timer /\ After(r, OnAbort(reqs[r], "ETIMEDOUT")) /\ Done(r)

\* fetchAdapter's onFinish, axios.js:3370-3375, and unsubscribe, 3032-3041
Unsubscribe(r) ==
  /\ Quiet /\ reqs[r].leaving
  /\ After(r, [reqs[r] EXCEPT !.leaving = FALSE, !.open = FALSE, !.timer = FALSE]) /\ Done(r)

-----------------------------------------------------------------------------
\* progressEventReducer, axios.js:2554-2578: the bytes since the last report
Report(p, loaded) ==
  LET before == IF p.told = <<>> THEN 0 ELSE Last(p.told).loaded
  IN [p EXCEPT !.told = Append(@, [loaded |-> loaded, bytes |-> loaded - before]), !.since = clock]

Mut_Throttled(p, loaded) ==
  IF clock - p.since > Threshold THEN Report(p, loaded)
  ELSE IF p.late # 0 THEN p
  ELSE [p EXCEPT !.late = loaded, !.lateAt = p.since + Threshold]

\* throttle, axios.js:2528-2552: at most one report in a while; one that came
\* too early is made later, and those that follow meanwhile are dropped
Throttled(p, loaded) ==
  IF clock - p.since > Threshold THEN Report([p EXCEPT !.late = 0], loaded)
  ELSE IF p.late # 0 THEN p
  ELSE [p EXCEPT !.late = loaded, !.lateAt = p.since + Threshold]

Tracked(r) == Truthy(Own(reqs[r].config, "onDownloadProgress"))

Progresses(r, p) ==
  progress' = [progress EXCEPT ![r] = p] /\ UNCHANGED <<plan, handlers, reqs, tokens, signals, clock>>

\* xhrAdapter, axios.js:2982-2990: a progress event
Progress(r) ==
  /\ Task(r, "xhr", {"busy"}) /\ Tracked(r)
  /\ progress[r].loaded < MaxLoaded
  /\ LET loaded == progress[r].loaded + 1
     IN Progresses(r, Throttled([progress[r] EXCEPT !.loaded = loaded], loaded))

\* streamChunk, axios.js:3054-3087: a chunk in pieces of at most the chunk size
StreamChunk(len, size) ==
  IF len < size THEN <<len>>
  ELSE [i \in 1 .. (len + size - 1) \div size |-> IF i * size <= len THEN size ELSE len % size]

\* readBytes, axios.js:3088-3170: the network's next chunk, of any size, is cut up
Chunk(r) ==
  /\ Task(r, "fetch", {"head"}) /\ Tracked(r)
  /\ \E n \in 1 .. MaxLoaded - progress[r].loaded :
       Progresses(r, [progress[r] EXCEPT !.loaded = @ + n, !.stream = @ \o StreamChunk(n, ChunkSize)])

\* trackStream's pull, axios.js:3171-3213, and fetchProgressDecorator, which posts
\* the event as a task of its own
Pull(r) ==
  /\ ~Calling /\ reqs[r].net = "head" /\ progress[r].stream # <<>>
  /\ LET bytes == progress[r].bytes + Head(progress[r].stream)
     IN Progresses(r, [progress[r] EXCEPT !.bytes = bytes, !.stream = Tail(@), !.posted = Append(@, bytes)])

\* fetchProgressDecorator, axios.js:3215-3226: the posted events, one by one
ProgressPosted(r) ==
  /\ Quiet /\ progress[r].posted # <<>>
  /\ Progresses(r, Throttled([progress[r] EXCEPT !.posted = Tail(@)], Head(progress[r].posted)))

\* throttle's timer, axios.js:2546-2550: with the arguments it was set for
ProgressTimer(r) ==
  /\ Quiet /\ progress[r].late # 0 /\ clock >= progress[r].lateAt
  /\ Progresses(r, Report([progress[r] EXCEPT !.late = 0], progress[r].late))

\* time passes, as far as someone measures it
Tick ==
  /\ Quiet /\ clock < MaxTime
  /\ \E r \in Requests : Busy(reqs[r]) /\ Tracked(r)
  /\ clock' = clock + 1
  /\ UNCHANGED <<plan, handlers, reqs, progress, tokens, signals>>

-----------------------------------------------------------------------------
Init ==
  /\ plan \in Plans
  /\ handlers = [kind \in {"request", "response"} |->
                   LET n == IF plan.manages THEN 0 ELSE Len(plan[kind])
                   IN [list |-> [i \in 1..n |-> i], used |-> n]]
  /\ reqs = [r \in Requests |-> NoRequest]
  /\ progress = [r \in Requests |-> NoProgress]
  /\ tokens = [t \in Tokens |-> NewToken]
  /\ signals = [s \in Signals |-> [aborted |-> FALSE, listeners |-> {}]]
  /\ clock = Threshold + 1

\* the exchange of r ends
Ends(r) ==
  \/ XhrLoad(r) \/ XhrError(r) \/ XhrAbort(r) \/ XhrTimeout(r)
  \/ FetchHead(r) \/ FetchBody(r) \/ FetchFail(r)

Next ==
  \/ \E r \in Requests : \/ Ask(r) \/ CallNow(r) \/ Step(r) \/ Ends(r)
                         \/ FetchTimer(r) \/ Unsubscribe(r)
                         \/ Progress(r) \/ ProgressTimer(r)
                         \/ Chunk(r) \/ Pull(r) \/ ProgressPosted(r)
  \/ \E t \in Tokens : TokenTold(t) \/ Cancel(t)
  \/ \E s \in Signals : Abort(s)
  \/ \E kind \in {"request", "response"} : Use(kind) \/ Clear(kind) \/ \E i \in 1..2 : Eject(kind, i)
  \/ Tick

\* calls return, reactions run, and an exchange is answered or fails; said of
\* the states: an action is enabled just when its predicate holds, and each
\* takes a finite number of steps to make it false
Fairness ==
  /\ []<>~Calling
  /\ \A r \in Requests : /\ []<>~StepReady(r)
                          /\ []<>~Busy(reqs[r])
                          /\ []<>~reqs[r].leaving
  /\ \A t \in Tokens : []<>~TellReady(t)

Spec == Init /\ [][Next]_vars /\ Fairness

-----------------------------------------------------------------------------
\* A request that is cancelled, by its token or its signal, while its adapter's
\* answer or failure is not handed on ends as cancelled: whatever the network,
\* the timers and the listeners did first (dispatchRequest looks again,
\* axios.js:3567)
CancelHolds ==
  [][\A r \in Requests :
       (/\ reqs[r].stage = "adapter" /\ CancelRequested(Turn(r), reqs[r].config)
        /\ reqs'[r].stage # "adapter")
       => IsCancel(reqs'[r].val)]_vars

\* Once every reaction has run, a cancelled request has no exchange under way
\* any more: the listeners reached all of them, in whatever order they came
\* and went (axios.js:2994, 3897); fetch with only a token is the exception,
\* composeSignals does not listen to it (3044)
CancelReachesTheWire ==
  Quiet => \A r \in Requests :
             /\ CancelRequested(Turn(r), reqs[r].config)
             /\ reqs[r].adapter = "xhr" \/ \E s \in SignalOf(reqs[r].config) : signals[s].aborted
             => ~Busy(reqs[r])

\* A request that was answered leaves no listener behind on a token or a signal
\* that lives on (done, axios.js:2866; unsubscribe, 3032).  One that failed on
\* its way does: onerror, onabort and ontimeout do not call done.
ListenersGo ==
  \A r \in Requests :
    reqs[r].net = "load" /\ ~reqs[r].leaving
    => /\ \A t \in Tokens : r \notin tokens[t].listeners
       /\ \A s \in Signals : r \notin signals[s].listeners

Kinds == <<"request", "dispatch", "adapter", "response">>

\* entry b may come anywhere after entry a
Follows(a, b) ==
  \/ \E m, n \in 1..4 : m < n /\ a[1] = Kinds[m] /\ b[1] = Kinds[n]
  \/ a[1] = "request" /\ b[1] = "request" /\ (b[2] < a[2] \/ (b[2] = a[2] /\ b[3] = "err"))
  \/ a[1] = "response" /\ b[1] = "response" /\ a[2] < b[2]

Entries(q, kind) == {e \in ToSet(q.log) : e[1] = kind}
Ran(q, kind) == {e[2] : e \in Entries(q, kind)}
Fine(q, kind) == \A e \in Entries(q, kind) : e[3] = "ok"

\* Of the interceptors registered when the request was made, the request ones
\* run from the last to the first, then the request is dispatched once, then
\* the response ones run from the first to the last; none is left out while
\* all goes well, also when it is ejected meanwhile (axios.js:3784-3833)
InOrder ==
  \A r \in Requests :
    LET q == reqs[r]
    IN /\ \A i, j \in DOMAIN q.log : i < j => Follows(q.log[i], q.log[j])
       /\ Entries(q, "adapter") # {} => Entries(q, "dispatch") # {}
       /\ q.due # <<>> => /\ Ran(q, "request") \subseteq q.due[1] /\ Ran(q, "response") \subseteq q.due[2]
                          /\ Entries(q, "dispatch") # {} /\ Fine(q, "request") => Ran(q, "request") = q.due[1]
                          /\ Over(q) /\ q.val[1] = "ok" /\ Fine(q, "response") => Ran(q, "response") = q.due[2]

\* the header as the layers of options say, the nearest that names it first;
\* Undef if none does
Layered(plan_, config, method, name) ==
  LET part(f, k) == IF IsPlain(Own(f, k)) THEN f[k][2] ELSE None
      user == part(config, "headers")
      base == part(plan_.defaults, "headers")
      first(layers) == LET named == {i \in DOMAIN layers : name \in DOMAIN layers[i]}
                       IN IF named = {} THEN Undef
                          ELSE layers[CHOOSE i \in named : \A j \in named : i <= j][name]
      context == first(<<part(user, method), part(base, method), part(user, "common"), part(base, "common")>>)
      own == {i \in {1, 2} : name \in DOMAIN <<user, base>>[i]}
  IN IF context = No \/ own = {} THEN context ELSE first(<<user, base>>)

\* What goes out is what was asked for: each header from its nearest layer, one
\* that is false or null there not at all; a Content-Type that fits the body
\* unless one was given; the body in the form the Content-Type names, so that
\* the fields can be read back; the parameters behind the query; the token
\* against forgery to the own origin only.  Sent again with its own options, a
\* request is the same, but for URLSearchParams that were to go as JSON, whose
\* text is quoted the second time (axios.js:1997, 2182, 2719, 2808, 3551, 3737)
SentAsAsked ==
  \A r \in Requests : reqs[r].wire # <<>> =>
    IF plan.asks[r][1] = "again"
    THEN LET first == reqs[plan.asks[r][2]].wire
             quoted == first.body[1] = "urlencoded" /\ Own(first.headers, "content-type") = JsonType
         IN reqs[r].wire = IF quoted THEN [first EXCEPT !.body = Json(@)] ELSE first
    ELSE
    LET config == plan.asks[r][2]
        wire == reqs[r].wire
        data == Own(config, "data")
        method == wire.method[2]
        asked(name) == Layered(plan, config, method, name)
        type == asked("content-type")
        fields == data[1] \in {"fields", "list"}
        fitting == IF fields THEN JsonType
                   ELSE IF data[1] = "params" THEN UrlEncodedUtf8
                   ELSE IF method \in {"post", "put", "patch"} THEN UrlEncoded ELSE Undef
        sent(name) == Own(wire.headers, name)
        shown(v) == IF v \in {Null, No} THEN Undef ELSE v
        part(given, own) == IF given = "" THEN own ELSE given
        home == /\ part(wire.url[2].host, Location.host) = Location.host
                /\ part(wire.url[2].scheme, Location.scheme) = Location.scheme
        url == Own(config, "url")[2]
        base == Own(IF "baseURL" \in DOMAIN config THEN config ELSE plan.defaults, "baseURL")
    IN /\ sent("content-type") =
            (IF wire.body[1] = "form" \/ (wire.body = Undef /\ reqs[r].adapter = "xhr") THEN Undef
             ELSE IF type = Undef THEN fitting ELSE shown(type))
       /\ plan.request = <<>> => \A name \in {"accept", "x-page"} : sent(name) = shown(asked(name))
       /\ (sent("X-XSRF-TOKEN") # Undef) =
            (home /\ Own(config, "withXSRFToken") # No /\ "XSRF-TOKEN" \in DOMAIN Cookies)
       /\ CASE data[1] = "form" /\ type = JsonType -> wire.body = Json(plan.readBack)
            [] fields /\ type \in {UrlEncoded, Multipart} -> wire.body[2] = plan.pairs
            [] fields /\ type \notin {UrlEncoded, Multipart} -> wire.body = Json(data)
            [] data[1] = "params" -> wire.body[2] = data[2]
            [] data[1] \in {"str", "null"} /\ type = JsonType -> wire.body = Json(data)
            [] OTHER -> wire.body = data
       /\ IsSuffix(url.path, wire.url[2].path) /\ IsPrefix(url.query, wire.url[2].query)
       /\ wire.url[2].host = IF url.host # "" THEN url.host
                             ELSE IF base # Undef THEN base[2].host ELSE ""
       /\ (wire.url[2].hash = "") = (url.hash = "" \/ Len(wire.url[2].query) > Len(url.query))

\* What the application is told of a download only grows, and the bytes it is
\* told add up, also when a report that was put off meets one made at once
\* (throttle, axios.js:2528-2552)
ProgressGrows ==
  \A r \in Requests : \A i \in DOMAIN progress[r].told :
    progress[r].told[i].bytes > 0 /\ progress[r].told[i].loaded <= progress[r].loaded

\* Every request ends: as long as exchanges end somehow and reactions run,
\* whatever is cancelled, thrown or not supported on the way, its promise is
\* settled (axios.js:2858-3016, 3345-3460, 3737-3833)
EveryRequestEnds == \A r \in Requests : reqs[r].stage # "unasked" ~> (Outcome(reqs[r]) # Waiting)
=============================================================================
