---------------------------- MODULE AxiosProofs ----------------------------
(***************************************************************************)
(* What of axios's requests holds for every plan, every set of requests,   *)
(* tokens and signals, every configuration and every bound.                *)
(*   Two inductive invariants carry it.  WireInv keeps exchanges and       *)
(* listeners in step: a request whose exchange is under way is subscribed  *)
(* to its signals, over xhr to its token as well, and one that was         *)
(* answered to none.  ChainInv says where each chain is: which             *)
(* interceptors are still to run, and that what was logged lies behind     *)
(* them in the order.  A third, ProgInv, rests on the first: what was      *)
(* loaded, streamed, posted and told of a download adds up.                *)
(*   A reaction is a turn of one request (Legal); what comes from outside  *)
(* leaves every chain alone but for settling the adapter's promise         *)
(* (Outside).  NextOutside says that a step is one or the other.           *)
(***************************************************************************)
EXTENDS Axios, FiniteSetTheorems, WellFoundedInduction, TLAPS

\* The parts of a request.
Parts == {"stage", "config", "before", "after", "val", "log", "due", "adapter", "open", "net",
          "wire", "timer", "leaving"}

TokenState == [reason : BOOLEAN, told : BOOLEAN, listeners : SUBSET Requests]
SignalState == [aborted : BOOLEAN, listeners : SUBSET Requests]

\* Tokens and signals: a token that has told its listeners has none.
Listened(toks, sigs) ==
  /\ toks \in [Tokens -> TokenState]
  /\ sigs \in [Signals -> SignalState]
  /\ \A t \in Tokens : toks[t].told => toks[t].reason /\ toks[t].listeners = {}

\* Where a request's adapter is.
Alive(q) ==
  /\ q.adapter \in {"none", "xhr", "fetch"}
  /\ q.stage \in {"unasked", "now", "request"} => q.adapter = "none"
  /\ q.adapter = "none" => q.net = "idle" /\ ~q.open
  /\ q.open \in BOOLEAN /\ q.timer \in BOOLEAN /\ q.leaving \in BOOLEAN
  /\ q.timer \/ q.leaving => q.adapter = "fetch"
  /\ q.leaving => ~Busy(q)
  /\ q.adapter = "xhr" => q.net # "head" /\ (q.net = "busy" => q.open)
  /\ (q.adapter = "fetch" /\ Busy(q) /\ SignalOf(q.config) # {}) => q.open

\* The signals of config have not been aborted, and r listens to them.
Hears(r, config, sigs) == \A s \in SignalOf(config) : ~sigs[s].aborted /\ r \in sigs[s].listeners

Unheard(r, toks, sigs) == /\ \A t \in Tokens : r \notin toks[t].listeners
                          /\ \A s \in Signals : r \notin sigs[s].listeners

\* A request whose exchange is under way listens to all that may cancel it, one
\* that was answered to nothing.
Linked(r, q, toks, sigs) ==
  /\ Busy(q) => Hears(r, q.config, sigs)
  /\ (q.adapter = "xhr" /\ Busy(q)) => \A t \in TokenOf(q.config) : r \in toks[t].listeners
  /\ \A t \in Tokens : r \in toks[t].listeners => q.adapter = "xhr"
  /\ (q.net = "load" /\ ~q.leaving) => Unheard(r, toks, sigs)

\* Exchanges and listeners are in step.
WireInv ==
  /\ DOMAIN reqs = Requests
  /\ Listened(tokens, signals)
  /\ \A r \in Requests : DOMAIN reqs[r] = Parts /\ Alive(reqs[r]) /\ Linked(r, reqs[r], tokens, signals)

\* For the requests other than r, toks and sigs are as they were.
Others(r, toks, sigs) ==
  \A x \in Requests \ {r} :
    /\ \A t \in Tokens : x \in toks[t].listeners <=> x \in tokens[t].listeners
    /\ \A s \in Signals : /\ sigs[s].aborted = signals[s].aborted
                          /\ x \in sigs[s].listeners <=> x \in signals[s].listeners

\* A turn of r's that leaves WireInv true.
Legal(r, w) ==
  /\ DOMAIN w = {"q", "tokens", "signals"} /\ DOMAIN w.q = Parts
  /\ Listened(w.tokens, w.signals) /\ Others(r, w.tokens, w.signals)
  /\ Alive(w.q) /\ Linked(r, w.q, w.tokens, w.signals)

-----------------------------------------------------------------------------
\* A turn begins legal.
LEMMA TurnLegal == ASSUME WireInv, NEW r \in Requests PROVE Legal(r, Turn(r))
  BY DEF WireInv, Legal, Turn, Others

\* A turn of r's takes nothing from the other requests.
LEMMA OthersLinked ==
  ASSUME WireInv, NEW r \in Requests, NEW toks, NEW sigs, Others(r, toks, sigs),
         NEW x \in Requests, x # r
  PROVE  Linked(x, reqs[x], toks, sigs)
<1>1. Linked(x, reqs[x], tokens, signals)
  BY DEF WireInv
<1>2. /\ \A t \in Tokens : x \in toks[t].listeners <=> x \in tokens[t].listeners
      /\ \A s \in Signals : /\ sigs[s].aborted = signals[s].aborted
                            /\ x \in sigs[s].listeners <=> x \in signals[s].listeners
  BY DEF Others
<1>3. QED
  BY <1>1, <1>2 DEF Linked, Hears, Unheard, TokenOf, SignalOf

\* What a legal turn becomes keeps requests, exchanges and listeners in step.
LEMMA LegalTurn ==
  ASSUME WireInv, NEW r \in Requests, NEW w, Legal(r, w), Becomes(r, w)
  PROVE  WireInv'
<1>1. DOMAIN reqs' = Requests /\ reqs'[r] = w.q /\ \A x \in Requests : x # r => reqs'[x] = reqs[x]
  BY DEF Becomes, WireInv
<1>2. tokens' = w.tokens /\ signals' = w.signals
  BY DEF Becomes
<1>3. Listened(tokens', signals')
  BY <1>2 DEF Legal
<1>4. ASSUME NEW x \in Requests
      PROVE  DOMAIN reqs'[x] = Parts /\ Alive(reqs'[x]) /\ Linked(x, reqs'[x], tokens', signals')
  <2>1. CASE x = r
    BY <1>1, <1>2, <2>1 DEF Legal
  <2>2. CASE x # r
    <3>1. Linked(x, reqs[x], w.tokens, w.signals)
      BY <2>2, OthersLinked DEF Legal
    <3>2. QED
      BY <1>1, <1>2, <2>2, <3>1 DEF WireInv
  <2>3. QED
    BY <2>1, <2>2
<1>5. QED
  BY <1>1, <1>3, <1>4 DEF WireInv

\* What a reaction may change of a turn without harm: the chain's own parts, and
\* that a token is cancelled.
Chainwise(w, v) ==
  /\ DOMAIN v = {"q", "tokens", "signals"} /\ DOMAIN v.q = Parts
  /\ v.q.stage = w.q.stage \/ v.q.stage = "response"
  /\ v.q.config = w.q.config /\ v.q.adapter = w.q.adapter /\ v.q.open = w.q.open
  /\ v.q.net = w.q.net /\ v.q.timer = w.q.timer /\ v.q.leaving = w.q.leaving
  /\ v.signals = w.signals /\ v.tokens \in [Tokens -> TokenState]
  /\ \A t \in Tokens : /\ v.tokens[t].told = w.tokens[t].told
                       /\ v.tokens[t].listeners = w.tokens[t].listeners
                       /\ w.tokens[t].reason => v.tokens[t].reason

\* A legal turn that changes only in the chain's own parts stays legal.
LEMMA ChainwiseLegal ==
  ASSUME NEW r \in Requests, NEW w, Legal(r, w), NEW v, Chainwise(w, v)
  PROVE  Legal(r, v)
<1>1. Alive(v.q)
  BY DEF Legal, Chainwise, Alive, Busy
<1>2. Linked(r, v.q, v.tokens, v.signals)
  BY DEF Legal, Chainwise, Linked, Busy, Unheard, TokenOf
<1>3. Listened(v.tokens, v.signals)
  BY DEF Legal, Chainwise, Listened
<1>4. Others(r, v.tokens, v.signals)
  BY DEF Legal, Chainwise, Others
<1>5. QED
  BY <1>1, <1>2, <1>3, <1>4 DEF Legal, Chainwise

-----------------------------------------------------------------------------
(* The reactions of the chain *)

Shaped(w) == /\ DOMAIN w = {"q", "tokens", "signals"} /\ DOMAIN w.q = Parts
             /\ w.tokens \in [Tokens -> TokenState]

\* Only the log, the value and tokens' reasons differ.
Kept(w, v) == /\ Chainwise(w, v) /\ v.q.stage = w.q.stage
              /\ v.q.before = w.q.before /\ v.q.after = w.q.after /\ v.q.due = w.q.due

\* Keeping is transitive.
LEMMA KeptTransitive == ASSUME NEW u, NEW v, NEW w, Kept(u, v), Kept(v, w) PROVE Kept(u, w)
  BY DEF Kept, Chainwise

\* What keeps a turn has its shape.
LEMMA KeptShaped == ASSUME NEW u, NEW v, Kept(u, v) PROVE Shaped(v)
  BY DEF Kept, Chainwise, Shaped

\* Settled changes the value only.
LEMMA SettledTurn ==
  ASSUME NEW w, Shaped(w), NEW val
  PROVE  /\ Kept(w, Settled(w, val))
         /\ Settled(w, val).q.val = val /\ Settled(w, val).q.log = w.q.log
  BY DEF Shaped, Kept, Chainwise, Settled, Parts

\* Log changes the log only.
LEMMA LogRequest ==
  ASSUME NEW q, DOMAIN q = Parts, NEW e
  PROVE  /\ DOMAIN Log(q, e) = Parts /\ Log(q, e).log = Append(q.log, e)
         /\ \A f \in Parts \ {"log"} : Log(q, e)[f] = q[f]
  BY DEF Log, Parts

\* A turn with an entry more in its log.
Logged(w, e) == [w EXCEPT !.q = Log(@, e)]

\* Logging keeps a turn.
LEMMA LogTurn ==
  ASSUME NEW w, Shaped(w), NEW e
  PROVE  /\ Kept(w, Logged(w, e))
         /\ Logged(w, e).q.val = w.q.val /\ Logged(w, e).q.log = Append(w.q.log, e)
<1>1. DOMAIN w.q = Parts /\ DOMAIN w = {"q", "tokens", "signals"}
  BY DEF Shaped
<1>2. /\ DOMAIN Log(w.q, e) = Parts /\ Log(w.q, e).log = Append(w.q.log, e)
      /\ \A f \in Parts \ {"log"} : Log(w.q, e)[f] = w.q[f]
  BY <1>1, LogRequest
<1>3. /\ Logged(w, e).q = Log(w.q, e) /\ Logged(w, e).tokens = w.tokens
      /\ Logged(w, e).signals = w.signals /\ DOMAIN Logged(w, e) = DOMAIN w
  BY <1>1 DEF Logged
<1>4. QED
  BY <1>1, <1>2, <1>3 DEF Shaped, Kept, Chainwise, Parts

\* Cancelling a token keeps a turn.
LEMMA CancelTurn ==
  ASSUME NEW w, Shaped(w), NEW t \in Tokens
  PROVE  /\ Kept(w, [w EXCEPT !.tokens = CancelIt(@, t)])
         /\ [w EXCEPT !.tokens = CancelIt(@, t)].q = w.q
<1>1. /\ CancelIt(w.tokens, t) \in [Tokens -> TokenState]
      /\ \A x \in Tokens : /\ CancelIt(w.tokens, t)[x].told = w.tokens[x].told
                           /\ CancelIt(w.tokens, t)[x].listeners = w.tokens[x].listeners
                           /\ w.tokens[x].reason => CancelIt(w.tokens, t)[x].reason
  BY DEF Shaped, CancelIt, TokenState
<1>2. QED
  BY <1>1 DEF Shaped, Kept, Chainwise

\* A settled value.
Answer(val) == val[1] \in {"ok", "err"}

\* An interceptor keeps a turn and leaves it settled.
LEMMA InterceptTurn ==
  ASSUME NEW w, Shaped(w), NEW h, NEW x
  PROVE  /\ Kept(w, Intercept(w, h, x)) /\ Intercept(w, h, x).q.log = w.q.log
         /\ Answer(Intercept(w, h, x).q.val)
<1>1. CASE h.does = "throw"
  BY <1>1, SettledTurn DEF Intercept, Err, Answer
<1>2. CASE h.does \in {"header", "strip", "bare"}
  <2>1. PICK y : Intercept(w, h, x) = Settled(w, Ok(y))
    BY <1>2 DEF Intercept
  <2>2. QED
    BY <2>1, SettledTurn DEF Ok, Answer
<1>3. CASE h.does = "cancel"
  <2>1. CASE Tokens = {}
    <3> DEFINE v == [w EXCEPT !.tokens = @]
    <3>1. Kept(w, v) /\ v.q = w.q
      BY DEF Shaped, Kept, Chainwise
    <3>2. Intercept(w, h, x) = Settled(v, Ok(x))
      BY <1>3, <2>1 DEF Intercept
    <3> HIDE DEF v
    <3>3. QED
      BY <3>1, <3>2, KeptShaped, KeptTransitive, SettledTurn DEF Ok, Answer
  <2>2. CASE Tokens # {}
    <3>1. PICK t \in Tokens : t = CHOOSE y \in Tokens : TRUE
      BY <2>2
    <3> DEFINE v == [w EXCEPT !.tokens = CancelIt(@, t)]
    <3>2. Intercept(w, h, x) = Settled(v, Ok(x))
      BY <1>3, <2>2, <3>1 DEF Intercept
    <3>3. Kept(w, v) /\ v.q = w.q
      BY CancelTurn
    <3> HIDE DEF v
    <3>4. QED
      BY <3>2, <3>3, KeptShaped, KeptTransitive, SettledTurn DEF Ok, Answer
  <2>3. QED
    BY <2>1, <2>2
<1>4. CASE h.does \notin {"throw", "header", "strip", "bare", "cancel"}
  <2>1. Intercept(w, h, x) = Settled(w, Ok(x))
    BY <1>4 DEF Intercept
  <2>2. QED
    BY <2>1, SettledTurn DEF Ok, Answer
<1>5. QED
  BY <1>1, <1>2, <1>3, <1>4

\* What Handle makes of the value and the log: nothing, or the interceptor was
\* given the value, or the error.
Moved(w, v, kind, i) ==
  \/ w.q.val[1] # "ok" /\ v.q.val = w.q.val /\ v.q.log = w.q.log
  \/ w.q.val[1] = "ok" /\ Answer(v.q.val) /\ v.q.log = Append(w.q.log, <<kind, i, "ok">>)
  \/ /\ w.q.val[1] # "ok" /\ (v.q.val = w.q.val \/ Answer(v.q.val))
     /\ v.q.log = Append(w.q.log, <<kind, i, "err">>)

Handled(w, v, kind, i) == Kept(w, v) /\ Moved(w, v, kind, i)

\* One reaction of the chain keeps a turn, and logs the interceptor when it ran.
LEMMA HandleTurn ==
  ASSUME NEW w, Shaped(w), NEW kind, NEW i, NEW fallback
  PROVE  Handled(w, Handle(w, kind, i, fallback), kind, i)
<1> DEFINE h == plan[kind][i]
           ok == Logged(w, <<kind, i, "ok">>)
           err == Logged(w, <<kind, i, "err">>)
<1>1. Kept(w, ok) /\ ok.q.val = w.q.val /\ ok.q.log = Append(w.q.log, <<kind, i, "ok">>)
  BY LogTurn
<1>2. Kept(w, err) /\ err.q.val = w.q.val /\ err.q.log = Append(w.q.log, <<kind, i, "err">>)
  BY LogTurn
<1>3. Handle(w, kind, i, fallback) =
        IF w.q.val[1] = "ok" THEN Intercept(ok, h, w.q.val[2])
        ELSE IF h.rejected = "none" THEN w
        ELSE IF h.rejected = "recover" THEN Settled(err, Ok(fallback)) ELSE err
  BY Zenon DEF Handle, Logged
<1>4. Kept(w, w)
  BY DEF Kept, Chainwise, Shaped
<1> HIDE DEF h, ok, err
<1>5. CASE w.q.val[1] = "ok"
  <2>1. Handle(w, kind, i, fallback) = Intercept(ok, h, w.q.val[2])
    BY <1>3, <1>5
  <2>2. Shaped(ok)
    BY <1>1, KeptShaped
  <2> DEFINE v == Intercept(ok, h, w.q.val[2])
  <2>3. Kept(ok, v) /\ v.q.log = ok.q.log /\ Answer(v.q.val)
    BY <2>2, InterceptTurn
  <2> HIDE DEF v
  <2>4. Kept(w, v)
    BY <1>1, <2>3, KeptTransitive
  <2>5. Handled(w, v, kind, i)
    BY <1>1, <1>5, <2>3, <2>4 DEF Handled, Moved
  <2>6. QED
    BY <2>1, <2>5 DEF v
<1>6. CASE w.q.val[1] # "ok" /\ h.rejected = "none"
  BY <1>3, <1>4, <1>6 DEF Handled, Moved
<1>7. CASE w.q.val[1] # "ok" /\ h.rejected = "recover"
  <2>1. Handle(w, kind, i, fallback) = Settled(err, Ok(fallback))
    BY <1>3, <1>7
  <2>2. Shaped(err)
    BY <1>2, KeptShaped
  <2> DEFINE v == Settled(err, Ok(fallback))
  <2>3. Kept(err, v) /\ v.q.log = err.q.log /\ v.q.val = Ok(fallback)
    BY <2>2, SettledTurn
  <2> HIDE DEF v
  <2>4. Kept(w, v)
    BY <1>2, <2>3, KeptTransitive
  <2>5. Answer(v.q.val)
    BY <2>3 DEF Ok, Answer
  <2>6. Handled(w, v, kind, i)
    BY <1>2, <1>7, <2>3, <2>4, <2>5 DEF Handled, Moved
  <2>7. QED
    BY <2>1, <2>6 DEF v
<1>8. CASE w.q.val[1] # "ok" /\ h.rejected \notin {"none", "recover"}
  BY <1>2, <1>3, <1>8 DEF Handled, Moved
<1>9. QED
  BY <1>5, <1>6, <1>7, <1>8

-----------------------------------------------------------------------------
(* The adapters *)

\* The dispatch gives the adapter the cancellation it was asked with.
LEMMA PreparedKeeps ==
  ASSUME NEW config, NEW k, k \notin {"data", "headers"}
  PROVE  Own(Prepared(config), k) = Own(config, k)
  BY DEF Own, Prepared

\* What is dispatched listens to the tokens and signals it was asked with.
LEMMA SameSignals ==
  ASSUME NEW config
  PROVE  TokenOf(Prepared(config)) = TokenOf(config) /\ SignalOf(Prepared(config)) = SignalOf(config)
<1>1. Own(Prepared(config), "cancelToken") = Own(config, "cancelToken")
  BY PreparedKeeps
<1>2. Own(Prepared(config), "signal") = Own(config, "signal")
  BY PreparedKeeps
<1>3. QED
  BY <1>1, <1>2 DEF TokenOf, SignalOf

\* Settle changes the value, and only while it is awaited.
LEMMA SettleFields ==
  ASSUME NEW q, DOMAIN q = Parts, NEW val
  PROVE  /\ DOMAIN Settle(q, val) = Parts
         /\ \A f \in Parts \ {"val"} : Settle(q, val)[f] = q[f]
         /\ Settle(q, val).val = IF q.val = Waiting THEN val ELSE q.val
  BY DEF Settle, Parts

\* What onCanceled changes of a request, part by part.
LEMMA CanceledFields ==
  ASSUME NEW q, DOMAIN q = Parts
  PROVE  /\ DOMAIN OnCanceled(q) = Parts
         /\ \A f \in Parts \ {"val", "open", "net"} : OnCanceled(q)[f] = q[f]
         /\ OnCanceled(q).open = (IF q.open THEN FALSE ELSE q.open)
         /\ OnCanceled(q).net = (IF q.open /\ q.net = "busy" THEN "aborted" ELSE q.net)
         /\ OnCanceled(q).val = (IF q.open /\ q.val = Waiting THEN Err(CANCELED) ELSE q.val)
<1> DEFINE s == Settle(q, Err(CANCELED))
<1>1. /\ DOMAIN s = Parts /\ \A f \in Parts \ {"val"} : s[f] = q[f]
      /\ s.val = IF q.val = Waiting THEN Err(CANCELED) ELSE q.val
  BY SettleFields
<1>2. OnCanceled(q) = IF ~q.open THEN q
                      ELSE [s EXCEPT !.open = FALSE, !.net = IF @ = "busy" THEN "aborted" ELSE @]
  BY Zenon DEF OnCanceled
<1> HIDE DEF s
<1>3. QED
  BY <1>1, <1>2 DEF Parts

\* What composeSignals' onabort changes of a request, part by part.
LEMMA AbortFields ==
  ASSUME NEW q, DOMAIN q = Parts, NEW code
  PROVE  /\ DOMAIN OnAbort(q, code) = Parts
         /\ \A f \in Parts \ {"val", "open", "net", "timer"} : OnAbort(q, code)[f] = q[f]
         /\ OnAbort(q, code).open = (IF q.open THEN FALSE ELSE q.open)
         /\ OnAbort(q, code).timer = (IF q.open THEN FALSE ELSE q.timer)
         /\ OnAbort(q, code).net = (IF q.open /\ Busy(q) THEN "aborted" ELSE q.net)
         /\ OnAbort(q, code).val = (IF q.open /\ Busy(q) /\ q.val = Waiting THEN Err(code) ELSE q.val)
<1> DEFINE c == [q EXCEPT !.open = FALSE, !.timer = FALSE]
           s == Settle(c, Err(code))
<1>1. /\ DOMAIN c = Parts /\ \A f \in Parts \ {"open", "timer"} : c[f] = q[f]
      /\ c.open = FALSE /\ c.timer = FALSE
  BY DEF Parts
<1>2. OnAbort(q, code) = IF ~q.open THEN q
                         ELSE IF Busy(q) THEN [s EXCEPT !.net = "aborted"] ELSE c
  BY Zenon DEF OnAbort
<1> HIDE DEF c
<1>3. /\ DOMAIN s = Parts /\ \A f \in Parts \ {"val"} : s[f] = c[f]
      /\ s.val = IF c.val = Waiting THEN Err(code) ELSE c.val
  BY <1>1, SettleFields
<1> HIDE DEF s
<1>4. QED
  BY <1>1, <1>2, <1>3 DEF Parts

\* r listens to one more token or signal.
LEMMA SubscribedToken ==
  ASSUME NEW x \in TokenState, NEW r \in Requests
  PROVE  /\ Subscribed(x, r) \in TokenState
         /\ Subscribed(x, r).reason = x.reason /\ Subscribed(x, r).told = x.told
         /\ Subscribed(x, r).listeners = x.listeners \cup {r}
  BY DEF TokenState, Subscribed

\* Subscribing adds a listener to a signal.
LEMMA SubscribedSignal ==
  ASSUME NEW x \in SignalState, NEW r \in Requests
  PROVE  /\ Subscribed(x, r) \in SignalState
         /\ Subscribed(x, r).aborted = x.aborted
         /\ Subscribed(x, r).listeners = x.listeners \cup {r}
  BY DEF SignalState, Subscribed

\* A turn before its request has an adapter.
Before(r, w) == /\ DOMAIN w = {"q", "tokens", "signals"} /\ DOMAIN w.q = Parts
                /\ Listened(w.tokens, w.signals) /\ Others(r, w.tokens, w.signals)
                /\ Alive(w.q) /\ w.q.adapter = "none"
                /\ \A t \in Tokens : r \notin w.tokens[t].listeners

\* What xhrAdapter makes of its request: it is sent only when nothing cancelled it.
LEMMA StartXhrQ ==
  ASSUME NEW r \in Requests, NEW w, Before(r, w), w.q.stage = "adapter", NEW config,
         w.q.config = config, w.q.val = Waiting, NEW v, v = StartXhr(w, r, config)
  PROVE  /\ DOMAIN v.q = Parts
         /\ \A f \in Parts \ {"adapter", "open", "net", "val", "wire"} : v.q[f] = w.q[f]
         /\ v.q.adapter = "xhr" /\ v.q.open \in BOOLEAN
         /\ v.q.net \in {"idle", "busy"}
         /\ v.q.net = "busy" => v.q.open /\ ~CancelRequested(w, config)
         /\ v.q.val = Waiting \/ Answer(v.q.val)
<1> DEFINE opened == [w.q EXCEPT !.open = TRUE, !.adapter = "xhr"]
           cancelled == OnCanceled(opened)
           subscribed == IF CancelRequested(w, config) THEN cancelled ELSE opened
           refused == Settle(subscribed, Err("ERR_BAD_REQUEST"))
<1>1. DOMAIN w.q = Parts /\ w.q.net = "idle"
  BY DEF Before, Alive
<1>2. /\ DOMAIN opened = Parts /\ \A f \in Parts \ {"open", "adapter"} : opened[f] = w.q[f]
      /\ opened.open = TRUE /\ opened.adapter = "xhr"
  BY <1>1 DEF Parts
<1>3. v.q = IF Outgoing(config, "xhr").url[2].scheme \notin Protocols THEN refused
            ELSE IF ~subscribed.open THEN subscribed
            ELSE [subscribed EXCEPT !.net = "busy", !.wire = Outgoing(config, "xhr")]
  BY SMT DEF StartXhr
<1> HIDE DEF opened
<1>4. /\ DOMAIN cancelled = Parts
      /\ \A f \in Parts \ {"val", "open", "net"} : cancelled[f] = opened[f]
      /\ cancelled.open = FALSE /\ cancelled.net = "idle"
      /\ cancelled.val = Err(CANCELED)
  BY <1>1, <1>2, CanceledFields DEF Parts
<1> HIDE DEF cancelled
<1>5. /\ DOMAIN subscribed = Parts
      /\ \A f \in Parts \ {"open", "adapter", "val", "net"} : subscribed[f] = w.q[f]
      /\ subscribed.adapter = "xhr" /\ subscribed.open \in BOOLEAN /\ subscribed.net = "idle"
      /\ subscribed.open => ~CancelRequested(w, config)
      /\ subscribed.val = Waiting \/ subscribed.val = Err(CANCELED)
  BY <1>1, <1>2, <1>4 DEF Parts
<1> HIDE DEF subscribed
<1>6. /\ DOMAIN refused = Parts /\ \A f \in Parts \ {"val"} : refused[f] = subscribed[f]
      /\ refused.val \in {Err("ERR_BAD_REQUEST"), subscribed.val}
  BY <1>5, SettleFields
<1> HIDE DEF refused
<1>7. Answer(Err(CANCELED)) /\ Answer(Err("ERR_BAD_REQUEST"))
  BY DEF Answer, Err
<1>8. CASE Outgoing(config, "xhr").url[2].scheme \notin Protocols
  BY <1>3, <1>5, <1>6, <1>7, <1>8 DEF Parts
<1>9. CASE Outgoing(config, "xhr").url[2].scheme \in Protocols /\ ~subscribed.open
  BY <1>3, <1>5, <1>7, <1>9 DEF Parts
<1>10. CASE Outgoing(config, "xhr").url[2].scheme \in Protocols /\ subscribed.open
  <2>1. v.q = [subscribed EXCEPT !.net = "busy", !.wire = Outgoing(config, "xhr")]
    BY <1>3, <1>10
  <2>2. /\ DOMAIN v.q = Parts /\ v.q.net = "busy"
        /\ \A f \in Parts \ {"net", "wire"} : v.q[f] = subscribed[f]
    BY <1>5, <2>1 DEF Parts
  <2>3. QED
    BY <1>5, <1>7, <1>10, <2>2 DEF Parts
<1>11. QED
  BY <1>8, <1>9, <1>10

\* xhrAdapter's turn is legal: what it sends listens to all that may cancel it.
LEMMA StartXhrTurn ==
  ASSUME NEW r \in Requests, NEW w, Before(r, w), w.q.stage = "adapter", NEW config,
         w.q.config = config, w.q.val = Waiting, NEW v, v = StartXhr(w, r, config)
  PROVE  Legal(r, v)
<1>1. /\ DOMAIN v.q = Parts
      /\ \A f \in Parts \ {"adapter", "open", "net", "val", "wire"} : v.q[f] = w.q[f]
      /\ v.q.adapter = "xhr" /\ v.q.open \in BOOLEAN
      /\ v.q.net \in {"idle", "busy"}
      /\ v.q.net = "busy" => v.q.open /\ ~CancelRequested(w, config)
  BY StartXhrQ
<1>2. /\ v.q.stage = "adapter" /\ v.q.config = config
      /\ v.q.timer = w.q.timer /\ v.q.leaving = w.q.leaving
  BY <1>1 DEF Parts
<1>3. Listened(w.tokens, w.signals) /\ Others(r, w.tokens, w.signals)
  BY DEF Before
<1>4. v.tokens = [t \in Tokens |-> IF t \in TokenOf(config) /\ ~w.tokens[t].reason
                                   THEN Subscribed(w.tokens[t], r) ELSE w.tokens[t]]
  BY SMT DEF StartXhr
<1>5. v.signals = [s \in Signals |-> IF s \in SignalOf(config) /\ ~w.signals[s].aborted
                                     THEN Subscribed(w.signals[s], r) ELSE w.signals[s]]
  BY SMT DEF StartXhr
<1>6. DOMAIN v = {"q", "tokens", "signals"}
  BY SMT DEF StartXhr
<1>7. \A t \in Tokens :
        /\ v.tokens[t] \in TokenState
        /\ v.tokens[t].reason = w.tokens[t].reason /\ v.tokens[t].told = w.tokens[t].told
        /\ \A x : x \in v.tokens[t].listeners <=>
                   \/ x \in w.tokens[t].listeners
                   \/ x = r /\ t \in TokenOf(config) /\ ~w.tokens[t].reason
  <2> TAKE t \in Tokens
  <2>1. w.tokens[t] \in TokenState
    BY <1>3 DEF Listened
  <2>2. CASE t \in TokenOf(config) /\ ~w.tokens[t].reason
    <3>1. v.tokens[t] = Subscribed(w.tokens[t], r)
      BY <1>4, <2>2
    <3>2. QED
      BY <2>1, <2>2, <3>1, SubscribedToken
  <2>3. CASE ~(t \in TokenOf(config) /\ ~w.tokens[t].reason)
    <3>1. v.tokens[t] = w.tokens[t]
      BY <1>4, <2>3
    <3>2. QED
      BY <2>1, <2>3, <3>1
  <2>4. QED
    BY <2>2, <2>3
<1>8. \A s \in Signals :
        /\ v.signals[s] \in SignalState
        /\ v.signals[s].aborted = w.signals[s].aborted
        /\ \A x : x \in v.signals[s].listeners <=>
                   \/ x \in w.signals[s].listeners
                   \/ x = r /\ s \in SignalOf(config) /\ ~w.signals[s].aborted
  <2> TAKE s \in Signals
  <2>1. w.signals[s] \in SignalState
    BY <1>3 DEF Listened
  <2>2. CASE s \in SignalOf(config) /\ ~w.signals[s].aborted
    <3>1. v.signals[s] = Subscribed(w.signals[s], r)
      BY <1>5, <2>2
    <3>2. QED
      BY <2>1, <2>2, <3>1, SubscribedSignal
  <2>3. CASE ~(s \in SignalOf(config) /\ ~w.signals[s].aborted)
    <3>1. v.signals[s] = w.signals[s]
      BY <1>5, <2>3
    <3>2. QED
      BY <2>1, <2>3, <3>1
  <2>4. QED
    BY <2>2, <2>3
<1>9. Listened(v.tokens, v.signals)
  <2>1. v.tokens \in [Tokens -> TokenState]
    BY <1>4, <1>7
  <2>2. v.signals \in [Signals -> SignalState]
    BY <1>5, <1>8
  <2>3. QED
    BY <1>3, <1>7, <2>1, <2>2 DEF Listened
<1>10. Others(r, v.tokens, v.signals)
  BY <1>3, <1>7, <1>8 DEF Others
<1>11. Alive(v.q)
  BY <1>1, <1>2 DEF Before, Alive, Busy
<1>12. Linked(r, v.q, v.tokens, v.signals)
  <2>1. ASSUME v.q.net = "busy"
        PROVE  /\ Hears(r, config, v.signals)
               /\ \A t \in TokenOf(config) : r \in v.tokens[t].listeners
    BY <1>1, <1>7, <1>8, <2>1 DEF CancelRequested, Hears, TokenOf, SignalOf
  <2>2. QED
    BY <1>1, <1>2, <2>1 DEF Linked, Busy
<1>13. QED
  BY <1>1, <1>6, <1>9, <1>10, <1>11, <1>12 DEF Legal

\* What fetchAdapter makes of its request and the signals.
LEMMA StartFetchQ ==
  ASSUME NEW r \in Requests, NEW w, Before(r, w), NEW config, NEW v, v = StartFetch(w, r, config)
  PROVE  /\ DOMAIN v = {"q", "tokens", "signals"} /\ DOMAIN v.q = Parts
         /\ \A f \in Parts \ {"adapter", "open", "net", "wire", "timer"} : v.q[f] = w.q[f]
         /\ v.q.adapter = "fetch" /\ v.q.net = "busy"
         /\ v.q.open \in BOOLEAN /\ v.q.timer \in BOOLEAN
         /\ SignalOf(config) # {} => v.q.open
         /\ v.tokens = w.tokens
         /\ v.signals = [s \in Signals |-> IF s \in SignalOf(config) THEN Subscribed(w.signals[s], r)
                                           ELSE w.signals[s]]
<1> DEFINE q1 == [w.q EXCEPT !.adapter = "fetch", !.net = "busy", !.wire = Outgoing(config, "fetch")]
           u == [w EXCEPT !.q = q1]
           timed == Truthy(Own(config, "timeout"))
<1>1. DOMAIN w.q = Parts /\ DOMAIN w = {"q", "tokens", "signals"}
  BY DEF Before
<1>2. /\ DOMAIN q1 = Parts /\ q1.adapter = "fetch" /\ q1.net = "busy"
      /\ \A f \in Parts \ {"adapter", "net", "wire"} : q1[f] = w.q[f]
  BY <1>1 DEF Parts
<1>3. v = ComposeSignals(u, r, config)
  BY Zenon DEF StartFetch
<1> HIDE DEF q1
<1>4. u.q = q1 /\ u.tokens = w.tokens /\ u.signals = w.signals
  BY <1>1
<1> HIDE DEF u
<1> DEFINE o == timed \/ TokenOf(config) # {} \/ SignalOf(config) # {}
<1>5. /\ v.q = [u.q EXCEPT !.timer = timed, !.open = o]
      /\ v.tokens = u.tokens /\ DOMAIN v = {"q", "tokens", "signals"}
      /\ v.signals = [s \in Signals |-> IF s \in SignalOf(config) THEN Subscribed(u.signals[s], r)
                                        ELSE u.signals[s]]
  BY <1>3, SMT DEF ComposeSignals
<1>6. timed \in BOOLEAN /\ o \in BOOLEAN /\ (SignalOf(config) # {} => o)
  <2>1. timed \in BOOLEAN
    BY Zenon DEF Truthy
  <2> HIDE DEF timed
  <2>2. o \in BOOLEAN
    BY <2>1, Zenon
  <2>3. SignalOf(config) # {} => o
    BY Zenon
  <2>4. QED
    BY <2>1, <2>2, <2>3
<1> HIDE DEF timed, o
<1>7. v.q = [q1 EXCEPT !.timer = timed, !.open = o]
  BY <1>4, <1>5
<1>8. /\ DOMAIN v.q = Parts /\ \A f \in Parts \ {"open", "timer"} : v.q[f] = q1[f]
      /\ v.q.timer = timed /\ v.q.open = o
  BY <1>2, <1>7 DEF Parts
<1>9. /\ \A f \in Parts \ {"adapter", "open", "net", "wire", "timer"} : v.q[f] = w.q[f]
      /\ v.q.adapter = "fetch" /\ v.q.net = "busy"
  BY <1>2, <1>8 DEF Parts
<1>10. QED
  BY <1>4, <1>5, <1>6, <1>8, <1>9

\* fetchAdapter's turn is legal, as dispatchRequest looked at the signals before
\* it.
LEMMA StartFetchTurn ==
  ASSUME NEW r \in Requests, NEW w, Before(r, w), w.q.stage = "adapter", NEW config,
         w.q.config = config, \A s \in SignalOf(config) : ~w.signals[s].aborted,
         NEW v, v = StartFetch(w, r, config)
  PROVE  /\ Legal(r, v)
         /\ \A f \in Parts \ {"adapter", "open", "net", "wire", "timer"} : v.q[f] = w.q[f]
<1>1. /\ DOMAIN v = {"q", "tokens", "signals"} /\ DOMAIN v.q = Parts
      /\ \A f \in Parts \ {"adapter", "open", "net", "wire", "timer"} : v.q[f] = w.q[f]
      /\ v.q.adapter = "fetch" /\ v.q.net = "busy"
      /\ v.q.open \in BOOLEAN /\ v.q.timer \in BOOLEAN
      /\ SignalOf(config) # {} => v.q.open
      /\ v.tokens = w.tokens
      /\ v.signals = [s \in Signals |-> IF s \in SignalOf(config) THEN Subscribed(w.signals[s], r)
                                        ELSE w.signals[s]]
  BY StartFetchQ
<1>2. v.q.stage = "adapter" /\ v.q.config = config /\ v.q.leaving = w.q.leaving
  BY <1>1 DEF Parts
<1>3. Listened(w.tokens, w.signals) /\ Others(r, w.tokens, w.signals)
  BY DEF Before
<1>4. \A s \in Signals :
        /\ v.signals[s] \in SignalState
        /\ v.signals[s].aborted = w.signals[s].aborted
        /\ \A x : x \in v.signals[s].listeners <=>
                   x \in w.signals[s].listeners \/ (x = r /\ s \in SignalOf(config))
  <2> TAKE s \in Signals
  <2>1. w.signals[s] \in SignalState
    BY <1>3 DEF Listened
  <2>2. CASE s \in SignalOf(config)
    <3>1. v.signals[s] = Subscribed(w.signals[s], r)
      BY <1>1, <2>2
    <3>2. QED
      BY <2>1, <2>2, <3>1, SubscribedSignal
  <2>3. CASE s \notin SignalOf(config)
    <3>1. v.signals[s] = w.signals[s]
      BY <1>1, <2>3
    <3>2. QED
      BY <2>1, <2>3, <3>1
  <2>4. QED
    BY <2>2, <2>3
<1>5. Listened(v.tokens, v.signals)
  <2>1. v.signals \in [Signals -> SignalState]
    BY <1>1, <1>4
  <2>2. QED
    BY <1>1, <1>3, <2>1 DEF Listened
<1>6. Others(r, v.tokens, v.signals)
  BY <1>1, <1>3, <1>4 DEF Others
<1>7. Alive(v.q)
  BY <1>1, <1>2 DEF Before, Alive, Busy
<1>8. Hears(r, config, v.signals)
  BY <1>4 DEF Hears, SignalOf
<1>9. Linked(r, v.q, v.tokens, v.signals)
  BY <1>1, <1>2, <1>8 DEF Before, Linked, Busy
<1>10. QED
  BY <1>1, <1>5, <1>6, <1>7, <1>9 DEF Legal

\* The adapter is called with a Before turn, and the result is a Legal one.  Of
\* the chain it is one entry of the log and a stage.
Dispatched(w, v) ==
  \/ /\ v.q.stage = w.q.stage /\ v.q.log = w.q.log /\ v.q.val[1] = "err"
     /\ v.q.after = w.q.after /\ v.q.before = w.q.before /\ v.q.due = w.q.due
  \/ /\ v.q.stage = "adapter" /\ v.q.log = Append(w.q.log, <<"dispatch">>)
     /\ v.q.val = Waiting \/ Answer(v.q.val)
     /\ v.q.after = w.q.after /\ v.q.before = w.q.before /\ v.q.due = w.q.due

\* What dispatchRequest throws leaves the turn legal.
LEMMA ThrownLegal ==
  ASSUME NEW r \in Requests, NEW w, Legal(r, w), NEW val, val[1] = "err"
  PROVE  Legal(r, Settled(w, val)) /\ Dispatched(w, Settled(w, val))
<1>1. Shaped(w)
  BY DEF Legal, Shaped, Listened
<1> DEFINE v == Settled(w, val)
<1>2. Kept(w, v) /\ v.q.val = val /\ v.q.log = w.q.log
  BY <1>1, SettledTurn
<1> HIDE DEF v
<1>3. Legal(r, v)
  BY <1>2, ChainwiseLegal DEF Kept
<1>4. QED
  BY <1>2, <1>3 DEF v, Dispatched, Kept

\* dispatchRequest's turn is legal, and is one entry of the log or an error.
LEMMA DispatchTurn ==
  ASSUME NEW r \in Requests, NEW w, Legal(r, w), w.q.adapter = "none", NEW config,
         NEW v, v = Dispatch(w, r, config)
  PROVE  Legal(r, v) /\ Dispatched(w, v)
<1> DEFINE ready == Prepared(config)
           adapter == AdapterFor(Own(config, "adapter"))
           q1 == Log(w.q, <<"dispatch">>)
           q2 == [q1 EXCEPT !.config = ready, !.val = Waiting, !.stage = "adapter"]
           called == [w EXCEPT !.q = q2]
<1>1. v = IF CancelRequested(w, config) THEN Settled(w, Err(CANCELED))
          ELSE IF adapter[1] = "throw" THEN Settled(w, Err(adapter[2]))
          ELSE IF adapter[2] = "xhr" THEN StartXhr(called, r, ready) ELSE StartFetch(called, r, ready)
  BY Zenon DEF Dispatch
<1>2. /\ DOMAIN q1 = Parts /\ q1.log = Append(w.q.log, <<"dispatch">>)
      /\ \A f \in Parts \ {"log"} : q1[f] = w.q[f]
  BY LogRequest DEF Legal
<1> HIDE DEF q1
<1>3. /\ DOMAIN q2 = Parts /\ q2.config = ready /\ q2.val = Waiting /\ q2.stage = "adapter"
      /\ \A f \in Parts \ {"config", "val", "stage"} : q2[f] = q1[f]
  BY <1>2 DEF Parts
<1> HIDE DEF q2, ready, adapter
<1>4. /\ called.q = q2 /\ called.tokens = w.tokens /\ called.signals = w.signals
      /\ DOMAIN called = {"q", "tokens", "signals"}
  BY DEF Legal
<1> HIDE DEF called
<1>5. /\ q2.adapter = "none" /\ q2.open = w.q.open /\ q2.net = w.q.net /\ q2.timer = w.q.timer
      /\ q2.leaving = w.q.leaving /\ q2.log = Append(w.q.log, <<"dispatch">>)
      /\ q2.after = w.q.after /\ q2.before = w.q.before /\ q2.due = w.q.due
  BY <1>2, <1>3 DEF Parts
<1>6. Before(r, called)
  <2>1. Alive(q2)
    BY <1>3, <1>5 DEF Legal, Alive, Busy
  <2>2. \A t \in Tokens : r \notin w.tokens[t].listeners
    BY DEF Legal, Linked
  <2>3. QED
    BY <1>3, <1>4, <1>5, <2>1, <2>2 DEF Legal, Before
<1>7. CASE CancelRequested(w, config)
  BY <1>1, <1>7, ThrownLegal DEF Err
<1>8. CASE ~CancelRequested(w, config) /\ adapter[1] = "throw"
  BY <1>1, <1>8, ThrownLegal DEF Err
<1>9. CASE ~CancelRequested(w, config) /\ adapter[1] # "throw" /\ adapter[2] = "xhr"
  <2>1. v = StartXhr(called, r, ready)
    BY <1>1, <1>9
  <2>2. Legal(r, v)
    BY <1>3, <1>4, <1>6, <2>1, StartXhrTurn
  <2>3. /\ \A f \in Parts \ {"adapter", "open", "net", "val", "wire"} : v.q[f] = q2[f]
        /\ v.q.val = Waiting \/ Answer(v.q.val)
    BY <1>3, <1>4, <1>6, <2>1, StartXhrQ
  <2>4. QED
    BY <1>3, <1>5, <2>2, <2>3 DEF Dispatched, Parts
<1>10. CASE ~CancelRequested(w, config) /\ adapter[1] # "throw" /\ adapter[2] # "xhr"
  <2>1. v = StartFetch(called, r, ready)
    BY <1>1, <1>10
  <2>2. \A s \in SignalOf(ready) : ~called.signals[s].aborted
    BY <1>4, <1>10, SameSignals DEF CancelRequested, ready
  <2>3. Legal(r, v)
    BY <1>3, <1>4, <1>6, <2>1, <2>2, StartFetchTurn
  <2>4. \A f \in Parts \ {"adapter", "open", "net", "wire", "timer"} : v.q[f] = q2[f]
    BY <1>3, <1>4, <1>6, <2>1, <2>2, StartFetchTurn
  <2>5. QED
    BY <1>3, <1>5, <2>3, <2>4 DEF Dispatched, Parts
<1>11. QED
  BY <1>7, <1>8, <1>9, <1>10

-----------------------------------------------------------------------------
(* Reactions leave exchanges and listeners in step *)

\* A turn whose request's other chain parts are given.
Chain(v, stage, before, after, due) ==
  v.q.stage = stage /\ v.q.before = before /\ v.q.after = after /\ v.q.due = due

\* A turn with one interceptor taken off those still to run.
LessBefore(w, i) == [w EXCEPT !.q.before = @ \ {i}]
LessAfter(w, i) == [w EXCEPT !.q.after = @ \ {i}]

\* A request interceptor's turn is legal and takes one off those still to run.
LEMMA RequestTurn ==
  ASSUME NEW r \in Requests, NEW w, Legal(r, w), NEW i, NEW fallback,
         NEW v, v = Handle(LessBefore(w, i), "request", i, fallback)
  PROVE  /\ Legal(r, v) /\ Moved(w, v, "request", i)
         /\ Chain(v, w.q.stage, w.q.before \ {i}, w.q.after, w.q.due)
<1> DEFINE u == LessBefore(w, i)
<1>1. /\ Chainwise(w, u) /\ u.q.stage = w.q.stage /\ u.q.before = w.q.before \ {i}
      /\ u.q.after = w.q.after /\ u.q.due = w.q.due /\ u.q.val = w.q.val /\ u.q.log = w.q.log
  BY DEF Legal, Listened, Chainwise, Parts, LessBefore
<1>2. v = Handle(u, "request", i, fallback)
  OBVIOUS
<1> HIDE DEF u
<1>3. Legal(r, u)
  BY <1>1, ChainwiseLegal
<1>4. Shaped(u)
  BY <1>3 DEF Legal, Listened, Shaped
<1>5. Kept(u, v) /\ Moved(u, v, "request", i)
  BY <1>2, <1>4, HandleTurn DEF Handled
<1>6. Legal(r, v)
  BY <1>3, <1>5, ChainwiseLegal DEF Kept
<1>7. Chain(v, w.q.stage, w.q.before \ {i}, w.q.after, w.q.due)
  BY <1>1, <1>5 DEF Kept, Chain
<1>8. Moved(w, v, "request", i)
  BY <1>1, <1>5, Zenon DEF Moved
<1>9. QED
  BY <1>6, <1>7, <1>8

\* The adapter is the same.
AdapterKept(w, v) == v.q.adapter = w.q.adapter

\* A response interceptor's turn is legal and takes one off those still to run.
LEMMA ResponseTurn ==
  ASSUME NEW r \in Requests, NEW w, Legal(r, w), NEW i, NEW fallback,
         NEW v, v = Handle(LessAfter(w, i), "response", i, fallback)
  PROVE  /\ Legal(r, v) /\ Moved(w, v, "response", i) /\ AdapterKept(w, v)
         /\ Chain(v, w.q.stage, w.q.before, w.q.after \ {i}, w.q.due)
<1> DEFINE u == LessAfter(w, i)
<1>1. /\ Chainwise(w, u) /\ u.q.stage = w.q.stage /\ u.q.before = w.q.before
      /\ u.q.after = w.q.after \ {i} /\ u.q.due = w.q.due /\ u.q.val = w.q.val /\ u.q.log = w.q.log
  BY DEF Legal, Listened, Chainwise, Parts, LessAfter
<1>2. v = Handle(u, "response", i, fallback)
  OBVIOUS
<1> HIDE DEF u
<1>3. Legal(r, u)
  BY <1>1, ChainwiseLegal
<1>4. Shaped(u)
  BY <1>3 DEF Legal, Listened, Shaped
<1>5. Kept(u, v) /\ Moved(u, v, "response", i)
  BY <1>2, <1>4, HandleTurn DEF Handled
<1>6. Legal(r, v)
  BY <1>3, <1>5, ChainwiseLegal DEF Kept
<1>7. Chain(v, w.q.stage, w.q.before, w.q.after \ {i}, w.q.due)
  BY <1>1, <1>5 DEF Kept, Chain
<1>8. Moved(w, v, "response", i)
  BY <1>1, <1>5, Zenon DEF Moved
<1>9. AdapterKept(w, v)
  BY <1>1, <1>5 DEF Kept, Chainwise, AdapterKept
<1>10. QED
  BY <1>6, <1>7, <1>8, <1>9

\* The dispatch, with the stage behind it set first.
DispatchNow(w, r, config) == Dispatch([w EXCEPT !.q.stage = "response"], r, config)

\* The dispatch from the chain is legal and leaves the interceptors alone.
LEMMA DispatchNowTurn ==
  ASSUME NEW r \in Requests, NEW w, Legal(r, w), w.q.adapter = "none", NEW config,
         NEW v, v = DispatchNow(w, r, config)
  PROVE  /\ Legal(r, v)
         /\ \/ v.q.val[1] = "err" /\ v.q.log = w.q.log
               /\ Chain(v, "response", w.q.before, w.q.after, w.q.due)
            \/ /\ v.q.val = Waiting \/ Answer(v.q.val)
               /\ v.q.log = Append(w.q.log, <<"dispatch">>)
               /\ Chain(v, "adapter", w.q.before, w.q.after, w.q.due)
<1> DEFINE u == [w EXCEPT !.q.stage = "response"]
<1>1. /\ Chainwise(w, u) /\ Chain(u, "response", w.q.before, w.q.after, w.q.due)
      /\ u.q.val = w.q.val /\ u.q.log = w.q.log /\ u.q.adapter = w.q.adapter
  BY DEF Legal, Listened, Chainwise, Parts, Chain
<1>2. v = Dispatch(u, r, config)
  BY Zenon DEF DispatchNow
<1> HIDE DEF u
<1>3. Legal(r, u)
  BY <1>1, ChainwiseLegal
<1>4. Legal(r, v) /\ Dispatched(u, v)
  BY <1>1, <1>2, <1>3, DispatchTurn
<1>5. QED
  BY <1>1, <1>4 DEF Dispatched, Chain

\* Without a dispatch: what was rejected before passes over it.
Passed(w) == [w EXCEPT !.q.stage = "response"]

\* Passing over the dispatch is legal.
LEMMA PassedTurn ==
  ASSUME NEW r \in Requests, NEW w, Legal(r, w), NEW v, v = Passed(w)
  PROVE  /\ Legal(r, v) /\ Chain(v, "response", w.q.before, w.q.after, w.q.due)
         /\ v.q.val = w.q.val /\ v.q.log = w.q.log
<1>1. /\ Chainwise(w, v) /\ Chain(v, "response", w.q.before, w.q.after, w.q.due)
      /\ v.q.val = w.q.val /\ v.q.log = w.q.log
  BY DEF Legal, Listened, Chainwise, Parts, Chain, Passed
<1>2. QED
  BY <1>1, ChainwiseLegal

\* The reaction to the adapter is legal, and its value is what dispatchRequest's
\* callbacks return.
LEMMA AdapterTurn ==
  ASSUME NEW r \in Requests, NEW w, Legal(r, w), NEW v, v = AdapterReaction(w, r)
  PROVE  /\ Legal(r, v) /\ Chain(v, "response", w.q.before, w.q.after, w.q.due)
         /\ v.q.log = Append(w.q.log, <<"adapter">>) /\ v.q.adapter = w.q.adapter
         /\ v.q.val = IF w.q.val[1] = "ok" THEN OnAdapterResolution(w, w.q.config, w.q.val[2])
                      ELSE OnAdapterRejection(w, w.q.config, w.q.val)
<1> DEFINE q1 == Log(w.q, <<"adapter">>)
           val == IF w.q.val[1] = "ok" THEN OnAdapterResolution(w, w.q.config, w.q.val[2])
                  ELSE OnAdapterRejection(w, w.q.config, w.q.val)
           q2 == [q1 EXCEPT !.stage = "response", !.val = val]
<1>1. DOMAIN w = {"q", "tokens", "signals"} /\ DOMAIN w.q = Parts
  BY DEF Legal
<1>2. /\ DOMAIN q1 = Parts /\ q1.log = Append(w.q.log, <<"adapter">>)
      /\ \A f \in Parts \ {"log"} : q1[f] = w.q[f]
  BY <1>1, LogRequest
<1>3. q1.val = w.q.val
  BY <1>2 DEF Parts
<1>4. v = [w EXCEPT !.q = q2]
  BY Zenon DEF AdapterReaction
<1> HIDE DEF q1, val
<1>5. /\ DOMAIN q2 = Parts /\ q2.stage = "response" /\ q2.val = val
      /\ \A f \in Parts \ {"stage", "val"} : q2[f] = q1[f]
  BY <1>2 DEF Parts
<1> HIDE DEF q2
<1>6. /\ v.q = q2 /\ v.tokens = w.tokens /\ v.signals = w.signals
      /\ DOMAIN v = {"q", "tokens", "signals"}
  BY <1>1, <1>4
<1>7. /\ Chainwise(w, v) /\ Chain(v, "response", w.q.before, w.q.after, w.q.due)
      /\ v.q.log = Append(w.q.log, <<"adapter">>)
  BY <1>2, <1>5, <1>6 DEF Legal, Listened, Chainwise, Parts, Chain
<1>8. QED
  BY <1>5, <1>6, <1>7, ChainwiseLegal DEF val, Chainwise

\* Throwing in the call is legal.
LEMMA ThrownTurn ==
  ASSUME NEW r \in Requests, NEW w, Legal(r, w), NEW val, NEW v, v = Thrown(w, val)
  PROVE  /\ Legal(r, v) /\ Chain(v, "response", {}, {}, w.q.due)
         /\ v.q.val = val /\ v.q.log = w.q.log
<1>1. /\ Chainwise(w, v) /\ Chain(v, "response", {}, {}, w.q.due)
      /\ v.q.val = val /\ v.q.log = w.q.log
  BY DEF Legal, Listened, Chainwise, Parts, Chain, Thrown
<1>2. QED
  BY <1>1, ChainwiseLegal

\* Logging is legal.
LEMMA LoggedTurn ==
  ASSUME NEW r \in Requests, NEW w, Legal(r, w), NEW e, NEW v, v = Logged(w, e)
  PROVE  /\ Legal(r, v) /\ Chain(v, w.q.stage, w.q.before, w.q.after, w.q.due)
         /\ v.q.val = w.q.val /\ v.q.log = Append(w.q.log, e)
<1>1. Shaped(w)
  BY DEF Legal, Listened, Shaped
<1>2. Kept(w, v) /\ v.q.val = w.q.val /\ v.q.log = Append(w.q.log, e)
  BY <1>1, LogTurn
<1>3. QED
  BY <1>2, ChainwiseLegal DEF Kept, Chain

\* A synchronous interceptor's error was handled: what there was before it goes on.
GoesOn(w, val) == [w EXCEPT !.q = [@ EXCEPT !.before = {}, !.val = val]]

\* Going on with what there was is legal.
LEMMA GoesOnTurn ==
  ASSUME NEW r \in Requests, NEW w, Legal(r, w), NEW val, NEW v, v = GoesOn(w, val)
  PROVE  /\ Legal(r, v) /\ Chain(v, w.q.stage, {}, w.q.after, w.q.due)
         /\ v.q.val = val /\ v.q.log = w.q.log
<1>1. /\ Chainwise(w, v) /\ Chain(v, w.q.stage, {}, w.q.after, w.q.due)
      /\ v.q.val = val /\ v.q.log = w.q.log
  BY DEF Legal, Listened, Chainwise, Parts, Chain, GoesOn
<1>2. QED
  BY <1>1, ChainwiseLegal

\* A reaction of the chain keeps exchanges and listeners in step.
LEMMA StepWire == ASSUME WireInv, NEW r \in Requests, Step(r) PROVE WireInv'
<1> DEFINE w == Turn(r)
<1>1. Legal(r, w)
  BY TurnLegal
<1>2. w.q = reqs[r]
  BY DEF Turn
<1>3. CASE Becomes(r, RequestReaction(w, r))
  <2>1. PICK i, fallback :
          RequestReaction(w, r) = Handle(LessBefore(w, i), "request", i, fallback)
    BY Zenon DEF RequestReaction, LessBefore
  <2>2. Legal(r, RequestReaction(w, r))
    BY <1>1, <2>1, RequestTurn
  <2>3. QED
    BY <1>3, <2>2, LegalTurn
<1>4. CASE reqs[r].stage = "request" /\ Becomes(r, DispatchReaction(w, r))
  <2>1. w.q.adapter = "none"
    BY <1>1, <1>2, <1>4 DEF Legal, Alive
  <2>2. DispatchReaction(w, r) = IF w.q.val[1] = "ok" THEN DispatchNow(w, r, w.q.val[2]) ELSE Passed(w)
    BY Zenon DEF DispatchReaction, DispatchNow, Passed
  <2>3. Legal(r, DispatchReaction(w, r))
    BY <1>1, <2>1, <2>2, DispatchNowTurn, PassedTurn
  <2>4. QED
    BY <1>4, <2>3, LegalTurn
<1>5. CASE Becomes(r, AdapterReaction(w, r))
  BY <1>1, <1>5, AdapterTurn, LegalTurn
<1>6. CASE Becomes(r, ResponseReaction(w, r))
  <2>1. PICK i, fallback :
          ResponseReaction(w, r) = Handle(LessAfter(w, i), "response", i, fallback)
    BY Zenon DEF ResponseReaction, LessAfter
  <2> DEFINE v == ResponseReaction(w, r)
  <2>2. v = Handle(LessAfter(w, i), "response", i, fallback)
    BY <2>1
  <2> HIDE DEF v
  <2>3. Legal(r, v)
    BY <1>1, <2>2, ResponseTurn
  <2>4. QED
    BY <1>6, <2>3, LegalTurn DEF v
<1>7. QED
  BY <1>3, <1>4, <1>5, <1>6, Zenon DEF Step

\* What a synchronous call makes of a turn, with the interceptor it is at.
CalledBack(w, r, i) ==
  LET v == Handle(LessBefore(w, i), "request", i, None)
      failed == Logged(v, <<"request", i, "err">>)
      rejected == plan["request"][i].rejected
  IN IF v.q.val[1] = "ok" THEN v
     ELSE IF rejected = "none" THEN Thrown(v, Err("TypeError"))
     ELSE IF rejected = "recover" THEN GoesOn(failed, w.q.val)
     ELSE Thrown(failed, v.q.val)

\* What a synchronous call makes of a turn once its interceptors have run: the
\* dispatch.
CalledOut(w, r) ==
  LET dispatched == DispatchNow(w, r, w.q.val[2])
  IN IF dispatched.q.stage = "adapter" THEN dispatched ELSE Thrown(dispatched, dispatched.q.val)

\* A step of a synchronous call is one of these two.
LEMMA CallNowTurn ==
  ASSUME NEW r \in Requests, CallNow(r)
  PROVE  IF reqs[r].before = {} THEN Becomes(r, CalledOut(Turn(r), r))
         ELSE Becomes(r, CalledBack(Turn(r), r, Following("request", reqs[r].before)))
<1>1. Turn(r).q = reqs[r]
  BY DEF Turn
<1>2. CASE reqs[r].before = {}
  <2>1. Becomes(r, LET dispatched == Dispatch([Turn(r) EXCEPT !.q.stage = "response"], r, reqs[r].val[2])
                   IN IF dispatched.q.stage = "adapter" THEN dispatched
                      ELSE Thrown(dispatched, dispatched.q.val))
    BY <1>2, Zenon DEF CallNow
  <2>2. QED
    BY <1>1, <1>2, <2>1, Zenon DEF CalledOut, DispatchNow
<1>3. CASE reqs[r].before # {}
  <2>1. Becomes(r,
          LET i == Following("request", reqs[r].before)
              v == Handle(LessBefore(Turn(r), i), "request", i, None)
              failed == Logged(v, <<"request", i, "err">>)
          IN IF v.q.val[1] = "ok" THEN v
             ELSE IF plan["request"][i].rejected = "none" THEN Thrown(v, Err("TypeError"))
             ELSE IF plan["request"][i].rejected = "recover" THEN GoesOn(failed, reqs[r].val)
             ELSE Thrown(failed, v.q.val))
    BY <1>3, Zenon DEF CallNow, Logged, GoesOn, LessBefore
  <2>2. QED
    BY <1>1, <1>3, <2>1, Zenon DEF CalledBack
<1>4. QED
  BY <1>2, <1>3

\* A step of a synchronous call keeps exchanges and listeners in step.
LEMMA CallNowWire == ASSUME WireInv, NEW r \in Requests, CallNow(r) PROVE WireInv'
<1> DEFINE w == Turn(r)
           i == Following("request", reqs[r].before)
<1>1. Legal(r, w)
  BY TurnLegal
<1>2. w.q.adapter = "none"
  BY <1>1 DEF CallNow, Turn, Legal, Alive
<1>3. Legal(r, CalledOut(w, r))
  <2> DEFINE d == DispatchNow(w, r, w.q.val[2])
  <2>1. Legal(r, d)
    BY <1>1, <1>2, DispatchNowTurn
  <2>2. CalledOut(w, r) = IF d.q.stage = "adapter" THEN d ELSE Thrown(d, d.q.val)
    BY Zenon DEF CalledOut
  <2> HIDE DEF d
  <2>3. QED
    BY <2>1, <2>2, ThrownTurn
<1>4. Legal(r, CalledBack(w, r, i))
  <2> DEFINE v == Handle(LessBefore(w, i), "request", i, None)
             failed == Logged(v, <<"request", i, "err">>)
             rejected == plan["request"][i].rejected
  <2>1. Legal(r, v)
    BY <1>1, RequestTurn
  <2>2. CalledBack(w, r, i) = IF v.q.val[1] = "ok" THEN v
                              ELSE IF rejected = "none" THEN Thrown(v, Err("TypeError"))
                              ELSE IF rejected = "recover" THEN GoesOn(failed, w.q.val)
                              ELSE Thrown(failed, v.q.val)
    BY Zenon DEF CalledBack
  <2> HIDE DEF v
  <2>3. Legal(r, failed)
    BY <2>1, LoggedTurn
  <2> HIDE DEF failed
  <2>4. QED
    BY <2>1, <2>2, <2>3, ThrownTurn, GoesOnTurn
<1>5. QED
  BY <1>3, <1>4, CallNowTurn, LegalTurn

\* Asking keeps exchanges and listeners in step: it touches neither.
LEMMA AskWire == ASSUME WireInv, NEW r \in Requests, Ask(r) PROVE WireInv'
<1>1. PICK q :
        /\ reqs' = [reqs EXCEPT ![r] = q] /\ DOMAIN q = Parts /\ q.stage \in {"now", "request", "response"}
        /\ \A f \in Parts \ {"stage", "config", "before", "after", "val", "due"} : q[f] = reqs[r][f]
  <2>1. DOMAIN reqs[r] = Parts
    BY DEF WireInv
  <2>2. PICK config, requested, answered, sync :
          reqs' = [reqs EXCEPT ![r] =
            IF BadTransitional(config)
            THEN [reqs[r] EXCEPT !.stage = "response", !.val = Err(BadOption(config))]
            ELSE [reqs[r] EXCEPT !.stage = IF sync THEN "now" ELSE "request", !.config = config,
                                 !.before = requested, !.after = answered, !.val = Ok(config),
                                 !.due = <<requested, answered>>]]
    BY Zenon DEF Ask
  <2>3. CASE BadTransitional(config)
    <3> DEFINE q == [reqs[r] EXCEPT !.stage = "response", !.val = Err(BadOption(config))]
    <3>1. reqs' = [reqs EXCEPT ![r] = q]
      BY <2>2, <2>3, Zenon
    <3>2. DOMAIN q = Parts /\ q.stage = "response" /\ \A f \in Parts \ {"stage", "val"} : q[f] = reqs[r][f]
      BY <2>1 DEF Parts
    <3> HIDE DEF q
    <3>3. QED
      BY <3>1, <3>2
  <2>4. CASE ~BadTransitional(config)
    <3> DEFINE q == [reqs[r] EXCEPT !.stage = IF sync THEN "now" ELSE "request", !.config = config,
                                    !.before = requested, !.after = answered, !.val = Ok(config),
                                    !.due = <<requested, answered>>]
    <3>1. reqs' = [reqs EXCEPT ![r] = q]
      BY <2>2, <2>4, Zenon
    <3>2. /\ DOMAIN q = Parts /\ q.stage \in {"now", "request"}
          /\ \A f \in Parts \ {"stage", "config", "before", "after", "val", "due"} : q[f] = reqs[r][f]
      BY <2>1 DEF Parts
    <3> HIDE DEF q
    <3>3. QED
      BY <3>1, <3>2
  <2>5. QED
    BY <2>3, <2>4
<1>2. reqs[r].stage = "unasked" /\ tokens' = tokens /\ signals' = signals
  BY DEF Ask
<1>3. /\ Alive(reqs[r]) /\ Linked(r, reqs[r], tokens, signals) /\ DOMAIN reqs = Requests
      /\ Listened(tokens, signals)
  BY DEF WireInv
<1>4. /\ q.adapter = reqs[r].adapter /\ q.open = reqs[r].open /\ q.net = reqs[r].net
      /\ q.timer = reqs[r].timer /\ q.leaving = reqs[r].leaving
  BY <1>1 DEF Parts
<1>5. Alive(q) /\ Linked(r, q, tokens, signals)
  BY <1>2, <1>3, <1>4 DEF Alive, Linked, Busy
<1>6. QED
  <2>1. DOMAIN reqs' = Requests /\ reqs'[r] = q /\ \A x \in Requests : x # r => reqs'[x] = reqs[x]
    BY <1>1, <1>3
  <2>2. ASSUME NEW x \in Requests
        PROVE  DOMAIN reqs'[x] = Parts /\ Alive(reqs'[x]) /\ Linked(x, reqs'[x], tokens, signals)
    BY <1>1, <1>5, <2>1 DEF WireInv
  <2>3. QED
    BY <1>2, <1>3, <2>1, <2>2 DEF WireInv

-----------------------------------------------------------------------------
(* What comes from outside leaves exchanges and listeners in step *)

\* What a task, a token or a signal does to a request: nothing to its chain but
\* that the adapter's promise may be settled.
Outside(q, p) ==
  /\ DOMAIN p = Parts
  /\ p.stage = q.stage /\ p.config = q.config /\ p.before = q.before /\ p.after = q.after
  /\ p.log = q.log /\ p.due = q.due /\ p.adapter = q.adapter
  /\ p.val = q.val \/ (q.val = Waiting /\ q.adapter # "none" /\ Answer(p.val))

\* A step from outside: every request's chain is left alone.
OutsideAll == WireInv' /\ \A x \in Requests : Outside(reqs[x], reqs'[x])

\* What changes one request from outside.
LEMMA OneOutside ==
  ASSUME WireInv, NEW r \in Requests, NEW p, reqs' = [reqs EXCEPT ![r] = p],
         Outside(reqs[r], p), Alive(p), Listened(tokens', signals'),
         Others(r, tokens', signals'), Linked(r, p, tokens', signals')
  PROVE  OutsideAll
<1>1. DOMAIN reqs' = Requests /\ reqs'[r] = p /\ \A x \in Requests : x # r => reqs'[x] = reqs[x]
  BY DEF WireInv
<1>2. ASSUME NEW x \in Requests
      PROVE  /\ DOMAIN reqs'[x] = Parts /\ Alive(reqs'[x]) /\ Linked(x, reqs'[x], tokens', signals')
             /\ Outside(reqs[x], reqs'[x])
  <2>1. CASE x = r
    BY <1>1, <2>1 DEF Outside
  <2>2. CASE x # r
    <3>1. Linked(x, reqs[x], tokens', signals')
      BY <2>2, OthersLinked
    <3>2. QED
      BY <1>1, <2>2, <3>1 DEF WireInv, Outside
  <2>3. QED
    BY <2>1, <2>2
<1>3. QED
  BY <1>1, <1>2 DEF WireInv, OutsideAll

\* When tokens and signals do not change, nothing changes for the others.
LEMMA UnchangedOthers ==
  ASSUME WireInv, NEW r \in Requests, UNCHANGED <<tokens, signals>>
  PROVE  /\ Listened(tokens', signals') /\ Others(r, tokens', signals')
         /\ tokens' = tokens /\ signals' = signals
  BY DEF WireInv, Others

\* A token or signal without some of its listeners.
Without(x, who) == [x EXCEPT !.listeners = @ \ who]

\* Unsubscribing leaves the rest of a token.
LEMMA UnsubscribedToken ==
  ASSUME NEW x \in TokenState, NEW who
  PROVE  LET y == Without(x, who)
         IN y \in TokenState /\ y.reason = x.reason /\ y.told = x.told /\ y.listeners = x.listeners \ who
  BY DEF TokenState, Without

\* Unsubscribing leaves the rest of a signal.
LEMMA UnsubscribedSignal ==
  ASSUME NEW x \in SignalState, NEW who
  PROVE  LET y == Without(x, who)
         IN y \in SignalState /\ y.aborted = x.aborted /\ y.listeners = x.listeners \ who
  BY DEF SignalState, Without

\* Unsubscribing leaves the rest of the tokens.
LEMMA UnsubscribedTokens ==
  ASSUME Listened(tokens, signals), NEW who
  PROVE  /\ Unsubscribed(tokens, who) \in [Tokens -> TokenState]
         /\ \A t \in Tokens : /\ Unsubscribed(tokens, who)[t].reason = tokens[t].reason
                              /\ Unsubscribed(tokens, who)[t].told = tokens[t].told
                              /\ Unsubscribed(tokens, who)[t].listeners = tokens[t].listeners \ who
<1>1. DOMAIN tokens = Tokens /\ \A t \in Tokens : tokens[t] \in TokenState
  BY DEF Listened
<1>2. Unsubscribed(tokens, who) = [t \in Tokens |-> Without(tokens[t], who)]
  BY <1>1 DEF Unsubscribed, Without
<1>3. QED
  BY <1>1, <1>2, UnsubscribedToken

\* Unsubscribing leaves the rest of the signals.
LEMMA UnsubscribedSignals ==
  ASSUME Listened(tokens, signals), NEW who
  PROVE  /\ Unsubscribed(signals, who) \in [Signals -> SignalState]
         /\ \A s \in Signals : /\ Unsubscribed(signals, who)[s].aborted = signals[s].aborted
                               /\ Unsubscribed(signals, who)[s].listeners = signals[s].listeners \ who
<1>1. DOMAIN signals = Signals /\ \A s \in Signals : signals[s] \in SignalState
  BY DEF Listened
<1>2. Unsubscribed(signals, who) = [s \in Signals |-> Without(signals[s], who)]
  BY <1>1 DEF Unsubscribed, Without
<1>3. QED
  BY <1>1, <1>2, UnsubscribedSignal

\* After done, the request listens to nothing, and the others as before.
LEMMA DoneListeners ==
  ASSUME WireInv, NEW r \in Requests, Done(r)
  PROVE  /\ Listened(tokens', signals') /\ Others(r, tokens', signals') /\ Unheard(r, tokens', signals')
         /\ \A s \in Signals : signals'[s].aborted = signals[s].aborted
<1>1. Listened(tokens, signals)
  BY DEF WireInv
<1>2. tokens' = Unsubscribed(tokens, {r}) /\ signals' = Unsubscribed(signals, {r})
  BY DEF Done
<1>3. /\ tokens' \in [Tokens -> TokenState]
      /\ \A t \in Tokens : /\ tokens'[t].reason = tokens[t].reason
                           /\ tokens'[t].told = tokens[t].told
                           /\ tokens'[t].listeners = tokens[t].listeners \ {r}
  BY <1>1, <1>2, UnsubscribedTokens
<1>4. /\ signals' \in [Signals -> SignalState]
      /\ \A s \in Signals : /\ signals'[s].aborted = signals[s].aborted
                            /\ signals'[s].listeners = signals[s].listeners \ {r}
  BY <1>1, <1>2, UnsubscribedSignals
<1>5. Listened(tokens', signals')
  BY <1>1, <1>3, <1>4 DEF Listened
<1>6. Others(r, tokens', signals')
  BY <1>3, <1>4 DEF Others
<1>7. Unheard(r, tokens', signals')
  BY <1>3, <1>4 DEF Unheard
<1>8. QED
  BY <1>4, <1>5, <1>6, <1>7

\* A request that does not listen is linked as long as its exchange is over.
LEMMA UnheardLinked ==
  ASSUME NEW r, NEW q, NEW toks, NEW sigs, Unheard(r, toks, sigs), ~Busy(q)
  PROVE  Linked(r, q, toks, sigs)
  BY DEF Linked, Unheard

\* Neither does it matter that it failed.
LEMMA EndedLinked ==
  ASSUME NEW r, NEW q, NEW p, NEW toks, NEW sigs, Linked(r, q, toks, sigs), p.adapter = q.adapter,
         ~Busy(p), p.net = "load" => p.leaving
  PROVE  Linked(r, p, toks, sigs)
  BY DEF Linked

\* settle resolves or rejects.
LEMMA JudgedAnswer == ASSUME NEW config, NEW answer PROVE Answer(Judged(config, answer))
  BY DEF Judged, Answer, Ok

\* onloadend: the request is answered and listens to nothing any more.
LEMMA XhrLoadOutside == ASSUME WireInv, NEW r \in Requests, XhrLoad(r) PROVE OutsideAll
<1>1. PICK answer \in plan.answers :
        reqs' = [reqs EXCEPT ![r] = [Settle(reqs[r], Judged(reqs[r].config, answer))
                                       EXCEPT !.net = "load", !.open = FALSE]]
  BY Zenon DEF XhrLoad, After
<1>2. reqs[r].adapter = "xhr" /\ reqs[r].net = "busy" /\ Done(r)
  BY DEF XhrLoad, Task
<1> DEFINE s == Settle(reqs[r], Judged(reqs[r].config, answer))
           p == [s EXCEPT !.net = "load", !.open = FALSE]
<1>3. DOMAIN reqs[r] = Parts /\ Alive(reqs[r])
  BY DEF WireInv
<1>4. /\ DOMAIN s = Parts /\ \A f \in Parts \ {"val"} : s[f] = reqs[r][f]
      /\ s.val = reqs[r].val \/ (reqs[r].val = Waiting /\ Answer(s.val))
  BY <1>3, SettleFields, JudgedAnswer
<1> HIDE DEF s
<1>5. /\ DOMAIN p = Parts /\ \A f \in Parts \ {"net", "open"} : p[f] = s[f]
      /\ p.net = "load" /\ p.open = FALSE
  BY <1>4 DEF Parts
<1>6. reqs' = [reqs EXCEPT ![r] = p]
  BY <1>1 DEF s
<1> HIDE DEF p
<1>7. Outside(reqs[r], p) /\ p.timer = reqs[r].timer /\ p.leaving = reqs[r].leaving
  BY <1>2, <1>4, <1>5 DEF Outside, Parts
<1>8. Alive(p)
  BY <1>2, <1>3, <1>5, <1>7 DEF Alive, Busy, Outside
<1>9. Linked(r, p, tokens', signals')
  BY <1>2, <1>5, DoneListeners, UnheardLinked DEF Busy
<1>10. QED
  BY <1>2, <1>6, <1>7, <1>8, <1>9, DoneListeners, OneOutside

\* onerror, onabort and ontimeout: the listeners that stay do no harm.
LEMMA FailedOutside ==
  ASSUME WireInv, NEW r \in Requests, NEW code, NEW net, net \in {"error", "aborted", "timeout"},
         reqs[r].adapter = "xhr", Failed(r, code, net)
  PROVE  OutsideAll
<1> DEFINE s == Settle(reqs[r], Err(code))
           p == [s EXCEPT !.net = net, !.open = FALSE]
<1>1. reqs' = [reqs EXCEPT ![r] = p] /\ UNCHANGED <<tokens, signals>>
  BY Zenon DEF Failed, After
<1>2. DOMAIN reqs[r] = Parts /\ Alive(reqs[r]) /\ Linked(r, reqs[r], tokens, signals)
  BY DEF WireInv
<1>3. /\ DOMAIN s = Parts /\ \A f \in Parts \ {"val"} : s[f] = reqs[r][f]
      /\ s.val = reqs[r].val \/ (reqs[r].val = Waiting /\ s.val = Err(code))
  BY <1>2, SettleFields
<1> HIDE DEF s
<1>4. /\ DOMAIN p = Parts /\ \A f \in Parts \ {"net", "open"} : p[f] = s[f]
      /\ p.net = net /\ p.open = FALSE
  BY <1>3 DEF Parts
<1> HIDE DEF p
<1>5. Answer(Err(code))
  BY DEF Answer, Err
<1>6. Outside(reqs[r], p) /\ p.timer = reqs[r].timer /\ p.leaving = reqs[r].leaving
  BY <1>3, <1>4, <1>5 DEF Outside, Parts
<1>7. Alive(p) /\ ~Busy(p)
  BY <1>2, <1>4, <1>6 DEF Alive, Busy, Outside
<1>8. Linked(r, p, tokens, signals)
  BY <1>2, <1>4, <1>6, <1>7, EndedLinked DEF Outside
<1>9. QED
  BY <1>1, <1>6, <1>7, <1>8, UnchangedOthers, OneOutside

\* The answer's head changes the exchange's state only.
LEMMA FetchHeadOutside == ASSUME WireInv, NEW r \in Requests, FetchHead(r) PROVE OutsideAll
<1> DEFINE p == [reqs[r] EXCEPT !.net = "head"]
<1>1. /\ reqs' = [reqs EXCEPT ![r] = p] /\ UNCHANGED <<tokens, signals>>
      /\ reqs[r].adapter = "fetch" /\ reqs[r].net = "busy"
  BY Zenon DEF FetchHead, After, Task
<1>2. DOMAIN reqs[r] = Parts /\ Alive(reqs[r]) /\ Linked(r, reqs[r], tokens, signals)
  BY DEF WireInv
<1>3. DOMAIN p = Parts /\ p.net = "head" /\ \A f \in Parts \ {"net"} : p[f] = reqs[r][f]
  BY <1>2 DEF Parts
<1> HIDE DEF p
<1>4. Outside(reqs[r], p) /\ p.timer = reqs[r].timer /\ p.leaving = reqs[r].leaving /\ p.open = reqs[r].open
  BY <1>3 DEF Outside, Parts
<1>5. Alive(p)
  BY <1>1, <1>2, <1>3, <1>4 DEF Alive, Busy, Outside
<1>6. Linked(r, p, tokens, signals)
  BY <1>1, <1>2, <1>3, <1>4 DEF Linked, Busy, Outside
<1>7. QED
  BY <1>1, <1>4, <1>5, <1>6, UnchangedOthers, OneOutside

\* The body's end is an answer whose subscriptions are about to go.
LEMMA FetchBodyOutside == ASSUME WireInv, NEW r \in Requests, FetchBody(r) PROVE OutsideAll
<1>1. PICK answer \in plan.answers :
        reqs' = [reqs EXCEPT ![r] = [Settle(reqs[r], Judged(reqs[r].config, answer))
                                       EXCEPT !.net = "load", !.timer = FALSE, !.leaving = TRUE]]
  BY Zenon DEF FetchBody, After
<1>2. reqs[r].adapter = "fetch" /\ reqs[r].net = "head" /\ UNCHANGED <<tokens, signals>>
  BY DEF FetchBody, Task
<1> DEFINE s == Settle(reqs[r], Judged(reqs[r].config, answer))
           p == [s EXCEPT !.net = "load", !.timer = FALSE, !.leaving = TRUE]
<1>3. DOMAIN reqs[r] = Parts /\ Alive(reqs[r]) /\ Linked(r, reqs[r], tokens, signals)
  BY DEF WireInv
<1>4. /\ DOMAIN s = Parts /\ \A f \in Parts \ {"val"} : s[f] = reqs[r][f]
      /\ s.val = reqs[r].val \/ (reqs[r].val = Waiting /\ Answer(s.val))
  BY <1>3, SettleFields, JudgedAnswer
<1> HIDE DEF s
<1>5. /\ DOMAIN p = Parts /\ \A f \in Parts \ {"net", "timer", "leaving"} : p[f] = s[f]
      /\ p.net = "load" /\ p.timer = FALSE /\ p.leaving = TRUE
  BY <1>4 DEF Parts
<1>6. reqs' = [reqs EXCEPT ![r] = p]
  BY <1>1 DEF s
<1> HIDE DEF p
<1>7. Outside(reqs[r], p) /\ p.open = reqs[r].open
  BY <1>2, <1>4, <1>5 DEF Outside, Parts
<1>8. Alive(p) /\ ~Busy(p)
  BY <1>2, <1>3, <1>5, <1>7 DEF Alive, Busy, Outside
<1>9. Linked(r, p, tokens, signals)
  BY <1>3, <1>5, <1>7, <1>8, EndedLinked DEF Outside
<1>10. QED
  BY <1>2, <1>6, <1>7, <1>8, <1>9, UnchangedOthers, OneOutside

\* A failing fetch ends its exchange.
LEMMA FetchFailOutside == ASSUME WireInv, NEW r \in Requests, FetchFail(r) PROVE OutsideAll
<1>0. PICK code \in {"ERR_NETWORK", "none"} :
        After(r, [Settle(reqs[r], Err(code)) EXCEPT !.net = "error", !.leaving = TRUE])
  BY Zenon DEF FetchFail
<1> DEFINE s == Settle(reqs[r], Err(code))
           p == [s EXCEPT !.net = "error", !.leaving = TRUE]
<1>1. /\ reqs' = [reqs EXCEPT ![r] = p] /\ UNCHANGED <<tokens, signals>>
      /\ reqs[r].adapter = "fetch"
  BY <1>0, Zenon DEF FetchFail, After, Task
<1>2. DOMAIN reqs[r] = Parts /\ Alive(reqs[r]) /\ Linked(r, reqs[r], tokens, signals)
  BY DEF WireInv
<1>3. /\ DOMAIN s = Parts /\ \A f \in Parts \ {"val"} : s[f] = reqs[r][f]
      /\ s.val = reqs[r].val \/ (reqs[r].val = Waiting /\ s.val = Err(code))
  BY <1>2, SettleFields
<1> HIDE DEF s
<1>4. /\ DOMAIN p = Parts /\ \A f \in Parts \ {"net", "leaving"} : p[f] = s[f]
      /\ p.net = "error" /\ p.leaving = TRUE
  BY <1>3 DEF Parts
<1> HIDE DEF p
<1>5. Answer(Err(code))
  BY DEF Answer, Err
<1>6. Outside(reqs[r], p) /\ p.timer = reqs[r].timer /\ p.open = reqs[r].open
  BY <1>1, <1>3, <1>4, <1>5 DEF Outside, Parts
<1>7. Alive(p) /\ ~Busy(p)
  BY <1>1, <1>2, <1>4, <1>6 DEF Alive, Busy, Outside
<1>8. Linked(r, p, tokens, signals)
  BY <1>2, <1>4, <1>6, <1>7, EndedLinked DEF Outside
<1>9. QED
  BY <1>1, <1>6, <1>7, <1>8, UnchangedOthers, OneOutside

\* composeSignals' timer ends the exchange and the subscriptions.
LEMMA FetchTimerOutside == ASSUME WireInv, NEW r \in Requests, FetchTimer(r) PROVE OutsideAll
<1> DEFINE p == OnAbort(reqs[r], "ETIMEDOUT")
<1>1. reqs' = [reqs EXCEPT ![r] = p] /\ reqs[r].timer /\ Done(r)
  BY Zenon DEF FetchTimer, After
<1>2. DOMAIN reqs[r] = Parts /\ Alive(reqs[r])
  BY DEF WireInv
<1>3. /\ DOMAIN p = Parts
      /\ \A f \in Parts \ {"val", "open", "net", "timer"} : p[f] = reqs[r][f]
      /\ p.open = (IF reqs[r].open THEN FALSE ELSE reqs[r].open)
      /\ p.timer = (IF reqs[r].open THEN FALSE ELSE reqs[r].timer)
      /\ p.net = (IF reqs[r].open /\ Busy(reqs[r]) THEN "aborted" ELSE reqs[r].net)
      /\ p.val = (IF reqs[r].open /\ Busy(reqs[r]) /\ reqs[r].val = Waiting THEN Err("ETIMEDOUT") ELSE reqs[r].val)
  BY <1>2, AbortFields
<1> HIDE DEF p
<1>4. Answer(Err("ETIMEDOUT"))
  BY DEF Answer, Err
<1>5. reqs[r].adapter = "fetch"
  BY <1>1, <1>2 DEF Alive
<1>6. Outside(reqs[r], p) /\ p.leaving = reqs[r].leaving
  BY <1>3, <1>4, <1>5 DEF Outside, Parts
<1>7. Alive(p)
  BY <1>2, <1>3, <1>5, <1>6 DEF Alive, Busy, Outside
<1>8. Linked(r, p, tokens', signals')
  <2>1. Unheard(r, tokens', signals')
    BY <1>1, DoneListeners
  <2>2. Busy(p) => SignalOf(p.config) = {}
    BY <1>2, <1>3, <1>5, <1>6 DEF Alive, Busy, Outside
  <2>3. QED
    BY <1>5, <1>6, <2>1, <2>2 DEF Linked, Hears, Unheard, Outside
<1>9. QED
  BY <1>1, <1>6, <1>7, <1>8, DoneListeners, OneOutside

\* unsubscribe: the request listens to nothing any more.
LEMMA UnsubscribeOutside == ASSUME WireInv, NEW r \in Requests, Unsubscribe(r) PROVE OutsideAll
<1> DEFINE p == [reqs[r] EXCEPT !.leaving = FALSE, !.open = FALSE, !.timer = FALSE]
<1>1. reqs' = [reqs EXCEPT ![r] = p] /\ reqs[r].leaving /\ Done(r)
  BY Zenon DEF Unsubscribe, After
<1>2. DOMAIN reqs[r] = Parts /\ Alive(reqs[r])
  BY DEF WireInv
<1>3. /\ DOMAIN p = Parts /\ \A f \in Parts \ {"leaving", "open", "timer"} : p[f] = reqs[r][f]
      /\ p.leaving = FALSE /\ p.open = FALSE /\ p.timer = FALSE
  BY <1>2 DEF Parts
<1> HIDE DEF p
<1>4. Outside(reqs[r], p) /\ p.net = reqs[r].net
  BY <1>3 DEF Outside, Parts
<1>5. Alive(p) /\ ~Busy(p)
  BY <1>1, <1>2, <1>3, <1>4 DEF Alive, Busy, Outside
<1>6. Linked(r, p, tokens', signals')
  BY <1>1, <1>5, DoneListeners, UnheardLinked
<1>7. QED
  BY <1>1, <1>4, <1>5, <1>6, DoneListeners, OneOutside

\* Fewer listeners suit a request whose exchange is over.
Fewer(r, toks, sigs, toks2, sigs2) ==
  /\ \A t \in Tokens : r \in toks2[t].listeners => r \in toks[t].listeners
  /\ \A s \in Signals : r \in sigs2[s].listeners => r \in sigs[s].listeners

\* A request without an exchange needs none of its listeners.
LEMMA FewerLinked ==
  ASSUME NEW r, NEW q, NEW p, NEW toks, NEW sigs, NEW toks2, NEW sigs2, Linked(r, q, toks, sigs),
         Fewer(r, toks, sigs, toks2, sigs2), p.adapter = q.adapter, p.leaving = q.leaving, ~Busy(p),
         p.net = "load" => q.net = "load"
  PROVE  Linked(r, p, toks2, sigs2)
  BY DEF Linked, Unheard, Fewer

\* onCanceled ends the exchange of an xhr request.
LEMMA CanceledOutside ==
  ASSUME NEW q, DOMAIN q = Parts, Alive(q), q.adapter = "xhr", NEW p, p = OnCanceled(q)
  PROVE  /\ Outside(q, p) /\ Alive(p) /\ ~Busy(p) /\ p.leaving = q.leaving
         /\ p.net = "load" => q.net = "load"
<1>1. /\ DOMAIN p = Parts
      /\ \A f \in Parts \ {"val", "open", "net"} : p[f] = q[f]
      /\ p.open = (IF q.open THEN FALSE ELSE q.open)
      /\ p.net = (IF q.open /\ q.net = "busy" THEN "aborted" ELSE q.net)
      /\ p.val = (IF q.open /\ q.val = Waiting THEN Err(CANCELED) ELSE q.val)
  BY CanceledFields
<1>2. Answer(Err(CANCELED))
  BY DEF Answer, Err
<1>3. Outside(q, p) /\ p.leaving = q.leaving /\ p.timer = q.timer
  BY <1>1, <1>2 DEF Outside, Parts
<1>4. Alive(p) /\ ~Busy(p)
  BY <1>1, <1>3 DEF Alive, Busy, Outside
<1>5. QED
  BY <1>1, <1>3, <1>4

\* composeSignals' onabort ends the exchange of a fetch request that has signals.
LEMMA AbortedOutside ==
  ASSUME NEW q, DOMAIN q = Parts, Alive(q), q.adapter # "xhr", NEW p, p = OnAbort(q, CANCELED)
  PROVE  /\ Outside(q, p) /\ Alive(p) /\ p.leaving = q.leaving
         /\ Busy(p) => SignalOf(p.config) = {}
         /\ p.net = "load" => q.net = "load"
<1>1. /\ DOMAIN p = Parts
      /\ \A f \in Parts \ {"val", "open", "net", "timer"} : p[f] = q[f]
      /\ p.open = (IF q.open THEN FALSE ELSE q.open)
      /\ p.timer = (IF q.open THEN FALSE ELSE q.timer)
      /\ p.net = (IF q.open /\ Busy(q) THEN "aborted" ELSE q.net)
      /\ p.val = (IF q.open /\ Busy(q) /\ q.val = Waiting THEN Err(CANCELED) ELSE q.val)
  BY AbortFields
<1>2. Answer(Err(CANCELED))
  BY DEF Answer, Err
<1>3. q.adapter = "none" => ~Busy(q)
  BY DEF Alive, Busy
<1>4. Outside(q, p) /\ p.leaving = q.leaving
  BY <1>1, <1>2, <1>3 DEF Outside, Parts
<1>5. Alive(p)
  BY <1>1, <1>4 DEF Alive, Busy, Outside
<1>6. Busy(p) => SignalOf(p.config) = {}
  BY <1>1, <1>4 DEF Alive, Busy, Outside
<1>7. QED
  BY <1>1, <1>4, <1>5, <1>6

\* A token whose listeners were told.
Emptied(x) == [x EXCEPT !.told = TRUE, !.listeners = {}]

\* Of such a token only the reason matters.
LEMMA EmptiedToken ==
  ASSUME NEW x \in TokenState, NEW y, y = Emptied(x)
  PROVE  y \in TokenState /\ y.told = TRUE /\ y.reason = x.reason /\ y.listeners = {}
  BY DEF TokenState, Emptied

\* A token's reaction ends the exchange of each of its listeners.
LEMMA TokenToldOutside == ASSUME WireInv, NEW t \in Tokens, TokenTold(t) PROVE OutsideAll
<1> DEFINE who == tokens[t].listeners
<1>1. Listened(tokens, signals)
  BY DEF WireInv
<1>2. /\ tokens[t].reason /\ reqs' = Told(who) /\ signals' = signals
      /\ tokens' = [tokens EXCEPT ![t] = Emptied(tokens[t])]
  BY Zenon DEF TokenTold, TellReady, Emptied
<1>3. /\ tokens' \in [Tokens -> TokenState]
      /\ tokens'[t].told = TRUE /\ tokens'[t].reason = tokens[t].reason /\ tokens'[t].listeners = {}
      /\ \A x \in Tokens : x # t => tokens'[x] = tokens[x]
  <2>1. tokens \in [Tokens -> TokenState]
    BY <1>1 DEF Listened
  <2> DEFINE y == Emptied(tokens[t])
  <2>2. y \in TokenState /\ y.told = TRUE /\ y.reason = tokens[t].reason /\ y.listeners = {}
    BY <2>1, EmptiedToken
  <2>3. tokens' = [tokens EXCEPT ![t] = y]
    BY <1>2
  <2> HIDE DEF y
  <2>4. QED
    BY <2>1, <2>2, <2>3
<1>4. Listened(tokens', signals')
  BY <1>1, <1>2, <1>3 DEF Listened
<1>5. /\ DOMAIN reqs' = Requests
      /\ \A x \in Requests : reqs'[x] = IF x \in who THEN OnCanceled(reqs[x]) ELSE reqs[x]
  BY <1>2 DEF Told
<1>6. ASSUME NEW x \in Requests
      PROVE  /\ DOMAIN reqs'[x] = Parts /\ Alive(reqs'[x]) /\ Linked(x, reqs'[x], tokens', signals')
             /\ Outside(reqs[x], reqs'[x])
  <2>1. DOMAIN reqs[x] = Parts /\ Alive(reqs[x]) /\ Linked(x, reqs[x], tokens, signals)
    BY DEF WireInv
  <2>2. Fewer(x, tokens, signals, tokens', signals')
    BY <1>2, <1>3 DEF Fewer
  <2>3. CASE x \in who
    <3>1. reqs[x].adapter = "xhr"
      BY <2>1, <2>3 DEF Linked
    <3>2. reqs'[x] = OnCanceled(reqs[x])
      BY <1>5, <2>3
    <3>3. /\ Outside(reqs[x], reqs'[x]) /\ Alive(reqs'[x]) /\ ~Busy(reqs'[x])
          /\ reqs'[x].leaving = reqs[x].leaving
          /\ reqs'[x].net = "load" => reqs[x].net = "load"
      BY <2>1, <3>1, <3>2, CanceledOutside
    <3>4. Linked(x, reqs'[x], tokens', signals')
      BY <2>1, <2>2, <3>3, FewerLinked DEF Outside
    <3>5. QED
      BY <3>3, <3>4 DEF Outside
  <2>4. CASE x \notin who
    <3>1. reqs'[x] = reqs[x]
      BY <1>5, <2>4
    <3>2. Linked(x, reqs[x], tokens', signals')
      BY <1>2, <1>3, <2>1, <2>4 DEF Linked, Hears, Unheard, TokenOf
    <3>3. QED
      BY <2>1, <3>1, <3>2 DEF Outside
  <2>5. QED
    BY <2>3, <2>4
<1>7. QED
  BY <1>4, <1>5, <1>6 DEF WireInv, OutsideAll

\* Cancelling a token changes its reason only.
LEMMA CancelOutside == ASSUME WireInv, NEW t \in Tokens, Cancel(t) PROVE OutsideAll
<1>1. tokens' = [tokens EXCEPT ![t].reason = TRUE] /\ reqs' = reqs /\ signals' = signals
  BY DEF Cancel, CancelIt
<1>2. tokens \in [Tokens -> TokenState]
  BY DEF WireInv, Listened
<1>3. /\ tokens' \in [Tokens -> TokenState]
      /\ \A x \in Tokens : /\ tokens'[x].told = tokens[x].told
                           /\ tokens'[x].listeners = tokens[x].listeners
                           /\ tokens[x].reason => tokens'[x].reason
  BY <1>1, <1>2 DEF TokenState
<1>4. Listened(tokens', signals')
  BY <1>1, <1>3 DEF WireInv, Listened
<1>5. ASSUME NEW x \in Requests
      PROVE  Linked(x, reqs[x], tokens', signals') /\ Outside(reqs[x], reqs[x])
  BY <1>1, <1>3 DEF WireInv, Linked, Unheard, TokenOf, Outside
<1>6. QED
  BY <1>1, <1>4, <1>5 DEF WireInv, OutsideAll

\* Aborting a signal ends the exchange of each of its listeners.
LEMMA AbortOutside == ASSUME WireInv, NEW s \in Signals, Abort(s) PROVE OutsideAll
<1> DEFINE who == signals[s].listeners
           leave == {r \in who : reqs[r].adapter = "fetch" /\ reqs[r].open}
<1>1. Listened(tokens, signals)
  BY DEF WireInv
<1>2. /\ reqs' = [r \in Requests |-> IF r \notin who THEN reqs[r]
                                     ELSE IF reqs[r].adapter = "xhr" THEN OnCanceled(reqs[r])
                                     ELSE OnAbort(reqs[r], CANCELED)]
      /\ tokens' = Unsubscribed(tokens, leave)
      /\ signals' = [Unsubscribed(signals, leave) EXCEPT ![s].aborted = TRUE]
  BY Zenon DEF Abort
<1> DEFINE sigs == Unsubscribed(signals, leave)
<1>3. /\ tokens' \in [Tokens -> TokenState]
      /\ \A t \in Tokens : /\ tokens'[t].reason = tokens[t].reason
                           /\ tokens'[t].told = tokens[t].told
                           /\ tokens'[t].listeners = tokens[t].listeners \ leave
  BY <1>1, <1>2, UnsubscribedTokens
<1>4. /\ sigs \in [Signals -> SignalState]
      /\ \A x \in Signals : /\ sigs[x].aborted = signals[x].aborted
                            /\ sigs[x].listeners = signals[x].listeners \ leave
  BY <1>1, UnsubscribedSignals
<1>5. signals' = [sigs EXCEPT ![s].aborted = TRUE]
  BY <1>2
<1> HIDE DEF leave, sigs
<1>6. /\ signals' \in [Signals -> SignalState]
      /\ \A x \in Signals : /\ signals'[x].aborted = IF x = s THEN TRUE ELSE sigs[x].aborted
                            /\ signals'[x].listeners = sigs[x].listeners
  BY <1>4, <1>5 DEF SignalState
<1>7. Listened(tokens', signals')
  BY <1>1, <1>3, <1>6 DEF Listened
<1>8. /\ DOMAIN reqs' = Requests
      /\ \A x \in Requests : reqs'[x] = IF x \notin who THEN reqs[x]
                                        ELSE IF reqs[x].adapter = "xhr" THEN OnCanceled(reqs[x])
                                        ELSE OnAbort(reqs[x], CANCELED)
  BY <1>2
<1>9. ASSUME NEW x \in Requests
      PROVE  /\ DOMAIN reqs'[x] = Parts /\ Alive(reqs'[x]) /\ Linked(x, reqs'[x], tokens', signals')
             /\ Outside(reqs[x], reqs'[x])
  <2>1. DOMAIN reqs[x] = Parts /\ Alive(reqs[x]) /\ Linked(x, reqs[x], tokens, signals)
    BY DEF WireInv
  <2>2. Fewer(x, tokens, signals, tokens', signals')
    BY <1>3, <1>4, <1>6 DEF Fewer
  <2>3. CASE x \notin who
    <3>1. reqs'[x] = reqs[x]
      BY <1>8, <2>3
    <3>2. x \notin leave
      BY <2>3 DEF leave
    <3>3. /\ \A t \in Tokens : x \in tokens'[t].listeners <=> x \in tokens[t].listeners
          /\ \A y \in Signals : x \in signals'[y].listeners <=> x \in signals[y].listeners
      BY <1>3, <1>4, <1>6, <3>2
    <3>4. Busy(reqs[x]) => Hears(x, reqs[x].config, signals')
      <4>1. SUFFICES ASSUME Busy(reqs[x]), NEW y \in SignalOf(reqs[x].config)
                     PROVE  ~signals'[y].aborted /\ x \in signals'[y].listeners
        BY DEF Hears
      <4>2. y \in Signals /\ ~signals[y].aborted /\ x \in signals[y].listeners
        BY <2>1, <4>1 DEF Linked, Hears, SignalOf
      <4>3. y # s
        BY <2>3, <4>2
      <4>4. QED
        BY <1>4, <1>6, <3>3, <4>2, <4>3
    <3>5. Linked(x, reqs[x], tokens', signals')
      BY <2>1, <3>3, <3>4 DEF Linked, Unheard, TokenOf
    <3>6. QED
      BY <2>1, <3>1, <3>5 DEF Outside
  <2>4. CASE x \in who /\ reqs[x].adapter = "xhr"
    <3>1. reqs'[x] = OnCanceled(reqs[x])
      BY <1>8, <2>4
    <3>2. /\ Outside(reqs[x], reqs'[x]) /\ Alive(reqs'[x]) /\ ~Busy(reqs'[x])
          /\ reqs'[x].leaving = reqs[x].leaving
          /\ reqs'[x].net = "load" => reqs[x].net = "load"
      BY <2>1, <2>4, <3>1, CanceledOutside
    <3>3. Linked(x, reqs'[x], tokens', signals')
      BY <2>1, <2>2, <3>2, FewerLinked DEF Outside
    <3>4. QED
      BY <3>2, <3>3 DEF Outside
  <2>5. CASE x \in who /\ reqs[x].adapter # "xhr"
    <3>1. reqs'[x] = OnAbort(reqs[x], CANCELED)
      BY <1>8, <2>5
    <3>2. /\ Outside(reqs[x], reqs'[x]) /\ Alive(reqs'[x])
          /\ reqs'[x].leaving = reqs[x].leaving
          /\ Busy(reqs'[x]) => SignalOf(reqs'[x].config) = {}
          /\ reqs'[x].net = "load" => reqs[x].net = "load"
      BY <2>1, <2>5, <3>1, AbortedOutside
    <3>3. Linked(x, reqs'[x], tokens', signals')
      BY <2>1, <2>2, <2>5, <3>2 DEF Linked, Hears, Unheard, Fewer, Outside
    <3>4. QED
      BY <3>2, <3>3 DEF Outside
  <2>6. QED
    BY <2>3, <2>4, <2>5
<1>10. QED
  BY <1>7, <1>8, <1>9 DEF WireInv, OutsideAll

\* The application's hand on the interceptors, progress and time leave requests,
\* tokens and signals alone.
LEMMA StillOutside ==
  ASSUME WireInv, UNCHANGED <<reqs, tokens, signals>>
  PROVE  OutsideAll
<1>1. reqs' = reqs /\ tokens' = tokens /\ signals' = signals
  OBVIOUS
<1>2. WireInv'
  BY <1>1 DEF WireInv
<1>3. \A x \in Requests : Outside(reqs[x], reqs'[x])
  BY <1>1 DEF WireInv, Outside
<1>4. QED
  BY <1>2, <1>3 DEF OutsideAll

\* Every step is one of a request's chain, or comes from outside.
LEMMA NextOutside ==
  ASSUME WireInv, [Next]_vars
  PROVE  \/ \E r \in Requests : Ask(r) \/ CallNow(r) \/ Step(r)
         \/ OutsideAll
<1>1. CASE \E r \in Requests : Ends(r)
  <2>1. PICK r \in Requests : Ends(r)
    BY <1>1
  <2>2. CASE XhrError(r) \/ XhrAbort(r) \/ XhrTimeout(r)
    <3>1. reqs[r].adapter = "xhr"
      BY <2>2 DEF XhrError, XhrAbort, XhrTimeout, Task
    <3>2. CASE XhrError(r)
      BY <3>1, <3>2, FailedOutside DEF XhrError
    <3>3. CASE XhrAbort(r)
      BY <3>1, <3>3, FailedOutside DEF XhrAbort
    <3>4. CASE XhrTimeout(r)
      BY <3>1, <3>4, FailedOutside DEF XhrTimeout
    <3>5. QED
      BY <2>2, <3>2, <3>3, <3>4
  <2>3. QED
    BY <2>1, <2>2, XhrLoadOutside, FetchHeadOutside, FetchBodyOutside, FetchFailOutside DEF Ends
<1>2. CASE \E r \in Requests : FetchTimer(r) \/ Unsubscribe(r)
  BY <1>2, FetchTimerOutside, UnsubscribeOutside
<1>3. CASE \E r \in Requests : Progress(r) \/ ProgressTimer(r) \/ Chunk(r) \/ Pull(r) \/ ProgressPosted(r)
  <2>1. UNCHANGED <<reqs, tokens, signals>>
    BY <1>3, Zenon DEF Progress, ProgressTimer, Chunk, Pull, ProgressPosted, Progresses
  <2>2. QED
    BY <2>1, StillOutside
<1>4. CASE \E t \in Tokens : TokenTold(t) \/ Cancel(t)
  BY <1>4, TokenToldOutside, CancelOutside
<1>5. CASE \E s \in Signals : Abort(s)
  BY <1>5, AbortOutside
<1>6. CASE \E kind \in {"request", "response"} : Use(kind) \/ Clear(kind) \/ \E i \in 1..2 : Eject(kind, i)
  <2>1. UNCHANGED <<reqs, tokens, signals>>
    BY <1>6, Zenon DEF Use, Clear, Eject, Changed
  <2>2. QED
    BY <2>1, StillOutside
<1>7. CASE Tick
  BY <1>7, StillOutside DEF Tick
<1>8. CASE UNCHANGED vars
  BY <1>8, StillOutside DEF vars
<1>9. QED
  BY <1>1, <1>2, <1>3, <1>4, <1>5, <1>6, <1>7, <1>8, Zenon DEF Next

\* Every step keeps exchanges and listeners in step.
LEMMA NextWire == WireInv /\ [Next]_vars => WireInv'
<1> SUFFICES ASSUME WireInv, [Next]_vars PROVE WireInv'
  OBVIOUS
<1>1. QED
  BY NextOutside, AskWire, CallNowWire, StepWire DEF OutsideAll

\* At first there is nothing to keep in step.
LEMMA InitWire == Init => WireInv
<1> SUFFICES ASSUME Init PROVE WireInv
  OBVIOUS
<1>1. /\ reqs = [r \in Requests |-> NoRequest]
      /\ tokens = [t \in Tokens |-> NewToken]
      /\ signals = [s \in Signals |-> [aborted |-> FALSE, listeners |-> {}]]
  BY DEF Init
<1>2. Listened(tokens, signals)
  BY <1>1 DEF Listened, NewToken, TokenState, SignalState
<1>3. DOMAIN NoRequest = Parts /\ Alive(NoRequest)
  BY DEF NoRequest, Parts, Alive, Busy
<1>4. ASSUME NEW r \in Requests PROVE Linked(r, NoRequest, tokens, signals)
  <2>1. ~Busy(NoRequest) /\ NoRequest.net = "idle"
    BY DEF Busy, NoRequest
  <2>2. \A t \in Tokens : tokens[t].listeners = {}
    BY <1>1 DEF NewToken
  <2>3. QED
    BY <2>1, <2>2 DEF Linked
<1>5. QED
  BY <1>1, <1>2, <1>3, <1>4 DEF WireInv

\* Requests, exchanges and listeners stay in step, whatever comes in whatever order.
THEOREM WireHolds == Spec => []WireInv
<1>1. QED
  BY InitWire, NextWire, PTL DEF Spec

-----------------------------------------------------------------------------
(* Cancellation *)

\* ListenersGo: an answered request leaves no listener behind.
THEOREM ListenersGone == Spec => []ListenersGo
<1>1. WireInv => ListenersGo
  BY DEF WireInv, Linked, Unheard, ListenersGo
<1>2. QED
  BY <1>1, WireHolds, PTL

\* CancelReachesTheWire: once all reactions have run, nothing cancelled is under way.
THEOREM CancelReaches == Spec => []CancelReachesTheWire
<1>1. WireInv => CancelReachesTheWire
  <2> SUFFICES ASSUME WireInv, Quiet, NEW r \in Requests,
                      CancelRequested(Turn(r), reqs[r].config),
                      reqs[r].adapter = "xhr" \/ \E s \in SignalOf(reqs[r].config) : signals[s].aborted,
                      Busy(reqs[r])
               PROVE  FALSE
    BY DEF CancelReachesTheWire
  <2>1. Linked(r, reqs[r], tokens, signals) /\ Listened(tokens, signals)
    BY DEF WireInv
  <2>2. \A s \in SignalOf(reqs[r].config) : ~signals[s].aborted
    BY <2>1 DEF Linked, Hears
  <2>3. PICK t \in TokenOf(reqs[r].config) : tokens[t].reason
    BY <2>2 DEF CancelRequested, Turn
  <2>4. r \in tokens[t].listeners
    BY <2>1, <2>2 DEF Linked
  <2>5. t \in Tokens /\ tokens[t].told
    BY <2>3 DEF TokenOf, Quiet, TellReady
  <2>6. QED
    BY <2>1, <2>4, <2>5 DEF Listened
<1>2. QED
  BY <1>1, WireHolds, PTL

\* The reaction to the adapter looks again.
LEMMA AdapterCancels ==
  ASSUME NEW r \in Requests, NEW w, Legal(r, w), CancelRequested(w, w.q.config)
  PROVE  IsCancel(AdapterReaction(w, r).q.val)
<1>1. AdapterReaction(w, r).q.val =
        IF w.q.val[1] = "ok" THEN OnAdapterResolution(w, w.q.config, w.q.val[2])
        ELSE OnAdapterRejection(w, w.q.config, w.q.val)
  BY AdapterTurn
<1>2. IsCancel(Err(CANCELED))
  BY DEF IsCancel, Err
<1>3. OnAdapterResolution(w, w.q.config, w.q.val[2]) = Err(CANCELED)
  BY Zenon DEF OnAdapterResolution
<1>4. IsCancel(OnAdapterRejection(w, w.q.config, w.q.val))
  BY <1>2, Zenon DEF OnAdapterRejection
<1>5. QED
  BY <1>1, <1>2, <1>3, <1>4

\* A reaction changes one request.
LEMMA BecomesOne ==
  ASSUME WireInv, NEW r \in Requests, NEW w, Becomes(r, w)
  PROVE  reqs'[r] = w.q /\ \A x \in Requests : x # r => reqs'[x] = reqs[x]
  BY DEF WireInv, Becomes

\* CancelHolds: what is cancelled before its answer is handed on ends as cancelled.
THEOREM CancelStays == Spec => CancelHolds
<1> DEFINE Held == \A r \in Requests :
                     (/\ reqs[r].stage = "adapter" /\ CancelRequested(Turn(r), reqs[r].config)
                      /\ reqs'[r].stage # "adapter")
                     => IsCancel(reqs'[r].val)
<1>1. WireInv /\ [Next]_vars => Held
  <2> SUFFICES ASSUME WireInv, [Next]_vars, NEW x \in Requests,
                      reqs[x].stage = "adapter", CancelRequested(Turn(x), reqs[x].config),
                      reqs'[x].stage # "adapter"
               PROVE  IsCancel(reqs'[x].val)
    OBVIOUS
  <2>1. CASE OutsideAll
    BY <2>1 DEF OutsideAll, Outside
  <2>2. ASSUME NEW r \in Requests, Ask(r) PROVE FALSE
    <3>1. reqs[r].stage = "unasked" /\ DOMAIN reqs = Requests
      BY <2>2 DEF Ask, WireInv
    <3>2. PICK q : reqs' = [reqs EXCEPT ![r] = q]
      BY <2>2, Zenon DEF Ask
    <3>3. QED
      BY <3>1, <3>2
  <2>3. ASSUME NEW r \in Requests, CallNow(r) PROVE FALSE
    <3>1. reqs[r].stage = "now"
      BY <2>3 DEF CallNow
    <3>2. PICK w : Becomes(r, w)
      BY <2>3, CallNowTurn
    <3>3. QED
      BY <3>1, <3>2, BecomesOne
  <2>4. ASSUME NEW r \in Requests, Step(r) PROVE IsCancel(reqs'[x].val)
    <3>1. PICK w : Becomes(r, w)
      BY <2>4 DEF Step
    <3>2. x = r
      BY <3>1, BecomesOne
    <3>3. Becomes(x, AdapterReaction(Turn(x), x))
      BY <2>4, <3>2, Zenon DEF Step
    <3>4. reqs'[x] = AdapterReaction(Turn(x), x).q
      BY <3>3, BecomesOne
    <3>5. Legal(x, Turn(x)) /\ Turn(x).q = reqs[x]
      BY TurnLegal DEF Turn
    <3>6. QED
      BY <3>4, <3>5, AdapterCancels
  <2>5. QED
    BY <2>1, <2>2, <2>3, <2>4, NextOutside
<1>2. QED
  BY <1>1, WireHolds, PTL DEF Spec, CancelHolds

-----------------------------------------------------------------------------
(* Progress *)

\* Multiplication is monotonic.
LEMMA Product == ASSUME NEW i \in Nat, NEW j \in Nat, NEW s \in Nat, i <= j PROVE i * s <= j * s
  BY SMT

\* Division by a positive number, by its defining inequalities.
LEMMA Division == ASSUME NEW a \in Nat, NEW s \in Nat \ {0}
  PROVE  /\ a \div s \in Nat /\ (a \div s) * s <= a /\ a < (a \div s) * s + s
         /\ a % s \in Nat /\ a % s = a - (a \div s) * s
  BY SMT

\* The quotient is the one number between them.
LEMMA Quotient == ASSUME NEW a \in Nat, NEW s \in Nat \ {0}, NEW k \in Nat, k * s <= a, a < k * s + s
  PROVE a \div s = k /\ a % s = a - k * s
<1> DEFINE d == a \div s
<1>1. d \in Nat /\ d * s <= a /\ a < d * s + s /\ a % s = a - d * s
  BY Division
<1> HIDE DEF d
<1>2. ASSUME NEW m \in Nat, NEW n \in Nat, m < n PROVE m * s + s <= n * s
  <2>1. (m + 1) * s <= n * s
    BY <1>2, Product
  <2>2. (m + 1) * s = m * s + s
    BY SMT
  <2>3. QED
    BY <2>1, <2>2
<1>3. d * s \in Nat /\ k * s \in Nat
  BY <1>1
<1>4. ~(d < k)
  BY <1>1, <1>2, <1>3
<1>5. ~(k < d)
  BY <1>1, <1>2, <1>3
<1>6. QED
  BY <1>1, <1>4, <1>5 DEF d

\* How much of a chunk the first i pieces hold.
Filled(i, len, size) == IF i * size <= len THEN i * size ELSE len

\* c is a chunk of len in pieces, none of them empty.
Pieces(c, len, size) ==
  /\ c \in Seq(Nat)
  /\ \A i \in 0 .. Len(c) : Filled(i, len, size) \in 0 .. len
  /\ Filled(0, len, size) = 0 /\ Filled(Len(c), len, size) = len
  /\ \A i \in 1 .. Len(c) : /\ c[i] > 0
                            /\ Filled(i, len, size) = Filled(i - 1, len, size) + c[i]

\* streamChunk cuts a chunk into such pieces: none is empty, and they add up to it.
LEMMA ChunkPieces ==
  ASSUME NEW len \in Nat \ {0}, NEW size \in Nat \ {0}, NEW c, c = StreamChunk(len, size)
  PROVE  Pieces(c, len, size)
<1>1. \A i \in Nat : /\ i * size \in Nat /\ Filled(i, len, size) \in 0 .. len
  BY DEF Filled
<1>2. Filled(0, len, size) = 0
  <2>1. 0 * size = 0
    BY SMT
  <2>2. QED
    BY <2>1 DEF Filled
<1>3. CASE len < size
  <2>1. c = <<len>>
    BY <1>3 DEF StreamChunk
  <2>2. Filled(1, len, size) = len
    <3>1. 1 * size = size
      BY SMT
    <3>2. QED
      BY <1>3, <3>1 DEF Filled
  <2>3. QED
    BY <1>1, <1>2, <2>1, <2>2 DEF Pieces
<1>4. CASE ~(len < size)
  <2> DEFINE m == len + size - 1
             k == m \div size
  <2>1. c = [i \in 1 .. k |-> IF i * size <= len THEN size ELSE len % size]
    BY <1>4 DEF StreamChunk
  <2>0. m \in Nat /\ m = len + size - 1
    OBVIOUS
  <2> HIDE DEF m
  <2>2. k \in Nat /\ k * size <= m /\ m < k * size + size
    BY <2>0, Division
  <2> HIDE DEF k
  <2>3. k * size \in Nat /\ len <= k * size /\ k * size < len + size
    BY <2>0, <2>2
  <2>4. Filled(k, len, size) = len
    BY <2>3 DEF Filled
  <2>5. \A i \in 1 .. k : /\ (i - 1) * size = i * size - size /\ i * size \in Nat
                          /\ (i - 1) * size < len
    <3> TAKE i \in 1 .. k
    <3>1. i * size <= k * size
      BY <2>2, Product
    <3>2. (i - 1) * size = i * size - size
      BY <2>2, SMT
    <3>3. QED
      BY <2>2, <2>3, <3>1, <3>2, <1>1
  <2>6. len % size \in Nat
    BY Division
  <2>7. c \in Seq(Nat) /\ Len(c) = k
    <3>1. \A i \in 1 .. k : (IF i * size <= len THEN size ELSE len % size) \in Nat
      BY <2>6
    <3>2. c \in [1 .. k -> Nat]
      BY <2>1, <3>1
    <3>3. QED
      BY <2>2, <3>2
  <2>8. ASSUME NEW i \in 1 .. k
        PROVE  c[i] > 0 /\ Filled(i, len, size) = Filled(i - 1, len, size) + c[i]
    <3>1. Filled(i - 1, len, size) = i * size - size
      BY <2>5 DEF Filled
    <3>2. c[i] = IF i * size <= len THEN size ELSE len % size
      BY <2>1
    <3>3. CASE i * size <= len
      BY <3>1, <3>2, <3>3, <2>5 DEF Filled
    <3>4. CASE ~(i * size <= len)
      <4>1. len % size = len - (i - 1) * size
        <5>1. i - 1 \in Nat /\ (i - 1) * size <= len /\ len < (i - 1) * size + size
          BY <2>2, <2>5, <3>4
        <5>2. QED
          BY <5>1, Quotient
      <4>2. QED
        BY <3>1, <3>2, <3>4, <4>1, <2>5 DEF Filled
    <3>5. QED
      BY <3>3, <3>4
  <2>9. k \in Nat
    BY <2>2
  <2>10. \A i \in 0 .. k : Filled(i, len, size) \in 0 .. len
    BY <1>1, <2>9
  <2>11. QED
    BY <1>2, <2>4, <2>7, <2>8, <2>10, Zenon DEF Pieces
<1>5. QED
  BY <1>3, <1>4
ProgressParts == {"loaded", "since", "late", "lateAt", "told", "stream", "bytes", "posted"}

\* The bytes of the last report.
Latest(p) == IF p.told = <<>> THEN 0 ELSE Last(p.told).loaded

\* What was told and what is told later: a report that was put off is news.
Reported(p) ==
  /\ DOMAIN p = ProgressParts
  /\ p.loaded \in Nat /\ p.late \in Nat /\ p.bytes \in Nat
  /\ p.told \in Seq([loaded : Nat, bytes : Nat]) /\ p.posted \in Seq(Nat) /\ p.stream \in Seq(Nat)
  /\ \A i \in DOMAIN p.told : p.told[i].bytes > 0 /\ p.told[i].loaded <= p.loaded
  /\ Latest(p) <= p.loaded /\ p.late <= p.loaded
  /\ p.late # 0 => Latest(p) < p.late

\* acc[i] is what was read once i more pieces of the stream were.
Sums(acc, p) ==
  /\ acc \in [0 .. Len(p.stream) -> 0 .. p.loaded]
  /\ acc[0] = p.bytes /\ acc[Len(p.stream)] = p.loaded
  /\ \A i \in 1 .. Len(p.stream) : p.stream[i] > 0 /\ acc[i] = acc[i - 1] + p.stream[i]

\* fetch's progress: the pieces still to be read are the bytes not yet read, and the
\* events posted grow, from what was told and what will be to what was read.
Streamed(p) ==
  /\ \E acc : Sums(acc, p)
  /\ Latest(p) <= p.bytes /\ p.late <= p.bytes
  /\ \A i \in 1 .. Len(p.posted) :
       p.posted[i] > Latest(p) /\ p.posted[i] > p.late /\ p.posted[i] <= p.bytes
  /\ \A i, j \in 1 .. Len(p.posted) : i < j => p.posted[i] < p.posted[j]

\* One request's progress, by the adapter it has.
Counted(q, p) ==
  /\ Reported(p)
  /\ q.adapter = "none" => p.loaded = 0
  /\ q.adapter # "fetch" => p.posted = <<>> /\ p.stream = <<>> /\ p.bytes = 0
  /\ q.adapter = "fetch" => Streamed(p)

\* Reports are in step with what was loaded, on every request.
ProgInv == /\ DOMAIN progress = Requests
           /\ \A r \in Requests : Counted(reqs[r], progress[r])

\* What is told is a number.
LEMMA ToldNat == ASSUME NEW p, Reported(p) PROVE \A i \in DOMAIN p.told : p.told[i].loaded \in Nat
<1> DEFINE R == [loaded : Nat, bytes : Nat]
<1>1. p.told \in Seq(R) /\ \A x \in R : x.loaded \in Nat
  BY DEF Reported
<1> HIDE DEF R
<1>2. QED
  BY <1>1

\* So is the last of it.
LEMMA LatestNat == ASSUME NEW p, Reported(p) PROVE Latest(p) \in Nat
<1> DEFINE R == [loaded : Nat, bytes : Nat]
<1>1. p.told \in Seq(R) /\ \A x \in R : x.loaded \in Nat
  BY DEF Reported
<1> HIDE DEF R
<1>2. CASE p.told = <<>>
  BY <1>2 DEF Latest
<1>3. CASE p.told # <<>>
  <2>1. Len(p.told) \in 1 .. Len(p.told)
    BY <1>1, <1>3
  <2>2. p.told[Len(p.told)] \in R
    BY <1>1, <2>1
  <2>3. QED
    BY <1>1, <1>3, <2>2 DEF Latest, Last
<1>4. QED
  BY <1>2, <1>3

\* A report of more than the last keeps the reports growing.
LEMMA ReportTold ==
  ASSUME NEW p, Reported(p), NEW l \in Nat, Latest(p) < l, l <= p.loaded, p.late = 0,
         NEW v, v = Report(p, l)
  PROVE  /\ Reported(v) /\ Latest(v) = l
         /\ v.loaded = p.loaded /\ v.late = 0 /\ v.bytes = p.bytes /\ v.stream = p.stream
         /\ v.posted = p.posted
<1> DEFINE e == [loaded |-> l, bytes |-> l - Latest(p)]
           R == [loaded : Nat, bytes : Nat]
<1>0. /\ p.told \in Seq(R) /\ \A i \in DOMAIN p.told : p.told[i].bytes > 0 /\ p.told[i].loaded <= p.loaded
  BY DEF Reported
<1>1. Latest(p) \in Nat
  BY LatestNat
<1>2. e \in R /\ e.loaded = l /\ e.bytes > 0
  BY <1>1
<1>3. /\ DOMAIN v = ProgressParts /\ v.told = Append(p.told, e)
      /\ \A f \in ProgressParts \ {"told", "since"} : v[f] = p[f]
  BY DEF Report, Latest, Reported, ProgressParts
<1> HIDE DEF e, R
<1>4. /\ v.loaded = p.loaded /\ v.late = 0 /\ v.bytes = p.bytes /\ v.stream = p.stream
      /\ v.posted = p.posted
  BY <1>3 DEF ProgressParts
<1>5. /\ v.told \in Seq(R) /\ v.told # <<>> /\ v.told[Len(v.told)] = e
      /\ DOMAIN v.told = 1 .. Len(p.told) + 1 /\ DOMAIN p.told = 1 .. Len(p.told)
      /\ \A i \in 1 .. Len(p.told) : v.told[i] = p.told[i]
      /\ v.told[Len(p.told) + 1] = e
  BY <1>0, <1>2, <1>3
<1>6. Latest(v) = l
  BY <1>2, <1>5 DEF Latest, Last
<1>7. \A i \in DOMAIN v.told : v.told[i].bytes > 0 /\ v.told[i].loaded <= v.loaded
  BY <1>0, <1>2, <1>4, <1>5
<1>8. QED
  BY <1>3, <1>4, <1>5, <1>6, <1>7 DEF Reported, R

\* With one field set.
LEMMA ToldLate ==
  ASSUME NEW p, Reported(p), NEW l \in Nat, l # 0 => Latest(p) < l, l <= p.loaded,
         NEW v, DOMAIN v = ProgressParts, v.late = l,
         \A f \in ProgressParts \ {"late", "lateAt"} : v[f] = p[f]
  PROVE  /\ Reported(v) /\ Latest(v) = Latest(p)
         /\ v.loaded = p.loaded /\ v.bytes = p.bytes /\ v.stream = p.stream /\ v.posted = p.posted
<1>1. /\ v.loaded = p.loaded /\ v.bytes = p.bytes /\ v.stream = p.stream /\ v.posted = p.posted
      /\ v.told = p.told
  BY DEF ProgressParts
<1>2. QED
  BY <1>1 DEF Reported, Latest

\* throttle's report, made now or put off, keeps them growing.
LEMMA ThrottledTold ==
  ASSUME NEW p, Reported(p), NEW l \in Nat, Latest(p) < l, l <= p.loaded, NEW v, v = Throttled(p, l)
  PROVE  /\ Reported(v) /\ Latest(v) \in {Latest(p), l} /\ v.late \in {0, p.late, l}
         /\ v.loaded = p.loaded /\ v.bytes = p.bytes /\ v.stream = p.stream /\ v.posted = p.posted
<1>1. CASE clock - p.since > Threshold
  <2> DEFINE u == [p EXCEPT !.late = 0]
  <2>1. /\ DOMAIN u = ProgressParts /\ u.late = 0
        /\ \A f \in ProgressParts \ {"late", "lateAt"} : u[f] = p[f]
    BY DEF Reported, ProgressParts
  <2>2. v = Report(u, l)
    BY <1>1, Zenon DEF Throttled
  <2> HIDE DEF u
  <2>3. /\ Reported(u) /\ Latest(u) = Latest(p)
        /\ u.loaded = p.loaded /\ u.bytes = p.bytes /\ u.stream = p.stream /\ u.posted = p.posted
    BY <2>1, ToldLate DEF Reported
  <2>4. QED
    BY <2>1, <2>2, <2>3, ReportTold
<1>2. CASE ~(clock - p.since > Threshold) /\ p.late # 0
  <2>1. v = p
    BY <1>2, Zenon DEF Throttled
  <2>2. QED
    BY <2>1
<1>3. CASE ~(clock - p.since > Threshold) /\ p.late = 0
  <2>1. v = [p EXCEPT !.late = l, !.lateAt = p.since + Threshold]
    BY <1>3, Zenon DEF Throttled
  <2>2. /\ DOMAIN v = ProgressParts /\ v.late = l
        /\ \A f \in ProgressParts \ {"late", "lateAt"} : v[f] = p[f]
    BY <2>1 DEF Reported, ProgressParts
  <2>3. QED
    BY <2>2, ToldLate
<1>4. QED
  BY <1>1, <1>2, <1>3

\* What changes one request's progress.
LEMMA OneCounted ==
  ASSUME ProgInv, NEW r \in Requests, NEW p, Progresses(r, p), Counted(reqs[r], p)
  PROVE  ProgInv'
<1>1. progress' = [progress EXCEPT ![r] = p] /\ reqs' = reqs
  BY DEF Progresses
<1>2. DOMAIN progress' = Requests /\ progress'[r] = p /\ \A x \in Requests : x # r => progress'[x] = progress[x]
  BY <1>1 DEF ProgInv
<1>3. QED
  BY <1>1, <1>2 DEF ProgInv

\* A progress event of xhr keeps the reports in step with what was loaded.
LEMMA ProgressCounted == ASSUME ProgInv, NEW r \in Requests, Progress(r) PROVE ProgInv'
<1> DEFINE p == progress[r]
           l == p.loaded + 1
           u == [p EXCEPT !.loaded = l]
           v == Throttled(u, l)
<1>1. reqs[r].adapter = "xhr" /\ Progresses(r, v)
  BY Zenon DEF Progress, Task
<1>2. Counted(reqs[r], p)
  BY DEF ProgInv
<1>3. /\ Reported(p) /\ p.posted = <<>> /\ p.stream = <<>> /\ p.bytes = 0
  BY <1>1, <1>2 DEF Counted
<1>4. l \in Nat /\ Latest(p) < l
  <2>1. p.loaded \in Nat /\ Latest(p) <= p.loaded
    BY <1>3 DEF Reported
  <2>2. Latest(p) \in Int
    BY <1>3, LatestNat
  <2>3. QED
    BY <2>1, <2>2
<1>5. DOMAIN u = ProgressParts /\ u.loaded = l /\ \A f \in ProgressParts \ {"loaded"} : u[f] = p[f]
  BY <1>3 DEF Reported, ProgressParts
<1> HIDE DEF p, u
<1>6. /\ u.late = p.late /\ u.bytes = p.bytes /\ u.told = p.told /\ u.posted = p.posted
      /\ u.stream = p.stream
  BY <1>5 DEF ProgressParts
<1>7. Latest(u) = Latest(p)
  BY <1>6 DEF Latest
<1>8. Reported(u)
  <2>1. p.loaded \in Nat /\ l = p.loaded + 1
    BY <1>3 DEF Reported
  <2>2. Latest(p) \in Nat /\ \A i \in DOMAIN p.told : p.told[i].loaded \in Nat
    BY <1>3, LatestNat, ToldNat
  <2> HIDE DEF l
  <2>3. \A i \in DOMAIN u.told : u.told[i].bytes > 0 /\ u.told[i].loaded <= u.loaded
    <3>1. \A i \in DOMAIN p.told : p.told[i].bytes > 0 /\ p.told[i].loaded <= p.loaded
      BY <1>3 DEF Reported
    <3>2. u.told = p.told /\ u.loaded = p.loaded + 1
      BY <1>5, <1>6, <2>1
    <3>3. QED
      BY <2>1, <2>2, <3>1, <3>2
  <2>4. /\ u.loaded \in Nat /\ u.late \in Nat /\ u.bytes \in Nat
        /\ Latest(u) <= u.loaded /\ u.late <= u.loaded /\ (u.late # 0 => Latest(u) < u.late)
    <3>1. /\ p.late \in Nat /\ p.bytes \in Nat /\ p.late <= p.loaded
          /\ p.late # 0 => Latest(p) < p.late
      BY <1>3 DEF Reported
    <3>2. QED
      BY <1>4, <1>5, <1>6, <1>7, <2>1, <2>2, <3>1
  <2>5. /\ u.told \in Seq([loaded : Nat, bytes : Nat]) /\ u.posted \in Seq(Nat)
        /\ u.stream \in Seq(Nat)
    BY <1>3, <1>6 DEF Reported
  <2>6. QED
    BY <1>5, <2>3, <2>4, <2>5, Zenon DEF Reported
<1> HIDE DEF l
<1>9. /\ Reported(v) /\ v.posted = u.posted /\ v.stream = u.stream /\ v.bytes = u.bytes
  BY <1>4, <1>5, <1>7, <1>8, ThrottledTold
<1> HIDE DEF v
<1>10. Counted(reqs[r], v)
  BY <1>1, <1>3, <1>6, <1>9 DEF Counted
<1>11. QED
  BY <1>1, <1>10, OneCounted

\* So does an event that was posted from the stream.
LEMMA PostedCounted == ASSUME ProgInv, NEW r \in Requests, ProgressPosted(r) PROVE ProgInv'
<1> DEFINE p == progress[r]
           l == Head(p.posted)
           u == [p EXCEPT !.posted = Tail(@)]
           v == Throttled(u, l)
<1>1. p.posted # <<>> /\ Progresses(r, v)
  BY Zenon DEF ProgressPosted
<1>2. Counted(reqs[r], p)
  BY DEF ProgInv
<1>3. Reported(p) /\ reqs[r].adapter = "fetch" /\ Streamed(p)
  BY <1>1, <1>2 DEF Counted
<1>4. /\ DOMAIN u = ProgressParts /\ u.posted = Tail(p.posted)
      /\ \A f \in ProgressParts \ {"posted"} : u[f] = p[f]
  BY <1>3 DEF Reported, ProgressParts
<1> HIDE DEF p, u
<1>5. /\ u.loaded = p.loaded /\ u.late = p.late /\ u.bytes = p.bytes /\ u.told = p.told /\ u.stream = p.stream
  BY <1>4 DEF ProgressParts
<1>6. p.posted \in Seq(Nat) /\ Len(p.posted) \in Nat \ {0} /\ l = p.posted[1]
  BY <1>1, <1>3 DEF Reported
<1>7. /\ Tail(p.posted) \in Seq(Nat) /\ Len(Tail(p.posted)) = Len(p.posted) - 1
      /\ \A i \in 1 .. Len(Tail(p.posted)) : Tail(p.posted)[i] = p.posted[i + 1]
  BY <1>6
<1>8. Latest(u) = Latest(p)
  BY <1>5 DEF Latest
<1>9. Reported(u)
  BY <1>3, <1>4, <1>5, <1>7, <1>8 DEF Reported
<1>10. /\ l \in Nat /\ Latest(p) < l /\ l > p.late /\ l <= p.bytes
       /\ \A i \in 2 .. Len(p.posted) : p.posted[i] > l
  BY <1>3, <1>6 DEF Streamed
<1>11. p.bytes \in Nat /\ p.loaded \in Nat /\ p.late \in Nat
  BY <1>3 DEF Reported
<1>12. p.bytes <= p.loaded
  <2>1. PICK acc : Sums(acc, p)
    BY <1>3 DEF Streamed
  <2>2. 0 \in 0 .. Len(p.stream)
    BY <1>3 DEF Reported
  <2>3. QED
    BY <1>11, <2>1, <2>2 DEF Sums
<1> HIDE DEF l
<1>13. /\ Reported(v) /\ Latest(v) \in {Latest(p), l} /\ v.late \in {0, p.late, l}
       /\ v.loaded = p.loaded /\ v.bytes = p.bytes /\ v.stream = p.stream /\ v.posted = Tail(p.posted)
  BY <1>4, <1>5, <1>8, <1>9, <1>10, <1>11, <1>12, ThrottledTold
<1> HIDE DEF v
<1>14. Streamed(v)
  <2>1. \E acc : Sums(acc, v)
    BY <1>3, <1>13 DEF Streamed, Sums
  <2>2. Latest(v) <= v.bytes /\ v.late <= v.bytes
    BY <1>3, <1>10, <1>11, <1>13 DEF Streamed
  <2>3. \A i \in 1 .. Len(v.posted) : i + 1 \in 2 .. Len(p.posted) /\ v.posted[i] = p.posted[i + 1]
    <3> DEFINE n == Len(p.posted)
               s == Tail(p.posted)
    <3>1. n \in Nat \ {0} /\ Len(s) = n - 1 /\ v.posted = s
      BY <1>6, <1>7, <1>13
    <3>2. \A i \in 1 .. Len(s) : s[i] = p.posted[i + 1]
      BY <1>7
    <3> HIDE DEF s
    <3>3. QED
      BY <3>1, <3>2
  <2>4. \A i \in 1 .. Len(p.posted) : p.posted[i] \in Nat
    BY <1>6
  <2>5. Latest(p) \in Nat
    BY <1>3, LatestNat
  <2>6. ASSUME NEW i \in 1 .. Len(v.posted)
        PROVE  v.posted[i] > Latest(v) /\ v.posted[i] > v.late /\ v.posted[i] <= v.bytes
    <3> DEFINE x == p.posted[i + 1]
    <3>1. i + 1 \in 2 .. Len(p.posted) /\ v.posted[i] = x
      BY <2>3, <2>6
    <3>2. x > l /\ x \in Nat /\ x > Latest(p) /\ x > p.late /\ x <= p.bytes
      BY <1>3, <1>10, <2>4, <3>1 DEF Streamed
    <3> HIDE DEF x
    <3>3. Latest(v) \in {Latest(p), l} /\ v.late \in {0, p.late, l} /\ v.bytes = p.bytes
      BY <1>13
    <3>4. l \in Nat
      BY <1>10
    <3>5. x > Latest(v) /\ x > v.late /\ x <= v.bytes
      BY <1>11, <2>5, <3>2, <3>3, <3>4
    <3>6. QED
      BY <3>1, <3>5
  <2>7. ASSUME NEW i \in 1 .. Len(v.posted), NEW j \in 1 .. Len(v.posted), i < j
        PROVE  v.posted[i] < v.posted[j]
    <3>1. /\ i + 1 \in 1 .. Len(p.posted) /\ v.posted[i] = p.posted[i + 1]
          /\ j + 1 \in 1 .. Len(p.posted) /\ v.posted[j] = p.posted[j + 1] /\ i + 1 < j + 1
      BY <2>3, <2>7
    <3>2. QED
      BY <1>3, <3>1 DEF Streamed
  <2>8. QED
    BY <2>1, <2>2, <2>6, <2>7 DEF Streamed
<1>15. Counted(reqs[r], v)
  BY <1>3, <1>13, <1>14 DEF Counted
<1>16. QED
  BY <1>1, <1>15, OneCounted

\* So does throttle's timer.
LEMMA TimerCounted == ASSUME ProgInv, NEW r \in Requests, ProgressTimer(r) PROVE ProgInv'
<1> DEFINE p == progress[r]
           l == p.late
           u == [p EXCEPT !.late = 0]
           v == Report(u, l)
<1>1. l # 0 /\ Progresses(r, v)
  BY Zenon DEF ProgressTimer
<1>2. Counted(reqs[r], p)
  BY DEF ProgInv
<1>3. Reported(p)
  BY <1>2 DEF Counted
<1>4. /\ DOMAIN u = ProgressParts /\ u.late = 0
      /\ \A f \in ProgressParts \ {"late", "lateAt"} : u[f] = p[f]
  BY <1>3 DEF Reported, ProgressParts
<1> HIDE DEF u
<1>5. /\ Reported(u) /\ Latest(u) = Latest(p)
      /\ u.loaded = p.loaded /\ u.bytes = p.bytes /\ u.stream = p.stream /\ u.posted = p.posted
  <2>1. p.loaded \in Nat
    BY <1>3 DEF Reported
  <2>2. 0 \in Nat /\ 0 <= p.loaded
    BY <2>1
  <2>3. QED
    BY <1>3, <1>4, <2>2, ToldLate
<1>6. l \in Nat /\ Latest(p) < l /\ l <= p.loaded
  BY <1>1, <1>3 DEF Reported
<1>7. /\ Reported(v) /\ Latest(v) = l /\ v.late = 0
      /\ v.loaded = p.loaded /\ v.bytes = p.bytes /\ v.stream = p.stream /\ v.posted = p.posted
  BY <1>4, <1>5, <1>6, ReportTold
<1> HIDE DEF v
<1>8. ASSUME Streamed(p) PROVE Streamed(v)
  <2>1. \A i \in 1 .. Len(p.posted) : p.posted[i] \in Nat /\ p.posted[i] > l
    <3>1. p.posted \in Seq(Nat)
      BY <1>3 DEF Reported
    <3>2. \A i \in 1 .. Len(p.posted) : p.posted[i] > l
      BY <1>8 DEF Streamed
    <3>3. QED
      BY <3>1, <3>2
  <2>2. l <= p.bytes /\ p.bytes \in Nat
    BY <1>3, <1>8 DEF Streamed, Reported
  <2>3. \E acc : Sums(acc, v)
    BY <1>7, <1>8 DEF Streamed, Sums
  <2> HIDE DEF l
  <2>4. QED
    BY <1>6, <1>7, <1>8, <2>1, <2>2, <2>3 DEF Streamed
<1>9. Counted(reqs[r], v)
  BY <1>2, <1>7, <1>8 DEF Counted
<1>10. QED
  BY <1>1, <1>9, OneCounted

\* So does a chunk: it goes into the stream in pieces.
LEMMA ChunkCounted == ASSUME ProgInv, NEW r \in Requests, Chunk(r) PROVE ProgInv'
<1> DEFINE p == progress[r]
<1>1. PICK n \in 1 .. MaxLoaded - p.loaded :
        Progresses(r, [p EXCEPT !.loaded = @ + n, !.stream = @ \o StreamChunk(n, ChunkSize)])
  BY Zenon DEF Chunk
<1>2. Counted(reqs[r], p) /\ reqs[r].adapter = "fetch"
  BY DEF ProgInv, Chunk, Task
<1>3. Reported(p) /\ Streamed(p)
  BY <1>2 DEF Counted
<1> DEFINE c == StreamChunk(n, ChunkSize)
           v == [p EXCEPT !.loaded = @ + n, !.stream = @ \o c]
<1>4. Progresses(r, v)
  BY <1>1
<1>5. p.loaded \in Nat /\ p.bytes \in Nat /\ p.late \in Nat /\ p.stream \in Seq(Nat)
  BY <1>3 DEF Reported
<1>6. n \in Nat \ {0} /\ ChunkSize \in Nat \ {0}
  BY <1>5, AxiosAssumption
<1>7. /\ c \in Seq(Nat)
      /\ \A i \in 0 .. Len(c) : Filled(i, n, ChunkSize) \in 0 .. n
      /\ Filled(0, n, ChunkSize) = 0 /\ Filled(Len(c), n, ChunkSize) = n
      /\ \A i \in 1 .. Len(c) : /\ c[i] > 0
                                /\ Filled(i, n, ChunkSize) = Filled(i - 1, n, ChunkSize) + c[i]
  <2>1. c = StreamChunk(n, ChunkSize)
    OBVIOUS
  <2> HIDE DEF c
  <2>2. Pieces(c, n, ChunkSize)
    BY <1>6, <2>1, ChunkPieces
  <2>3. QED
    BY <2>2 DEF Pieces
<1> HIDE DEF c, p
<1>8. /\ DOMAIN v = ProgressParts /\ v.loaded = p.loaded + n /\ v.stream = p.stream \o c
      /\ \A f \in ProgressParts \ {"loaded", "stream"} : v[f] = p[f]
  BY <1>3 DEF Reported, ProgressParts
<1> HIDE DEF v
<1>9. /\ v.late = p.late /\ v.bytes = p.bytes /\ v.told = p.told /\ v.posted = p.posted
  BY <1>8 DEF ProgressParts
<1>10. Latest(v) = Latest(p) /\ Latest(p) \in Nat
  BY <1>3, <1>9, LatestNat DEF Latest
<1>11. v.loaded \in Nat /\ v.stream \in Seq(Nat)
  BY <1>5, <1>6, <1>7, <1>8
<1>12. Reported(v)
  <2>1. \A i \in DOMAIN p.told : /\ p.told[i].bytes > 0 /\ p.told[i].loaded <= p.loaded
                                 /\ p.told[i].loaded \in Nat
    BY <1>3, ToldNat DEF Reported
  <2>2. \A i \in DOMAIN v.told : v.told[i].bytes > 0 /\ v.told[i].loaded <= v.loaded
    BY <1>5, <1>6, <1>8, <1>9, <2>1
  <2>3. /\ Latest(p) <= p.loaded /\ p.late <= p.loaded /\ (p.late # 0 => Latest(p) < p.late)
    BY <1>3 DEF Reported
  <2>4. /\ Latest(v) <= v.loaded /\ v.late <= v.loaded /\ (v.late # 0 => Latest(v) < v.late)
    BY <1>5, <1>6, <1>8, <1>9, <1>10, <2>3
  <2>5. /\ v.told \in Seq([loaded : Nat, bytes : Nat]) /\ v.posted \in Seq(Nat)
    BY <1>3, <1>9 DEF Reported
  <2>6. v.late \in Nat /\ v.bytes \in Nat
    BY <1>5, <1>9
  <2>7. QED
    BY <1>8, <1>11, <2>2, <2>4, <2>5, <2>6, Zenon DEF Reported
<1>13. \E acc : Sums(acc, v)
  <2>1. PICK acc : Sums(acc, p)
    BY <1>3 DEF Streamed
  <2> DEFINE m == Len(p.stream)
             k == Len(c)
             acc2 == [i \in 0 .. m + k |-> IF i <= m THEN acc[i]
                                           ELSE p.loaded + Filled(i - m, n, ChunkSize)]
  <2>2. /\ acc \in [0 .. m -> 0 .. p.loaded] /\ acc[0] = p.bytes /\ acc[m] = p.loaded
        /\ \A i \in 1 .. m : p.stream[i] > 0 /\ acc[i] = acc[i - 1] + p.stream[i]
    BY <2>1 DEF Sums
  <2>3. m \in Nat /\ k \in Nat
    BY <1>5, <1>7
  <2>4. /\ Len(v.stream) = m + k
        /\ \A i \in 1 .. m + k : v.stream[i] = IF i <= m THEN p.stream[i] ELSE c[i - m]
    BY <1>5, <1>7, <1>8
  <2> HIDE DEF m, k
  <2>5. /\ \A i \in 0 .. k : Filled(i, n, ChunkSize) \in 0 .. n
        /\ Filled(0, n, ChunkSize) = 0 /\ Filled(k, n, ChunkSize) = n
        /\ \A i \in 1 .. k : /\ c[i] > 0
                             /\ Filled(i, n, ChunkSize) = Filled(i - 1, n, ChunkSize) + c[i]
    BY <1>7 DEF k
  <2>6. /\ DOMAIN acc2 = 0 .. m + k
        /\ \A i \in 0 .. m : acc2[i] = acc[i]
        /\ \A i \in m .. m + k : acc2[i] = p.loaded + Filled(i - m, n, ChunkSize)
    <3>1. \A i \in 0 .. m : acc2[i] = acc[i]
      BY <2>3
    <3>2. ASSUME NEW i \in m .. m + k PROVE acc2[i] = p.loaded + Filled(i - m, n, ChunkSize)
      <4>1. CASE i = m
        <5>1. i - m = 0 /\ acc2[i] = p.loaded
          BY <2>2, <2>3, <3>1, <4>1
        <5>2. QED
          BY <1>5, <2>5, <5>1
      <4>2. CASE i # m
        BY <2>3, <4>2
      <4>3. QED
        BY <4>1, <4>2
    <3>3. QED
      BY <3>1, <3>2
  <2>7. acc2 = [i \in 0 .. m + k |-> acc2[i]]
    OBVIOUS
  <2> HIDE DEF acc2
  <2>8. \A i \in 0 .. m + k : acc2[i] \in 0 .. v.loaded
    <3> TAKE i \in 0 .. m + k
    <3>1. CASE i <= m
      BY <1>5, <1>6, <1>8, <2>2, <2>3, <2>6, <3>1
    <3>2. CASE i > m
      <4>1. i \in m .. m + k /\ i - m \in 0 .. k
        BY <2>3, <3>2
      <4>2. QED
        BY <1>5, <1>6, <1>8, <2>5, <2>6, <4>1
    <3>3. QED
      BY <2>3, <3>1, <3>2
  <2>9. acc2 \in [0 .. m + k -> 0 .. v.loaded]
    BY <2>7, <2>8
  <2>10. acc2[0] = v.bytes /\ acc2[m + k] = v.loaded
    <3>1. 0 \in 0 .. m /\ m + k \in m .. m + k /\ (m + k) - m = k
      BY <2>3
    <3>2. QED
      BY <1>8, <1>9, <2>2, <2>5, <2>6, <3>1
  <2>11. ASSUME NEW i \in 1 .. m + k PROVE v.stream[i] > 0 /\ acc2[i] = acc2[i - 1] + v.stream[i]
    <3>1. CASE i <= m
      <4>1. i \in 1 .. m /\ i \in 0 .. m /\ i - 1 \in 0 .. m
        BY <2>3, <3>1
      <4>2. QED
        BY <2>2, <2>4, <2>6, <3>1, <4>1
    <3>2. CASE i > m
      <4> DEFINE j == i - m
      <4>1. j \in 1 .. k /\ j - 1 \in 0 .. k /\ i \in m .. m + k /\ i - 1 \in m .. m + k /\ (i - 1) - m = j - 1
        BY <2>3, <3>2
      <4>2. /\ acc2[i] = p.loaded + Filled(j, n, ChunkSize)
            /\ acc2[i - 1] = p.loaded + Filled(j - 1, n, ChunkSize)
        BY <2>6, <4>1
      <4>3. v.stream[i] = c[j]
        BY <2>3, <2>4, <3>2
      <4> HIDE DEF j
      <4> DEFINE x == Filled(j, n, ChunkSize)
                 y == Filled(j - 1, n, ChunkSize)
      <4>4. c[j] > 0 /\ x = y + c[j]
        BY <2>5, <4>1
      <4>5. c[j] \in Nat
        <5>1. c \in Seq(Nat)
          BY <1>7
        <5>2. j \in 1 .. Len(c)
          BY <4>1 DEF k
        <5>3. QED
          BY <5>1, <5>2
      <4>6. y \in Nat
        BY <1>6, <2>5, <4>1
      <4>7. acc2[i] = p.loaded + x /\ acc2[i - 1] = p.loaded + y
        BY <4>2
      <4> HIDE DEF x, y
      <4>8. acc2[i] = acc2[i - 1] + c[j]
        BY <1>5, <4>4, <4>5, <4>6, <4>7
      <4>9. QED
        BY <4>3, <4>4, <4>8
    <3>3. QED
      BY <2>3, <3>1, <3>2
  <2>12. Sums(acc2, v)
    BY <2>4, <2>9, <2>10, <2>11 DEF Sums
  <2>13. QED
    BY <2>12
<1>14. Streamed(v)
  BY <1>3, <1>9, <1>10, <1>13 DEF Streamed
<1>15. Counted(reqs[r], v)
  BY <1>2, <1>12, <1>14 DEF Counted
<1>16. QED
  BY <1>4, <1>15, OneCounted

\* So does a pull: a piece goes from the stream to the posted events.
LEMMA PullCounted == ASSUME ProgInv, NEW r \in Requests, Pull(r) PROVE ProgInv'
<1> DEFINE p == progress[r]
           b == p.bytes + Head(p.stream)
           v == [p EXCEPT !.bytes = b, !.stream = Tail(@), !.posted = Append(@, b)]
<1>1. p.stream # <<>> /\ Progresses(r, v)
  BY Zenon DEF Pull
<1>2. Counted(reqs[r], p)
  BY DEF ProgInv
<1>3. Reported(p) /\ reqs[r].adapter = "fetch" /\ Streamed(p)
  BY <1>1, <1>2 DEF Counted
<1> HIDE DEF p
<1>4. /\ DOMAIN v = ProgressParts /\ v.bytes = b /\ v.stream = Tail(p.stream)
      /\ v.posted = Append(p.posted, b)
      /\ \A f \in ProgressParts \ {"bytes", "stream", "posted"} : v[f] = p[f]
  BY <1>3 DEF Reported, ProgressParts
<1> HIDE DEF v
<1>5. v.loaded = p.loaded /\ v.late = p.late /\ v.told = p.told
  BY <1>4 DEF ProgressParts
<1>6. Latest(v) = Latest(p) /\ Latest(p) \in Nat
  BY <1>3, <1>5, LatestNat DEF Latest
<1>7. /\ p.loaded \in Nat /\ p.bytes \in Nat /\ p.late \in Nat /\ p.stream \in Seq(Nat)
      /\ p.posted \in Seq(Nat)
  BY <1>3 DEF Reported
<1> DEFINE m == Len(p.stream)
           s == Tail(p.stream)
<1>8. /\ m \in Nat \ {0} /\ Head(p.stream) = p.stream[1] /\ p.stream[1] \in Nat
      /\ s \in Seq(Nat) /\ Len(s) = m - 1 /\ \A i \in 1 .. Len(s) : s[i] = p.stream[i + 1]
  <2> DEFINE z == p.stream
  <2>1. z \in Seq(Nat) /\ z # <<>>
    BY <1>1, <1>7 DEF p
  <2>2. s = Tail(z) /\ m = Len(z)
    OBVIOUS
  <2> HIDE DEF z, s, m
  <2>3. m \in Nat \ {0} /\ Head(z) = z[1] /\ z[1] \in Nat
    BY <2>1, <2>2
  <2>4. s \in Seq(Nat) /\ Len(s) = m - 1 /\ \A i \in 1 .. Len(s) : s[i] = z[i + 1]
    BY <2>1, <2>2
  <2>5. QED
    BY <2>3, <2>4 DEF z
<1>9. PICK acc : /\ acc \in [0 .. m -> 0 .. p.loaded] /\ acc[0] = p.bytes /\ acc[m] = p.loaded
                 /\ \A i \in 1 .. m : p.stream[i] > 0 /\ acc[i] = acc[i - 1] + p.stream[i]
  BY <1>3 DEF Streamed, Sums
<1>10. b \in Nat /\ b > p.bytes /\ b <= p.loaded /\ acc[1] = b
  <2>1. 1 \in 1 .. m /\ 1 \in 0 .. m /\ 1 - 1 = 0
    BY <1>8
  <2>2. acc[1] = p.bytes + p.stream[1] /\ p.stream[1] > 0 /\ acc[1] \in 0 .. p.loaded
    BY <1>9, <2>1
  <2>3. QED
    BY <1>7, <1>8, <2>2
<1> HIDE DEF m, s, b
<1>11. /\ v.posted \in Seq(Nat) /\ Len(v.posted) = Len(p.posted) + 1 /\ Len(p.posted) \in Nat
       /\ v.posted[Len(p.posted) + 1] = b
       /\ \A i \in 1 .. Len(p.posted) : v.posted[i] = p.posted[i] /\ p.posted[i] \in Nat
  BY <1>4, <1>7, <1>10
<1>12. v.stream = s /\ v.bytes = b
  BY <1>4 DEF s
<1>13. Reported(v)
  <2>1. v.told \in Seq([loaded : Nat, bytes : Nat]) /\ v.stream \in Seq(Nat)
    BY <1>3, <1>5, <1>8, <1>12 DEF Reported
  <2>2. \A i \in DOMAIN v.told : v.told[i].bytes > 0 /\ v.told[i].loaded <= v.loaded
    BY <1>3, <1>5 DEF Reported
  <2>3. /\ Latest(v) <= v.loaded /\ v.late <= v.loaded /\ (v.late # 0 => Latest(v) < v.late)
    BY <1>3, <1>5, <1>6 DEF Reported
  <2>4. v.loaded \in Nat /\ v.late \in Nat /\ v.bytes \in Nat
    BY <1>5, <1>7, <1>10, <1>12
  <2>5. QED
    BY <1>4, <1>11, <2>1, <2>2, <2>3, <2>4, Zenon DEF Reported
<1>14. Latest(p) <= p.bytes /\ p.late <= p.bytes
  BY <1>3 DEF Streamed
<1>15. \E a : Sums(a, v)
  <2> DEFINE a == [i \in 0 .. m - 1 |-> acc[i + 1]]
  <2>1. a \in [0 .. m - 1 -> 0 .. p.loaded] /\ \A i \in 0 .. m - 1 : a[i] = acc[i + 1]
    BY <1>8, <1>9
  <2> HIDE DEF a
  <2>2. a[0] = b /\ a[m - 1] = p.loaded
    <3>1. 0 \in 0 .. m - 1 /\ m - 1 \in 0 .. m - 1 /\ 0 + 1 = 1 /\ (m - 1) + 1 = m
      BY <1>8
    <3>2. QED
      BY <1>9, <1>10, <2>1, <3>1
  <2>3. ASSUME NEW i \in 1 .. m - 1 PROVE s[i] > 0 /\ a[i] = a[i - 1] + s[i]
    <3>1. i \in 0 .. m - 1 /\ i - 1 \in 0 .. m - 1 /\ (i - 1) + 1 = i /\ i + 1 \in 1 .. m /\ (i + 1) - 1 = i
      BY <1>8
    <3>2. s[i] = p.stream[i + 1]
      BY <1>8
    <3>3. p.stream[i + 1] > 0 /\ acc[i + 1] = acc[i] + p.stream[i + 1]
      BY <1>9, <3>1
    <3>4. a[i] = acc[i + 1] /\ a[i - 1] = acc[i]
      BY <2>1, <3>1
    <3>5. QED
      BY <3>2, <3>3, <3>4
  <2>4. Sums(a, v)
    BY <1>5, <1>8, <1>12, <2>1, <2>2, <2>3 DEF Sums
  <2>5. QED
    BY <2>4
<1>16. ASSUME NEW i \in 1 .. Len(v.posted)
       PROVE  v.posted[i] > Latest(v) /\ v.posted[i] > v.late /\ v.posted[i] <= v.bytes
  <2>1. CASE i = Len(p.posted) + 1
    <3>1. v.posted[i] = b /\ v.bytes = b /\ Latest(v) = Latest(p) /\ v.late = p.late
      BY <1>5, <1>6, <1>11, <1>12, <2>1
    <3>2. Latest(p) < b /\ p.late < b
      BY <1>6, <1>7, <1>10, <1>14
    <3>3. QED
      BY <1>6, <1>7, <1>10, <3>1, <3>2
  <2>2. CASE i # Len(p.posted) + 1
    <3>1. i \in 1 .. Len(p.posted)
      BY <1>11, <2>2
    <3>2. p.posted[i] > Latest(p) /\ p.posted[i] > p.late /\ p.posted[i] <= p.bytes
      BY <1>3, <3>1 DEF Streamed
    <3>3. v.posted[i] = p.posted[i] /\ p.posted[i] \in Nat
      BY <1>11, <3>1
    <3>4. v.bytes = b /\ Latest(v) = Latest(p) /\ v.late = p.late
      BY <1>5, <1>6, <1>12
    <3>5. p.posted[i] <= b
      <4> DEFINE x == p.posted[i]
                 y == p.bytes
      <4>1. x \in Nat /\ y \in Nat /\ x <= y /\ y < b /\ b \in Nat
        BY <1>7, <1>10, <3>2, <3>3
      <4> HIDE DEF x, y
      <4>2. x <= b
        BY <4>1
      <4>3. QED
        BY <4>2 DEF x
    <3>6. QED
      BY <3>2, <3>3, <3>4, <3>5
  <2>3. QED
    BY <2>1, <2>2
<1>17. ASSUME NEW i \in 1 .. Len(v.posted), NEW j \in 1 .. Len(v.posted), i < j
       PROVE  v.posted[i] < v.posted[j]
  <2>1. i \in 1 .. Len(p.posted)
    BY <1>11, <1>17
  <2>2. v.posted[i] = p.posted[i] /\ p.posted[i] \in Nat /\ p.posted[i] <= p.bytes
    BY <1>3, <1>11, <2>1 DEF Streamed
  <2>3. CASE j = Len(p.posted) + 1
    BY <1>7, <1>10, <1>11, <2>2, <2>3
  <2>4. CASE j # Len(p.posted) + 1
    <3>1. j \in 1 .. Len(p.posted)
      BY <1>11, <2>4
    <3>2. QED
      BY <1>3, <1>11, <1>17, <2>1, <2>2, <3>1 DEF Streamed
  <2>5. QED
    BY <2>3, <2>4
<1>18. Streamed(v)
  <2>1. Latest(v) <= v.bytes /\ v.late <= v.bytes
    BY <1>5, <1>6, <1>7, <1>10, <1>12, <1>14
  <2>2. QED
    BY <1>15, <1>16, <1>17, <2>1 DEF Streamed
<1>19. Counted(reqs[r], v)
  BY <1>3, <1>13, <1>18 DEF Counted
<1>20. QED
  BY <1>1, <1>19, OneCounted

\* A request gets an adapter once, when nothing has been loaded yet.
LEMMA SameAdapter ==
  ASSUME WireInv, [Next]_vars, NEW x \in Requests
  PROVE  reqs'[x].adapter = reqs[x].adapter \/ reqs[x].adapter = "none"
<1>1. CASE OutsideAll
  BY <1>1 DEF OutsideAll, Outside
<1>2. ASSUME NEW r \in Requests, Ask(r) PROVE reqs'[x] = reqs[x] \/ reqs[x].adapter = "none"
  <2>1. PICK q : reqs' = [reqs EXCEPT ![r] = q]
    BY <1>2, Zenon DEF Ask
  <2>2. reqs[r].adapter = "none" /\ DOMAIN reqs = Requests
    BY <1>2 DEF Ask, WireInv, Alive
  <2>3. QED
    BY <2>1, <2>2
<1>3. ASSUME NEW r \in Requests, CallNow(r) PROVE reqs'[x] = reqs[x] \/ reqs[x].adapter = "none"
  <2>1. PICK w : Becomes(r, w)
    BY <1>3, CallNowTurn
  <2>2. reqs[r].adapter = "none"
    BY <1>3 DEF CallNow, WireInv, Alive
  <2>3. QED
    BY <2>1, <2>2, BecomesOne
<1>4. ASSUME NEW r \in Requests, Step(r)
      PROVE  reqs'[x].adapter = reqs[x].adapter \/ reqs[x].adapter = "none"
  <2>1. PICK became : Becomes(r, became)
    BY <1>4 DEF Step
  <2>2. CASE x # r
    BY <2>1, <2>2, BecomesOne
  <2>3. CASE x = r /\ reqs[r].stage = "request"
    BY <2>3 DEF WireInv, Alive
  <2>4. CASE x = r /\ reqs[r].stage # "request"
    <3>1. Legal(r, Turn(r)) /\ Turn(r).q = reqs[r]
      BY TurnLegal DEF Turn
    <3>2. CASE Becomes(r, AdapterReaction(Turn(r), r))
      <4>1. reqs'[r] = AdapterReaction(Turn(r), r).q
        BY <3>2, BecomesOne
      <4>2. QED
        BY <2>4, <3>1, <4>1, AdapterTurn
    <3>3. CASE Becomes(r, ResponseReaction(Turn(r), r))
      <4> DEFINE w == Turn(r)
                 v == ResponseReaction(w, r)
      <4>1. PICK i, fallback : v = Handle(LessAfter(w, i), "response", i, fallback)
        BY Zenon DEF ResponseReaction, LessAfter
      <4>2. reqs'[r] = v.q
        BY <3>3, BecomesOne
      <4>3. Legal(r, w) /\ w.q = reqs[r]
        BY <3>1
      <4> HIDE DEF v, w
      <4>4. AdapterKept(w, v)
        BY <4>1, <4>3, ResponseTurn
      <4>5. QED
        BY <2>4, <4>2, <4>3, <4>4 DEF AdapterKept
    <3>4. QED
      BY <1>4, <2>4, <3>2, <3>3, Zenon DEF Step
  <2>5. QED
    BY <2>2, <2>3, <2>4
<1>5. QED
  BY <1>1, <1>2, <1>3, <1>4, NextOutside

\* Nothing was told, read or posted of what nothing was loaded of.
LEMMA NothingStreamed ==
  ASSUME NEW p, Reported(p), p.loaded = 0, p.posted = <<>>, p.stream = <<>>, p.bytes = 0
  PROVE  Streamed(p)
<1>1. Sums([i \in 0 .. 0 |-> 0], p)
  BY DEF Sums
<1>2. Latest(p) = 0 /\ p.late = 0
  <2>1. Latest(p) \in Nat
    BY LatestNat
  <2>2. Latest(p) <= p.loaded /\ p.late \in Nat /\ p.late <= p.loaded
    BY DEF Reported
  <2>3. QED
    BY <2>1, <2>2
<1>3. QED
  BY <1>1, <1>2 DEF Streamed

\* So does a step that is not one of progress: the adapter stays what it was.
LEMMA UnchangedCounted ==
  ASSUME WireInv, ProgInv, [Next]_vars, UNCHANGED progress
  PROVE  ProgInv'
<1>1. progress' = progress
  OBVIOUS
<1>2. ASSUME NEW x \in Requests PROVE Counted(reqs'[x], progress[x])
  <2>1. Counted(reqs[x], progress[x])
    BY DEF ProgInv
  <2>2. CASE reqs'[x].adapter = reqs[x].adapter
    BY <2>1, <2>2 DEF Counted
  <2>3. CASE reqs[x].adapter = "none"
    <3>1. /\ Reported(progress[x]) /\ progress[x].loaded = 0 /\ progress[x].posted = <<>>
          /\ progress[x].stream = <<>> /\ progress[x].bytes = 0
      BY <2>1, <2>3 DEF Counted
    <3>2. QED
      BY <3>1, NothingStreamed DEF Counted
  <2>4. QED
    BY <2>2, <2>3, SameAdapter
<1>3. QED
  BY <1>1, <1>2 DEF ProgInv

\* Every step keeps the reports in step.
LEMMA NextProg == WireInv /\ ProgInv /\ [Next]_vars => ProgInv'
<1> SUFFICES ASSUME WireInv, ProgInv, [Next]_vars PROVE ProgInv'
  OBVIOUS
<1>1. CASE UNCHANGED progress
  BY <1>1, UnchangedCounted
<1>2. CASE \E r \in Requests : Progress(r) \/ ProgressTimer(r) \/ Chunk(r) \/ Pull(r) \/ ProgressPosted(r)
  BY <1>2, ProgressCounted, TimerCounted, ChunkCounted, PullCounted, PostedCounted
<1>3. ASSUME NEW r \in Requests, Ask(r) \/ CallNow(r) \/ Step(r) \/ FetchTimer(r) \/ Unsubscribe(r)
      PROVE  UNCHANGED progress
  BY <1>3, Zenon DEF Ask, CallNow, Step, FetchTimer, Unsubscribe, After
<1>4. ASSUME NEW r \in Requests, Ends(r) PROVE UNCHANGED progress
  BY <1>4, Zenon DEF Ends, XhrLoad, XhrError, XhrAbort, XhrTimeout, Failed, FetchHead, FetchBody, FetchFail, After
<1>5. ASSUME NEW t \in Tokens, TokenTold(t) \/ Cancel(t) PROVE UNCHANGED progress
  BY <1>5 DEF TokenTold, Cancel
<1>6. ASSUME NEW s \in Signals, Abort(s) PROVE UNCHANGED progress
  BY <1>6, Zenon DEF Abort
<1>7. ASSUME NEW kind \in {"request", "response"}, Use(kind) \/ Clear(kind) \/ \E i \in 1..2 : Eject(kind, i)
      PROVE  UNCHANGED progress
  BY <1>7, Zenon DEF Use, Clear, Eject, Changed
<1>8. CASE Tick \/ UNCHANGED vars
  BY <1>1, <1>8 DEF Tick, vars
<1>9. QED
  BY <1>1, <1>2, <1>3, <1>4, <1>5, <1>6, <1>7, <1>8, Zenon DEF Next

\* At first nothing is reported.
LEMMA InitProg == Init => ProgInv
<1> SUFFICES ASSUME Init PROVE ProgInv
  OBVIOUS
<1>1. DOMAIN progress = Requests /\ \A r \in Requests : progress[r] = NoProgress /\ reqs[r] = NoRequest
  BY DEF Init
<1>2. NoRequest.adapter = "none"
  BY DEF NoRequest
<1>3. /\ DOMAIN NoProgress = ProgressParts /\ NoProgress.loaded = 0 /\ NoProgress.late = 0
      /\ NoProgress.bytes = 0 /\ NoProgress.told = <<>> /\ NoProgress.posted = <<>>
      /\ NoProgress.stream = <<>>
  BY DEF NoProgress, ProgressParts
<1>4. Reported(NoProgress) /\ Latest(NoProgress) = 0
  BY <1>3 DEF Reported, Latest
<1>5. QED
  BY <1>1, <1>2, <1>3, <1>4 DEF ProgInv, Counted

\* ProgressGrows: each report tells of more bytes than the one before, and of no
\* more than were loaded.
THEOREM ProgressTrue == Spec => []ProgressGrows
<1>1. Spec => []ProgInv
  BY InitProg, NextProg, WireHolds, PTL DEF Spec
<1>2. ProgInv => ProgressGrows
  BY DEF ProgInv, Counted, Reported, ProgressGrows
<1>3. QED
  BY <1>1, <1>2, PTL

-----------------------------------------------------------------------------
(* The order of interceptors *)

\* A finite set of numbers from 1.
Bounded(S) == \E n \in Nat : S \subseteq 1 .. n

\* The intervals up to the members of S are finite sets, so one is the smallest.
LEMMA LeastOf == ASSUME NEW S, S \subseteq Nat, S # {} PROVE \E i \in S : \A j \in S : i <= j
<1> DEFINE R == StrictSubsetOrdering(Nat)
           T == {1 .. i : i \in S}
<1>1. IsWellFoundedOn(R, FiniteSubsetsOf(Nat))
  BY FS_StrictSubsetOrderingWellFounded
<1>2. T \subseteq FiniteSubsetsOf(Nat)
  <2>1. ASSUME NEW i \in S PROVE 1 .. i \in FiniteSubsetsOf(Nat)
    <3>1. IsFiniteSet(1 .. i) /\ 1 .. i \in SUBSET Nat
      BY FS_Interval
    <3>2. QED
      BY <3>1 DEF FiniteSubsetsOf
  <2>2. QED
    BY <2>1
<1>3. T # {}
  OBVIOUS
<1>4. ASSUME NEW i \in S, NEW j \in S, j < i PROVE <<1 .. j, 1 .. i>> \in R
  <2>1. i \in Nat /\ j \in Nat /\ i \in 1 .. i /\ i \notin 1 .. j
    BY <1>4
  <2>2. 1 .. j \subseteq 1 .. i /\ 1 .. i \in SUBSET Nat /\ 1 .. j \in SUBSET Nat
    BY <1>4, <2>1
  <2>3. 1 .. j # 1 .. i
    BY <2>1
  <2>4. QED
    BY <2>2, <2>3 DEF StrictSubsetOrdering
<1> HIDE DEF R
<1>5. PICK x \in T : \A y \in T : ~(<<y, x>> \in R)
  BY <1>1, <1>2, <1>3, WFMin
<1>6. PICK i \in S : x = 1 .. i
  BY <1>5
<1>7. ASSUME NEW j \in S PROVE i <= j
  <2>1. ~(j < i)
    BY <1>4, <1>5, <1>6
  <2>2. QED
    BY <2>1
<1>8. QED
  BY <1>7

\* A bounded set of numbers has a greatest member.
LEMMA GreatestOf == ASSUME NEW S, Bounded(S), S # {} PROVE \E i \in S : \A j \in S : j <= i
<1>1. PICK n \in Nat : S \subseteq 1 .. n
  BY DEF Bounded
<1> DEFINE T == {n - i : i \in S}
<1>2. T \subseteq Nat /\ T # {}
  <2>1. \A i \in S : i \in Nat /\ i <= n
    BY <1>1
  <2>2. \A i \in S : n - i \in Nat
    BY <2>1
  <2>3. QED
    BY <2>2
<1>3. PICK x \in T : \A y \in T : x <= y
  BY <1>2, LeastOf
<1>4. PICK i \in S : x = n - i
  BY <1>3
<1>5. \A j \in S : n - j \in T /\ j \in Nat /\ i \in Nat
  BY <1>1
<1> HIDE DEF T
<1>6. ASSUME NEW j \in S PROVE j <= i
  <2>1. n - i <= n - j
    BY <1>3, <1>4, <1>5
  <2>2. QED
    BY <1>1, <1>5, <2>1
<1>7. QED
  BY <1>6

\* The last request interceptor, and the first response interceptor.
LEMMA FollowingRequest ==
  ASSUME NEW S, Bounded(S), S # {}, NEW i, i = Following("request", S)
  PROVE  i \in S /\ i \in Nat \ {0} /\ \A j \in S : j <= i
<1>1. PICK k \in S : \A j \in S : j <= k
  BY GreatestOf
<1>2. i = CHOOSE x \in S : \A j \in S : j <= x
  BY DEF Following
<1>3. i \in S /\ \A j \in S : j <= i
  BY <1>1, <1>2
<1>4. QED
  BY <1>3 DEF Bounded

\* Pushing keeps the order: the first response interceptor runs first.
LEMMA FollowingResponse ==
  ASSUME NEW S, Bounded(S), S # {}, NEW i, i = Following("response", S)
  PROVE  i \in S /\ i \in Nat \ {0} /\ \A j \in S : i <= j
<1>1. S \subseteq Nat
  BY DEF Bounded
<1>2. PICK k \in S : \A j \in S : k <= j
  BY <1>1, LeastOf
<1>3. i = CHOOSE x \in S : \A j \in S : x <= j
  BY DEF Following
<1>4. i \in S /\ \A j \in S : i <= j
  BY <1>2, <1>3
<1>5. QED
  BY <1>4 DEF Bounded

\* A part of a bounded set is bounded.
LEMMA BoundedLess == ASSUME NEW S, Bounded(S), NEW T, T \subseteq S PROVE Bounded(T)
  BY DEF Bounded

\* What is logged.
Logs == {"request", "response"} \X Nat \X {"ok", "err"}
Entry == Logs \cup {<<"dispatch">>, <<"adapter">>}

\* What an entry of the log is about.
LEMMA EntryKinds ==
  ASSUME NEW e \in Entry
  PROVE  /\ e[1] \in {"request", "dispatch", "adapter", "response"}
         /\ e[1] \in {"request", "response"} => e[2] \in Nat
  BY DEF Entry, Logs

\* An interceptor's entry is one.
LEMMA NewEntry ==
  ASSUME NEW kind \in {"request", "response"}, NEW i \in Nat, NEW out \in {"ok", "err"}
  PROVE  <<kind, i, out>> \in Entry
  BY DEF Entry, Logs

\* So are those of the dispatch and the adapter.
LEMMA OtherEntries == <<"dispatch">> \in Entry /\ <<"adapter">> \in Entry
  BY DEF Entry

\* Every entry of the log may follow those before it.
Ordered(log) == \A i, j \in DOMAIN log : i < j => Follows(log[i], log[j])

\* p's log is q's and one more.
Gained(q, p, e) == p.log \in Seq(Entry) /\ ToSet(p.log) = ToSet(q.log) \cup {e}

\* Appending an entry that may follow all others keeps the log ordered.
LEMMA LogGained ==
  ASSUME NEW q, NEW p, NEW e \in Entry, q.log \in Seq(Entry), p.log = Append(q.log, e)
  PROVE  /\ Gained(q, p, e)
         /\ Ordered(q.log) /\ (\A a \in ToSet(q.log) : Follows(a, e)) => Ordered(p.log)
<1> DEFINE l == q.log
           m == p.log
<1>1. l \in Seq(Entry) /\ m = Append(l, e)
  OBVIOUS
<1> HIDE DEF l, m
<1>2. /\ m \in Seq(Entry) /\ DOMAIN m = 1 .. Len(l) + 1 /\ DOMAIN l = 1 .. Len(l) /\ Len(l) \in Nat
      /\ m[Len(l) + 1] = e /\ \A i \in 1 .. Len(l) : m[i] = l[i]
  BY <1>1
<1>3. \A x : x \in ToSet(m) <=> x \in ToSet(l) \/ x = e
  <2>1. ASSUME NEW x \in ToSet(m) PROVE x \in ToSet(l) \/ x = e
    <3>1. PICK i \in 1 .. Len(l) + 1 : x = m[i]
      BY <1>2 DEF ToSet
    <3>2. CASE i = Len(l) + 1
      BY <1>2, <3>1, <3>2
    <3>3. CASE i # Len(l) + 1
      <4>1. i \in 1 .. Len(l)
        BY <1>2, <3>3
      <4>2. QED
        BY <1>2, <3>1, <4>1 DEF ToSet
    <3>4. QED
      BY <3>2, <3>3
  <2>2. ASSUME NEW x \in ToSet(l) PROVE x \in ToSet(m)
    <3>1. PICK i \in 1 .. Len(l) : x = l[i]
      BY <1>2 DEF ToSet
    <3>2. i \in DOMAIN m /\ m[i] = x
      BY <1>2, <3>1
    <3>3. QED
      BY <3>2 DEF ToSet
  <2>3. e \in ToSet(m)
    <3>1. Len(l) + 1 \in DOMAIN m
      BY <1>2
    <3>2. QED
      BY <1>2, <3>1 DEF ToSet
  <2>4. QED
    BY <2>1, <2>2, <2>3
<1>4. ASSUME Ordered(l), \A a \in ToSet(l) : Follows(a, e) PROVE Ordered(m)
  <2>1. SUFFICES ASSUME NEW i \in DOMAIN m, NEW j \in DOMAIN m, i < j PROVE Follows(m[i], m[j])
    BY DEF Ordered
  <2>2. i \in 1 .. Len(l) /\ i \in DOMAIN l /\ m[i] = l[i] /\ l[i] \in ToSet(l)
    BY <1>2, <2>1 DEF ToSet
  <2>3. CASE j = Len(l) + 1
    BY <1>2, <1>4, <2>2, <2>3
  <2>4. CASE j # Len(l) + 1
    <3>1. j \in DOMAIN l /\ m[j] = l[j]
      BY <1>2, <2>4
    <3>2. QED
      BY <1>4, <2>1, <2>2, <3>1 DEF Ordered
  <2>5. QED
    BY <2>3, <2>4
<1>5. ToSet(m) = ToSet(l) \cup {e}
  BY <1>3
<1>6. QED
  BY <1>2, <1>4, <1>5 DEF Gained, l, m

\* What a gained entry adds to those of a kind.
LEMMA GainedEntries ==
  ASSUME NEW q, NEW p, NEW e, Gained(q, p, e), NEW kind
  PROVE  /\ \A x : x \in Entries(p, kind) <=> x \in Entries(q, kind) \/ (x = e /\ e[1] = kind)
         /\ \A i : i \in Ran(p, kind) <=> i \in Ran(q, kind) \/ (i = e[2] /\ e[1] = kind)
         /\ Fine(p, kind) => Fine(q, kind) /\ (e[1] = kind => e[3] = "ok")
<1>1. ToSet(p.log) = ToSet(q.log) \cup {e}
  BY DEF Gained
<1>2. \A x : x \in Entries(p, kind) <=> x \in Entries(q, kind) \/ (x = e /\ e[1] = kind)
  BY <1>1 DEF Entries
<1>3. \A i : i \in Ran(p, kind) <=> i \in Ran(q, kind) \/ (i = e[2] /\ e[1] = kind)
  BY <1>2 DEF Ran
<1>4. Fine(p, kind) => Fine(q, kind) /\ (e[1] = kind => e[3] = "ok")
  BY <1>2 DEF Fine
<1>5. QED
  BY <1>2, <1>3, <1>4

\* Entries of kinds in their order may follow each other.
LEMMA FollowsKind ==
  ASSUME NEW a, NEW b, NEW m \in 1..4, NEW n \in 1..4, m < n, a[1] = Kinds[m], b[1] = Kinds[n]
  PROVE  Follows(a, b)
  BY DEF Follows

\* Which these are.
LEMMA FollowsEarlier ==
  ASSUME NEW a, NEW b
  PROVE  /\ a[1] = "request" /\ b[1] \in {"dispatch", "adapter", "response"} => Follows(a, b)
         /\ a[1] = "dispatch" /\ b[1] \in {"adapter", "response"} => Follows(a, b)
         /\ a[1] = "adapter" /\ b[1] = "response" => Follows(a, b)
<1>1. /\ Kinds[1] = "request" /\ Kinds[2] = "dispatch" /\ Kinds[3] = "adapter" /\ Kinds[4] = "response"
  BY DEF Kinds
<1>2. a[1] = "request" /\ b[1] \in {"dispatch", "adapter", "response"} => Follows(a, b)
  BY <1>1, FollowsKind
<1>3. a[1] = "dispatch" /\ b[1] \in {"adapter", "response"} => Follows(a, b)
  BY <1>1, FollowsKind
<1>4. a[1] = "adapter" /\ b[1] = "response" => Follows(a, b)
  BY <1>1, FollowsKind
<1>5. QED
  BY <1>2, <1>3, <1>4

\* While request interceptors run.
Asking(q) ==
  /\ q.due # <<>> /\ q.before \subseteq q.due[1] /\ q.after = q.due[2]
  /\ \A e \in ToSet(q.log) : e[1] = "request" /\ \A i \in q.before : i < e[2]
  /\ (q.val[1] = "ok" /\ Fine(q, "request")) => q.due[1] \subseteq q.before \cup Ran(q, "request")

\* While the adapter is waited for.
Sent(q) ==
  /\ q.due # <<>> /\ q.after = q.due[2] /\ Entries(q, "dispatch") # {}
  /\ \A e \in ToSet(q.log) : e[1] \in {"request", "dispatch"}

\* While response interceptors run, and when they have.
Answered(q) ==
  /\ \A e \in Entries(q, "response") : \A i \in q.after : e[2] < i
  /\ q.due = <<>> => q.after = {}
  /\ q.due # <<>> => q.after \subseteq q.due[2]
  /\ (q.due # <<>> /\ q.val[1] = "ok" /\ Fine(q, "response"))
       => q.due[2] \subseteq q.after \cup Ran(q, "response")

\* What was registered and what ran.
Recorded(q) ==
  /\ q.log \in Seq(Entry) /\ Ordered(q.log)
  /\ Entries(q, "adapter") # {} => Entries(q, "dispatch") # {}
  /\ q.due # <<>> => Ran(q, "request") \subseteq q.due[1] /\ Ran(q, "response") \subseteq q.due[2]
  /\ (q.due # <<>> /\ Entries(q, "dispatch") # {} /\ Fine(q, "request")) => q.due[1] \subseteq Ran(q, "request")

\* What holds of a request's chain wherever it is.
Chained(q) ==
  /\ Recorded(q) /\ Bounded(q.before) /\ Bounded(q.after)
  /\ q.stage \in {"unasked", "now", "request", "adapter", "response"}
  /\ q.stage = "unasked" => q.log = <<>> /\ q.before = {} /\ q.after = {} /\ q.due = <<>>
  /\ q.stage \notin {"unasked", "adapter"} => Answer(q.val)
  /\ q.val = Waiting \/ Answer(q.val)
  /\ q.stage = "now" => q.val[1] = "ok"
  /\ q.stage \in {"now", "request"} => Asking(q)
  /\ q.stage = "adapter" => Sent(q)
  /\ q.stage = "response" => Answered(q)

\* What is read off the log depends on nothing else.
LEMMA SameEntries ==
  ASSUME NEW q, NEW p, p.log = q.log, NEW kind
  PROVE  /\ Entries(p, kind) = Entries(q, kind) /\ Ran(p, kind) = Ran(q, kind)
         /\ Fine(p, kind) <=> Fine(q, kind)
  BY DEF Entries, Ran, Fine

\* Nor does what is recorded, but on what was registered.
LEMMA SameRecorded ==
  ASSUME NEW q, NEW p, Recorded(q), p.log = q.log, p.due = q.due
  PROVE  Recorded(p)
  BY SameEntries DEF Recorded

\* A request interceptor is logged: those logged before come behind it in the list.
LEMMA RequestLogged ==
  ASSUME NEW q, NEW p, Recorded(q), NEW i \in Nat, NEW out \in {"ok", "err"},
         \A e \in ToSet(q.log) : e[1] = "request" /\ (i < e[2] \/ (e[2] = i /\ out = "err")),
         q.due # <<>>, i \in q.due[1], p.due = q.due, p.log = Append(q.log, <<"request", i, out>>)
  PROVE  Recorded(p) /\ Gained(q, p, <<"request", i, out>>)
<1> DEFINE e == <<"request", i, out>>
<1>1. e \in Entry /\ e[1] = "request" /\ e[2] = i /\ e[3] = out
  BY NewEntry
<1>2. p.log = Append(q.log, e)
  OBVIOUS
<1> HIDE DEF e
<1>3. \A a \in ToSet(q.log) : Follows(a, e)
  BY <1>1 DEF Follows
<1>4. Gained(q, p, e) /\ Ordered(p.log)
  BY <1>1, <1>2, <1>3, LogGained DEF Recorded
<1>5. Entries(q, "dispatch") = {} /\ Entries(q, "adapter") = {}
  BY DEF Entries
<1>6. Entries(p, "dispatch") = {} /\ Entries(p, "adapter") = {}
  BY <1>1, <1>4, <1>5, GainedEntries
<1>7. Ran(p, "request") \subseteq p.due[1] /\ Ran(p, "response") \subseteq p.due[2]
  BY <1>1, <1>4, GainedEntries DEF Recorded
<1>8. Recorded(p)
  BY <1>4, <1>6, <1>7 DEF Recorded, Gained
<1>9. QED
  BY <1>4, <1>8 DEF e

\* The dispatch is logged: behind all request interceptors.
LEMMA DispatchLogged ==
  ASSUME NEW q, NEW p, Recorded(q), \A e \in ToSet(q.log) : e[1] = "request",
         q.due # <<>>, Fine(q, "request") => q.due[1] \subseteq Ran(q, "request"),
         p.due = q.due, p.log = Append(q.log, <<"dispatch">>)
  PROVE  /\ Recorded(p) /\ Entries(p, "dispatch") # {}
         /\ \A e \in ToSet(p.log) : e[1] \in {"request", "dispatch"}
<1> DEFINE e == <<"dispatch">>
<1>1. e \in Entry /\ e[1] = "dispatch"
  BY OtherEntries
<1>2. p.log = Append(q.log, e)
  OBVIOUS
<1> HIDE DEF e
<1>3. \A a \in ToSet(q.log) : Follows(a, e)
  BY <1>1, FollowsEarlier
<1>4. Gained(q, p, e) /\ Ordered(p.log)
  BY <1>1, <1>2, <1>3, LogGained DEF Recorded
<1>5. e \in Entries(p, "dispatch")
  BY <1>1, <1>4, GainedEntries
<1>6. Ran(p, "request") \subseteq p.due[1] /\ Ran(p, "response") \subseteq p.due[2]
  BY <1>1, <1>4, GainedEntries DEF Recorded
<1>7. Fine(p, "request") => p.due[1] \subseteq Ran(p, "request")
  BY <1>1, <1>4, GainedEntries
<1>8. \A a \in ToSet(p.log) : a[1] \in {"request", "dispatch"}
  BY <1>1, <1>4 DEF Gained
<1>9. QED
  BY <1>4, <1>5, <1>6, <1>7, <1>8 DEF Recorded, Gained

\* The adapter's reaction is logged: behind the dispatch.
LEMMA AdapterLogged ==
  ASSUME NEW q, NEW p, Recorded(q), Sent(q), p.due = q.due, p.log = Append(q.log, <<"adapter">>)
  PROVE  Recorded(p) /\ Entries(p, "response") = {}
<1> DEFINE e == <<"adapter">>
<1>1. e \in Entry /\ e[1] = "adapter"
  BY OtherEntries
<1>2. p.log = Append(q.log, e)
  OBVIOUS
<1> HIDE DEF e
<1>3. \A a \in ToSet(q.log) : Follows(a, e)
  BY <1>1, FollowsEarlier DEF Sent
<1>4. Gained(q, p, e) /\ Ordered(p.log)
  BY <1>1, <1>2, <1>3, LogGained DEF Recorded
<1>5. Entries(p, "dispatch") # {}
  BY <1>4, GainedEntries DEF Sent
<1>6. Ran(p, "request") \subseteq p.due[1] /\ Ran(p, "response") \subseteq p.due[2]
  BY <1>1, <1>4, GainedEntries DEF Recorded, Sent
<1>7. Fine(p, "request") => p.due[1] \subseteq Ran(p, "request")
  BY <1>1, <1>4, GainedEntries DEF Recorded, Sent
<1>8. Entries(q, "response") = {}
  BY DEF Sent, Entries
<1>9. Entries(p, "response") = {}
  BY <1>1, <1>4, <1>8, GainedEntries
<1>10. QED
  BY <1>4, <1>5, <1>6, <1>7, <1>9 DEF Recorded, Gained

\* A response interceptor is logged: behind those before it in the list.
LEMMA ResponseLogged ==
  ASSUME NEW q, NEW p, Recorded(q), NEW i \in Nat, NEW out \in {"ok", "err"},
         \A e \in Entries(q, "response") : e[2] < i,
         q.due # <<>>, i \in q.due[2], p.due = q.due, p.log = Append(q.log, <<"response", i, out>>)
  PROVE  Recorded(p) /\ Gained(q, p, <<"response", i, out>>)
<1> DEFINE e == <<"response", i, out>>
<1>1. e \in Entry /\ e[1] = "response" /\ e[2] = i /\ e[3] = out
  BY NewEntry
<1>2. p.log = Append(q.log, e)
  OBVIOUS
<1> HIDE DEF e
<1>3. ASSUME NEW a \in ToSet(q.log) PROVE Follows(a, e)
  <2>1. a \in Entry
    BY DEF Recorded, ToSet
  <2>2. CASE a[1] = "response"
    <3>1. a[2] < i
      BY <2>2 DEF Entries
    <3>2. QED
      BY <1>1, <2>2, <3>1 DEF Follows
  <2>3. CASE a[1] # "response"
    BY <1>1, <2>1, <2>3, EntryKinds, FollowsEarlier
  <2>4. QED
    BY <2>2, <2>3
<1>4. Gained(q, p, e) /\ Ordered(p.log)
  BY <1>1, <1>2, <1>3, LogGained DEF Recorded
<1>5. Ran(p, "request") \subseteq p.due[1] /\ Ran(p, "response") \subseteq p.due[2]
  BY <1>1, <1>4, GainedEntries DEF Recorded
<1>6. /\ \A x : x \in Entries(p, "adapter") <=> x \in Entries(q, "adapter")
      /\ \A x : x \in Entries(p, "dispatch") <=> x \in Entries(q, "dispatch")
      /\ \A x : x \in Ran(p, "request") <=> x \in Ran(q, "request")
      /\ Fine(p, "request") => Fine(q, "request")
  BY <1>1, <1>4, GainedEntries
<1>7. Recorded(p)
  BY <1>4, <1>5, <1>6 DEF Recorded, Gained
<1>8. QED
  BY <1>4, <1>7 DEF e

\* After request interceptor i: those still to run are before it in the list.
Requested(q, i) ==
  /\ Recorded(q) /\ Asking(q) /\ Answer(q.val) /\ Bounded(q.before)
  /\ i \in Nat /\ i \in q.due[1] /\ \A j \in q.before : j < i
  /\ \A e \in ToSet(q.log) : e[1] = "request" /\ (i < e[2] \/ e[2] = i)

\* A request interceptor ran, or was passed over.
LEMMA RequestChained ==
  ASSUME NEW w, NEW v, NEW stage, NEW i, Recorded(w.q), Asking(w.q), Answer(w.q.val),
         Bounded(w.q.before), w.q.before # {}, i = Following("request", w.q.before),
         Moved(w, v, "request", i), Chain(v, stage, w.q.before \ {i}, w.q.after, w.q.due)
  PROVE  Requested(v.q, i)
<1> DEFINE q == w.q
           p == v.q
<1>1. i \in q.before /\ i \in Nat \ {0} /\ \A j \in q.before : j <= i
  BY FollowingRequest
<1>2. p.before = q.before \ {i} /\ p.after = q.after /\ p.due = q.due
  BY DEF Chain
<1>3. \A j \in p.before : j < i /\ j \in Nat
  <2>1. \A j \in q.before : j \in Nat
    BY DEF Bounded
  <2>2. QED
    BY <1>1, <1>2, <2>1
<1>4. Bounded(p.before)
  BY <1>2, BoundedLess
<1>5. /\ q.due # <<>> /\ q.before \subseteq q.due[1] /\ q.after = q.due[2] /\ i \in q.due[1]
      /\ \A e \in ToSet(q.log) : e[1] = "request" /\ i < e[2]
      /\ \A e \in ToSet(q.log) : e \in Entry /\ e[2] \in Nat
  <2>1. \A e \in ToSet(q.log) : e \in Entry
    BY DEF Recorded, ToSet
  <2>2. QED
    BY <1>1, <2>1, EntryKinds DEF Asking
<1>6. CASE q.val[1] # "ok" /\ p.val = q.val /\ p.log = q.log
  <2>1. Recorded(p)
    BY <1>2, <1>6, SameRecorded
  <2>2. \A e \in ToSet(p.log) : \A j \in p.before : j < e[2]
    BY <1>2, <1>6 DEF Asking
  <2>3. Asking(p)
    BY <1>2, <1>5, <1>6, <2>2 DEF Asking
  <2>4. QED
    BY <1>1, <1>2, <1>3, <1>4, <1>5, <1>6, <2>1, <2>3 DEF Requested
<1>7. ASSUME NEW out \in {"ok", "err"}, p.log = Append(q.log, <<"request", i, out>>), Answer(p.val),
             out = "ok" => q.val[1] = "ok"
      PROVE  /\ Recorded(p) /\ Asking(p)
             /\ \A e \in ToSet(p.log) : e[1] = "request" /\ (i < e[2] \/ e[2] = i)
  <2> DEFINE new == <<"request", i, out>>
  <2>1. new[1] = "request" /\ new[2] = i /\ new[3] = out
    OBVIOUS
  <2>2. Recorded(p) /\ Gained(q, p, new)
    BY <1>1, <1>2, <1>5, <1>7, RequestLogged
  <2> HIDE DEF new
  <2>3. \A e \in ToSet(p.log) : e[1] = "request" /\ (i < e[2] \/ e[2] = i)
    BY <1>5, <2>1, <2>2 DEF Gained
  <2>4. \A e \in ToSet(p.log) : \A j \in p.before : j < e[2]
    BY <1>1, <1>2, <1>3, <2>1, <2>2 DEF Gained, Asking
  <2>5. ASSUME Fine(p, "request") PROVE p.due[1] \subseteq p.before \cup Ran(p, "request")
    <3>1. Fine(q, "request") /\ out = "ok"
      BY <2>1, <2>2, <2>5, GainedEntries
    <3>2. q.due[1] \subseteq q.before \cup Ran(q, "request")
      BY <1>7, <3>1 DEF Asking
    <3>3. \A x : x \in Ran(p, "request") <=> x \in Ran(q, "request") \/ x = i
      BY <2>1, <2>2, GainedEntries
    <3>4. QED
      BY <1>2, <3>2, <3>3
  <2>6. Asking(p)
    BY <1>2, <1>5, <2>3, <2>4, <2>5 DEF Asking
  <2>7. QED
    BY <2>2, <2>3, <2>6
<1>8. CASE q.val[1] = "ok" /\ Answer(p.val) /\ p.log = Append(q.log, <<"request", i, "ok">>)
  BY <1>1, <1>2, <1>3, <1>4, <1>5, <1>7, <1>8 DEF Requested
<1>9. CASE /\ q.val[1] # "ok" /\ (p.val = q.val \/ Answer(p.val))
           /\ p.log = Append(q.log, <<"request", i, "err">>)
  <2>1. Answer(p.val)
    BY <1>9
  <2>2. QED
    BY <1>1, <1>2, <1>3, <1>4, <1>5, <1>7, <1>9, <2>1 DEF Requested
<1>10. QED
  BY <1>6, <1>8, <1>9, Zenon DEF Moved

\* A response interceptor ran, or was passed over.
LEMMA ResponseChained ==
  ASSUME NEW w, NEW v, NEW i, Chained(w.q), w.q.stage = "response", w.q.after # {},
         i = Following("response", w.q.after),
         Moved(w, v, "response", i), Chain(v, "response", w.q.before, w.q.after \ {i}, w.q.due)
  PROVE  Chained(v.q)
<1> DEFINE q == w.q
           p == v.q
<1>1. i \in q.after /\ i \in Nat \ {0} /\ \A j \in q.after : i <= j
  BY FollowingResponse DEF Chained
<1>2. p.stage = "response" /\ p.before = q.before /\ p.after = q.after \ {i} /\ p.due = q.due
  BY DEF Chain
<1>3. \A j \in p.after : i < j /\ j \in Nat
  <2>1. \A j \in q.after : j \in Nat
    BY DEF Chained, Bounded
  <2>2. QED
    BY <1>1, <1>2, <2>1
<1>4. Bounded(p.before) /\ Bounded(p.after)
  BY <1>2, BoundedLess DEF Chained
<1>5. Recorded(q) /\ Answered(q) /\ Answer(q.val)
  BY DEF Chained
<1>6. /\ q.due # <<>> /\ q.after \subseteq q.due[2] /\ i \in q.due[2]
      /\ \A e \in Entries(q, "response") : e[2] < i
  BY <1>1, <1>5 DEF Answered
<1>7. CASE q.val[1] # "ok" /\ p.val = q.val /\ p.log = q.log
  <2>1. Recorded(p)
    BY <1>2, <1>5, <1>7, SameRecorded
  <2>2. Entries(p, "response") = Entries(q, "response")
    BY <1>7, SameEntries
  <2>3. Answered(p)
    BY <1>2, <1>5, <1>6, <1>7, <2>2 DEF Answered
  <2>4. QED
    BY <1>2, <1>4, <1>5, <1>7, <2>1, <2>3 DEF Chained
<1>8. ASSUME NEW out \in {"ok", "err"}, p.log = Append(q.log, <<"response", i, out>>), Answer(p.val),
             out = "ok" => q.val[1] = "ok"
      PROVE  Chained(p)
  <2> DEFINE new == <<"response", i, out>>
  <2>1. new[1] = "response" /\ new[2] = i /\ new[3] = out
    OBVIOUS
  <2>2. Recorded(p) /\ Gained(q, p, new)
    BY <1>1, <1>2, <1>5, <1>6, <1>8, ResponseLogged
  <2> HIDE DEF new
  <2>3. \A e \in Entries(p, "response") : \A j \in p.after : e[2] < j
    <3>1. \A e : e \in Entries(p, "response") <=> e \in Entries(q, "response") \/ e = new
      BY <2>1, <2>2, GainedEntries
    <3>2. \A e \in Entries(q, "response") : \A j \in p.after : e[2] < j
      BY <1>2, <1>5 DEF Answered
    <3>3. QED
      BY <1>3, <2>1, <3>1, <3>2
  <2>4. ASSUME Fine(p, "response") PROVE p.due[2] \subseteq p.after \cup Ran(p, "response")
    <3>1. Fine(q, "response") /\ out = "ok"
      BY <2>1, <2>2, <2>4, GainedEntries
    <3>2. q.due[2] \subseteq q.after \cup Ran(q, "response")
      BY <1>5, <1>6, <1>8, <3>1 DEF Answered
    <3>3. \A x : x \in Ran(p, "response") <=> x \in Ran(q, "response") \/ x = i
      BY <2>1, <2>2, GainedEntries
    <3>4. QED
      BY <1>2, <3>2, <3>3
  <2>5. Answered(p)
    BY <1>2, <1>6, <2>3, <2>4 DEF Answered
  <2>6. QED
    BY <1>2, <1>4, <1>8, <2>2, <2>5 DEF Chained
<1>9. CASE q.val[1] = "ok" /\ Answer(p.val) /\ p.log = Append(q.log, <<"response", i, "ok">>)
  BY <1>8, <1>9
<1>10. CASE /\ q.val[1] # "ok" /\ (p.val = q.val \/ Answer(p.val))
            /\ p.log = Append(q.log, <<"response", i, "err">>)
  <2>1. Answer(p.val)
    BY <1>5, <1>10
  <2>2. QED
    BY <1>8, <1>10, <2>1
<1>11. QED
  BY <1>7, <1>9, <1>10, Zenon DEF Moved

\* The dispatch, or what takes its place.
LEMMA DispatchChained ==
  ASSUME NEW w, NEW v, Recorded(w.q), Asking(w.q), w.q.val[1] = "ok", w.q.before = {}, Bounded(w.q.after),
         v.q.val = Waiting \/ Answer(v.q.val), v.q.log = Append(w.q.log, <<"dispatch">>),
         Chain(v, "adapter", w.q.before, w.q.after, w.q.due)
  PROVE  Chained(v.q)
<1>1. v.q.stage = "adapter" /\ v.q.before = {} /\ v.q.after = w.q.after /\ v.q.due = w.q.due
  BY DEF Chain
<1>2. /\ Recorded(v.q) /\ Entries(v.q, "dispatch") # {}
      /\ \A e \in ToSet(v.q.log) : e[1] \in {"request", "dispatch"}
  BY <1>1, DispatchLogged DEF Asking
<1>3. Sent(v.q)
  BY <1>1, <1>2 DEF Sent, Asking
<1>4. Bounded(v.q.before)
  BY <1>1 DEF Bounded
<1>5. QED
  BY <1>1, <1>2, <1>3, <1>4 DEF Chained

\* An error goes on to the response interceptors.
LEMMA PassedChained ==
  ASSUME NEW w, NEW v, Recorded(w.q), Asking(w.q), Bounded(w.q.before), Bounded(w.q.after),
         Answer(v.q.val), v.q.log = w.q.log,
         Chain(v, "response", w.q.before, w.q.after, w.q.due)
  PROVE  Chained(v.q)
<1>1. v.q.stage = "response" /\ v.q.before = w.q.before /\ v.q.after = w.q.after /\ v.q.due = w.q.due
  BY DEF Chain
<1>2. Recorded(v.q)
  BY <1>1, SameRecorded
<1>3. Entries(v.q, "response") = {}
  BY DEF Entries, Asking
<1>4. Answered(v.q)
  BY <1>1, <1>3 DEF Answered, Asking
<1>5. QED
  BY <1>1, <1>2, <1>4 DEF Chained

\* An error ends the request in the call.
LEMMA ThrownChained ==
  ASSUME NEW w, NEW v, Recorded(w.q), Asking(w.q), v.q.val[1] = "err", v.q.log = w.q.log,
         Chain(v, "response", {}, {}, w.q.due)
  PROVE  Chained(v.q)
<1>1. v.q.stage = "response" /\ v.q.before = {} /\ v.q.after = {} /\ v.q.due = w.q.due
  BY DEF Chain
<1>2. Recorded(v.q)
  BY <1>1, SameRecorded
<1>3. Answered(v.q) /\ Answer(v.q.val)
  BY <1>1 DEF Answered, Answer
<1>4. Bounded({})
  BY DEF Bounded
<1>5. QED
  BY <1>1, <1>2, <1>3, <1>4 DEF Chained

\* The adapter's answer or failure is handed on.
LEMMA AdapterChained ==
  ASSUME NEW w, NEW v, Chained(w.q), w.q.stage = "adapter", Answer(v.q.val),
         v.q.log = Append(w.q.log, <<"adapter">>),
         Chain(v, "response", w.q.before, w.q.after, w.q.due)
  PROVE  Chained(v.q)
<1>1. v.q.stage = "response" /\ v.q.before = w.q.before /\ v.q.after = w.q.after /\ v.q.due = w.q.due
  BY DEF Chain
<1>2. Recorded(v.q) /\ Entries(v.q, "response") = {}
  BY <1>1, AdapterLogged DEF Chained
<1>3. Answered(v.q)
  BY <1>1, <1>2 DEF Answered, Chained, Sent
<1>4. QED
  BY <1>1, <1>2, <1>3 DEF Chained

\* A synchronous interceptor that threw is given its own error.
LEMMA FailedChained ==
  ASSUME NEW v, NEW f, NEW i, Requested(v.q, i), f.q.log = Append(v.q.log, <<"request", i, "err">>),
         Chain(f, v.q.stage, v.q.before, v.q.after, v.q.due)
  PROVE  Recorded(f.q) /\ Asking(f.q)
<1> DEFINE new == <<"request", i, "err">>
           q == v.q
           p == f.q
<1>1. new[1] = "request" /\ new[2] = i /\ new[3] = "err"
  OBVIOUS
<1>2. p.before = q.before /\ p.after = q.after /\ p.due = q.due /\ q.due # <<>>
  BY DEF Chain, Requested, Asking
<1>3. Recorded(p) /\ Gained(q, p, new)
  BY <1>2, RequestLogged DEF Requested
<1> HIDE DEF new
<1>4. \A e \in ToSet(p.log) : e[1] = "request"
  BY <1>1, <1>3 DEF Gained, Requested
<1>5. \A e \in ToSet(p.log) : \A j \in p.before : j < e[2]
  BY <1>1, <1>2, <1>3 DEF Gained, Asking, Requested
<1>6. ~Fine(p, "request")
  BY <1>1, <1>3, GainedEntries
<1>7. Asking(p)
  BY <1>2, <1>4, <1>5, <1>6 DEF Asking, Requested
<1>8. QED
  BY <1>3, <1>7

\* What there was before a synchronous interceptor threw goes on.
LEMMA GoesOnChained ==
  ASSUME NEW w, NEW f, NEW g, NEW i \in Nat, Recorded(f.q), Asking(f.q),
         <<"request", i, "err">> \in ToSet(f.q.log),
         g.q.log = f.q.log, g.q.val[1] = "ok", Bounded(f.q.after),
         Chain(g, "now", {}, f.q.after, f.q.due)
  PROVE  Chained(g.q)
<1>1. g.q.stage = "now" /\ g.q.before = {} /\ g.q.after = f.q.after /\ g.q.due = f.q.due
  BY DEF Chain
<1>2. Recorded(g.q)
  BY <1>1, SameRecorded
<1>3. <<"request", i, "err">> \in Entries(g.q, "request")
  BY DEF Entries
<1>4. ~Fine(g.q, "request")
  BY <1>3 DEF Fine
<1>5. Asking(g.q)
  BY <1>1, <1>4 DEF Asking
<1>6. Bounded({}) /\ Answer(g.q.val)
  BY DEF Bounded, Answer
<1>7. QED
  BY <1>1, <1>2, <1>5, <1>6 DEF Chained

\* A step of a synchronous call keeps the chain in order.
LEMMA CallNowChained ==
  ASSUME WireInv, NEW r \in Requests, Chained(reqs[r]), CallNow(r)
  PROVE  Chained(reqs'[r])
<1> DEFINE w == Turn(r)
           q == w.q
           i == Following("request", q.before)
<1>1. Legal(r, w) /\ q = reqs[r]
  BY TurnLegal DEF Turn
<1>2. q.stage = "now" /\ q.adapter = "none"
  BY <1>1 DEF CallNow, Legal, Alive
<1>3. /\ Recorded(q) /\ Asking(q) /\ q.val[1] = "ok" /\ Answer(q.val)
      /\ Bounded(q.before) /\ Bounded(q.after)
  BY <1>1, <1>2 DEF Chained
<1> HIDE DEF w
<1>4. CASE q.before = {}
  <2> DEFINE d == DispatchNow(w, r, q.val[2])
             t == Thrown(d, d.q.val)
  <2>1. /\ Legal(r, d)
        /\ \/ d.q.val[1] = "err" /\ d.q.log = q.log
              /\ Chain(d, "response", q.before, q.after, q.due)
           \/ /\ d.q.val = Waiting \/ Answer(d.q.val)
              /\ d.q.log = Append(q.log, <<"dispatch">>)
              /\ Chain(d, "adapter", q.before, q.after, q.due)
    BY <1>1, <1>2, DispatchNowTurn
  <2>2. CalledOut(w, r) = IF d.q.stage = "adapter" THEN d ELSE t
    BY Zenon DEF CalledOut
  <2> HIDE DEF d
  <2>3. Chain(t, "response", {}, {}, d.q.due) /\ t.q.val = d.q.val /\ t.q.log = d.q.log
    BY <2>1, ThrownTurn
  <2> HIDE DEF t
  <2>4. CASE Chain(d, "adapter", q.before, q.after, q.due)
    <3>1. CalledOut(w, r) = d
      BY <2>2, <2>4 DEF Chain
    <3>2. Chained(d.q)
      BY <1>3, <1>4, <2>1, <2>4, DispatchChained DEF Chain
    <3>3. QED
      BY <1>1, <1>4, <3>1, <3>2, CallNowTurn, BecomesOne DEF w
  <2>5. CASE Chain(d, "response", q.before, q.after, q.due)
    <3>1. CalledOut(w, r) = t
      BY <2>2, <2>5 DEF Chain
    <3>2. d.q.val[1] = "err" /\ d.q.log = q.log /\ d.q.due = q.due
      BY <2>1, <2>5 DEF Chain
    <3>3. Chained(t.q)
      BY <1>3, <2>3, <3>2, ThrownChained
    <3>4. QED
      BY <1>1, <1>4, <3>1, <3>3, CallNowTurn, BecomesOne DEF w
  <2>6. QED
    BY <2>1, <2>4, <2>5
<1>5. CASE q.before # {}
  <2> DEFINE v == Handle(LessBefore(w, i), "request", i, None)
             failed == Logged(v, <<"request", i, "err">>)
             rejected == plan["request"][i].rejected
             u == CalledBack(w, r, i)
  <2>1. Legal(r, v) /\ Moved(w, v, "request", i) /\ Chain(v, "now", q.before \ {i}, q.after, q.due)
    BY <1>1, <1>2, RequestTurn
  <2>2. u = IF v.q.val[1] = "ok" THEN v
            ELSE IF rejected = "none" THEN Thrown(v, Err("TypeError"))
            ELSE IF rejected = "recover" THEN GoesOn(failed, q.val)
            ELSE Thrown(failed, v.q.val)
    BY Zenon DEF CalledBack
  <2>0. i = Following("request", w.q.before)
    OBVIOUS
  <2> HIDE DEF v, u, rejected, i
  <2>3. /\ Legal(r, failed) /\ Chain(failed, v.q.stage, v.q.before, v.q.after, v.q.due)
        /\ failed.q.val = v.q.val /\ failed.q.log = Append(v.q.log, <<"request", i, "err">>)
    BY <2>1, LoggedTurn
  <2> HIDE DEF failed
  <2>3a. Requested(v.q, i)
    BY <1>3, <1>5, <2>0, <2>1, RequestChained
  <2>4. Recorded(v.q) /\ Asking(v.q) /\ Answer(v.q.val) /\ Bounded(v.q.before) /\ i \in Nat
    BY <2>3a DEF Requested
  <2>5. Recorded(failed.q) /\ Asking(failed.q)
    BY <2>3, <2>3a, FailedChained
  <2>6. v.q.stage = "now" /\ v.q.after = q.after
    BY <2>1 DEF Chain
  <2>7. ASSUME v.q.val[1] = "ok" PROVE Chained(u.q)
    <3>1. u = v
      BY <2>2, <2>7
    <3>2. QED
      BY <1>3, <2>4, <2>6, <2>7, <3>1 DEF Chained
  <2>8. ASSUME v.q.val[1] # "ok" /\ rejected = "none" PROVE Chained(u.q)
    <3>1. u = Thrown(v, Err("TypeError"))
      BY <2>2, <2>8
    <3>2. Chain(u, "response", {}, {}, v.q.due) /\ u.q.val = Err("TypeError") /\ u.q.log = v.q.log
      BY <2>1, <3>1, ThrownTurn
    <3>3. u.q.val[1] = "err"
      BY <3>2 DEF Err
    <3>4. QED
      BY <2>4, <3>2, <3>3, ThrownChained
  <2>9. ASSUME v.q.val[1] # "ok" /\ rejected = "recover" PROVE Chained(u.q)
    <3>1. u = GoesOn(failed, q.val)
      BY <2>2, <2>9
    <3>2. Chain(u, failed.q.stage, {}, failed.q.after, failed.q.due) /\ u.q.val = q.val /\ u.q.log = failed.q.log
      BY <2>3, <3>1, GoesOnTurn
    <3>3. failed.q.stage = "now" /\ Bounded(failed.q.after)
      BY <1>3, <2>3, <2>6 DEF Chain
    <3>4. <<"request", i, "err">> \in Entry
      BY <2>4, NewEntry
    <3>5. v.q.log \in Seq(Entry)
      BY <2>4 DEF Recorded
    <3>6. <<"request", i, "err">> \in ToSet(failed.q.log)
      <4> DEFINE new == <<"request", i, "err">>
      <4>1. new \in Entry /\ failed.q.log = Append(v.q.log, new)
        BY <2>3, <3>4
      <4> HIDE DEF new
      <4>2. Gained(v.q, failed.q, new)
        BY <3>5, <4>1, LogGained
      <4>3. QED
        BY <4>2 DEF Gained, new
    <3>7. QED
      BY <1>3, <2>4, <2>5, <3>2, <3>3, <3>6, GoesOnChained
  <2>10. ASSUME v.q.val[1] # "ok" /\ rejected \notin {"none", "recover"} PROVE Chained(u.q)
    <3>1. u = Thrown(failed, v.q.val)
      BY <2>2, <2>10
    <3>2. Chain(u, "response", {}, {}, failed.q.due) /\ u.q.val = v.q.val /\ u.q.log = failed.q.log
      BY <2>3, <3>1, ThrownTurn
    <3>3. u.q.val[1] = "err"
      BY <2>4, <2>10, <3>2 DEF Answer
    <3>4. QED
      BY <2>5, <3>2, <3>3, ThrownChained
  <2>11. Chained(u.q)
    BY <2>7, <2>8, <2>9, <2>10
  <2>12. Becomes(r, u)
    BY <1>1, <1>5, CallNowTurn DEF u, w, i
  <2>13. QED
    BY <2>11, <2>12, BecomesOne
<1>6. QED
  BY <1>4, <1>5

\* onAdapterRejection rejects.
LEMMA RejectionAnswer ==
  ASSUME NEW w, NEW config, NEW val, val[1] = "err"
  PROVE  Answer(OnAdapterRejection(w, config, val))
<1>1. Answer(val) /\ Answer(Err(CANCELED)) /\ Answer(Err("ERR_BAD_RESPONSE"))
  BY DEF Answer, Err
<1>2. \A x : Answer(<<"err", x>>)
  BY DEF Answer
<1>3. QED
  BY <1>1, <1>2, Zenon DEF OnAdapterRejection

\* onAdapterResolution resolves or throws.
LEMMA ResolutionAnswer ==
  ASSUME NEW w, NEW config, NEW response
  PROVE  Answer(OnAdapterResolution(w, config, response))
<1>1. Answer(Err(CANCELED)) /\ Answer(Err("ERR_BAD_RESPONSE"))
  BY DEF Answer, Err
<1>2. \A x : Answer(Ok(x))
  BY DEF Answer, Ok
<1>3. QED
  BY <1>1, <1>2, Zenon DEF OnAdapterResolution

\* A reaction keeps the chain in order.
LEMMA StepChained ==
  ASSUME WireInv, NEW r \in Requests, Chained(reqs[r]), Step(r)
  PROVE  Chained(reqs'[r])
<1> DEFINE w == Turn(r)
           q == w.q
<1>1. Legal(r, w) /\ q = reqs[r]
  BY TurnLegal DEF Turn
<1>2. /\ Recorded(q) /\ Bounded(q.before) /\ Bounded(q.after)
      /\ q.val # Waiting /\ Answer(q.val)
  BY <1>1 DEF Chained, Step, StepReady
<1>3. q.stage = "request" => Asking(q) /\ q.adapter = "none"
  BY <1>1 DEF Chained, Legal, Alive
<1>4. Chained(q)
  BY <1>1
<1>5. \/ q.stage = "request" /\ q.before # {} /\ Becomes(r, RequestReaction(w, r))
      \/ q.stage = "request" /\ q.before = {} /\ Becomes(r, DispatchReaction(w, r))
      \/ q.stage = "adapter" /\ Becomes(r, AdapterReaction(w, r))
      \/ q.stage = "response" /\ q.after # {} /\ Becomes(r, ResponseReaction(w, r))
  <2>1. \/ q.stage = "request" /\ q.before # {} /\ Becomes(r, RequestReaction(w, r))
        \/ q.stage = "request" /\ q.before = {} /\ Becomes(r, DispatchReaction(w, r))
        \/ q.stage = "adapter" /\ Becomes(r, AdapterReaction(w, r))
        \/ q.stage = "response" /\ Becomes(r, ResponseReaction(w, r))
    BY <1>1, Zenon DEF Step
  <2>2. q.stage = "response" => q.after # {}
    BY <1>1 DEF Step, StepReady
  <2>3. QED
    BY <2>1, <2>2
<1> HIDE DEF w
<1>6. CASE q.stage = "request" /\ q.before # {} /\ Becomes(r, RequestReaction(w, r))
  <2> DEFINE i == Following("request", q.before)
             v == RequestReaction(w, r)
  <2>1. v = Handle(LessBefore(w, i), "request", i, q.config)
    BY Zenon DEF RequestReaction, LessBefore
  <2>2. i = Following("request", w.q.before)
    OBVIOUS
  <2> HIDE DEF v, i
  <2>3. Legal(r, v) /\ Moved(w, v, "request", i) /\ Chain(v, "request", q.before \ {i}, q.after, q.due)
    BY <1>1, <1>6, <2>1, RequestTurn
  <2>4. Requested(v.q, i)
    BY <1>2, <1>3, <1>6, <2>2, <2>3, RequestChained
  <2>5. Chained(v.q)
    BY <1>2, <2>3, <2>4 DEF Requested, Chained, Chain
  <2>6. QED
    BY <1>6, <2>5, BecomesOne DEF v
<1>7. CASE q.stage = "request" /\ q.before = {} /\ Becomes(r, DispatchReaction(w, r))
  <2> DEFINE v == DispatchReaction(w, r)
  <2>1. v = IF q.val[1] = "ok" THEN DispatchNow(w, r, q.val[2]) ELSE Passed(w)
    BY Zenon DEF DispatchReaction, DispatchNow, Passed
  <2> HIDE DEF v
  <2>2. CASE q.val[1] = "ok"
    <3> DEFINE config == q.val[2]
    <3>1. v = DispatchNow(w, r, config)
      BY <2>1, <2>2
    <3> HIDE DEF config
    <3>0. w.q.adapter = "none"
      BY <1>3, <1>7
    <3>2. /\ Legal(r, v)
          /\ \/ v.q.val[1] = "err" /\ v.q.log = q.log
                /\ Chain(v, "response", q.before, q.after, q.due)
             \/ /\ v.q.val = Waiting \/ Answer(v.q.val)
                /\ v.q.log = Append(q.log, <<"dispatch">>)
                /\ Chain(v, "adapter", q.before, q.after, q.due)
      BY <1>1, <3>0, <3>1, DispatchNowTurn
    <3>3. CASE v.q.val[1] = "err" /\ v.q.log = q.log
               /\ Chain(v, "response", q.before, q.after, q.due)
      <4>1. Answer(v.q.val)
        BY <3>3 DEF Answer
      <4>2. Chained(v.q)
        BY <1>2, <1>3, <1>7, <3>3, <4>1, PassedChained
      <4>3. QED
        BY <1>7, <4>2, BecomesOne DEF v
    <3>4. CASE /\ v.q.val = Waiting \/ Answer(v.q.val)
               /\ v.q.log = Append(q.log, <<"dispatch">>)
               /\ Chain(v, "adapter", q.before, q.after, q.due)
      <4>1. Chained(v.q)
        BY <1>2, <1>3, <1>7, <2>2, <3>4, DispatchChained
      <4>2. QED
        BY <1>7, <4>1, BecomesOne DEF v
    <3>5. QED
      BY <3>2, <3>3, <3>4
  <2>3. CASE q.val[1] # "ok"
    <3>1. v = Passed(w)
      BY <2>1, <2>3
    <3>2. Chain(v, "response", q.before, q.after, q.due) /\ v.q.val = q.val /\ v.q.log = q.log
      BY <1>1, <3>1, PassedTurn
    <3>3. Chained(v.q)
      BY <1>2, <1>3, <1>7, <3>2, PassedChained
    <3>4. QED
      BY <1>7, <3>3, BecomesOne DEF v
  <2>4. QED
    BY <2>2, <2>3
<1>8. CASE q.stage = "adapter" /\ Becomes(r, AdapterReaction(w, r))
  <2> DEFINE v == AdapterReaction(w, r)
  <2>1. /\ Chain(v, "response", q.before, q.after, q.due) /\ v.q.log = Append(q.log, <<"adapter">>)
        /\ v.q.val = IF q.val[1] = "ok" THEN OnAdapterResolution(w, q.config, q.val[2])
                     ELSE OnAdapterRejection(w, q.config, q.val)
    BY <1>1, AdapterTurn
  <2> HIDE DEF v
  <2>2. Answer(v.q.val)
    BY <1>2, <2>1, RejectionAnswer, ResolutionAnswer DEF Answer
  <2>3. Chained(v.q)
    BY <1>4, <1>8, <2>1, <2>2, AdapterChained
  <2>4. QED
    BY <1>8, <2>3, BecomesOne DEF v
<1>9. CASE q.stage = "response" /\ q.after # {} /\ Becomes(r, ResponseReaction(w, r))
  <2> DEFINE i == Following("response", q.after)
             v == ResponseReaction(w, r)
  <2>1. v = Handle(LessAfter(w, i), "response", i, Recovered)
    BY Zenon DEF ResponseReaction, LessAfter
  <2>2. i = Following("response", w.q.after)
    OBVIOUS
  <2> HIDE DEF v, i
  <2>3. Moved(w, v, "response", i) /\ Chain(v, "response", q.before, q.after \ {i}, q.due)
    BY <1>1, <1>9, <2>1, ResponseTurn
  <2>4. Chained(v.q)
    BY <1>4, <1>9, <2>2, <2>3, ResponseChained
  <2>5. QED
    BY <1>9, <2>4, BecomesOne DEF v
<1>10. QED
  BY <1>5, <1>6, <1>7, <1>8, <1>9

\* The interceptors that were registered, by the managers' counters.
Registry(h) == /\ DOMAIN h = {"list", "used"} /\ h.used \in Nat
               /\ h.list \in Seq(0 .. h.used)

\* Both managers' handlers.
HandlersInv == /\ DOMAIN handlers = {"request", "response"}
               /\ Registry(handlers["request"]) /\ Registry(handlers["response"])

\* The inductive invariant of the chains: where each one is in its order.
ChainInv == HandlersInv /\ \A r \in Requests : Chained(reqs[r])

\* What is registered are numbers up to the manager's counter.
LEMMA RegisteredBounded ==
  ASSUME HandlersInv, NEW kind \in {"request", "response"}, NEW config
  PROVE  Bounded(Registered(kind, config))
<1> DEFINE h == handlers[kind]
<1>1. h.used \in Nat /\ h.list \in Seq(0 .. h.used)
  BY DEF HandlersInv, Registry
<1>2. Registered(kind, config) \subseteq ToSet(h.list) \ {0}
  BY DEF Registered, Ejected
<1> HIDE DEF h
<1>3. ToSet(h.list) \subseteq 0 .. h.used
  BY <1>1 DEF ToSet
<1>4. Registered(kind, config) \subseteq 1 .. h.used
  BY <1>1, <1>2, <1>3
<1>5. QED
  BY <1>1, <1>4 DEF Bounded

\* Before anything is logged.
LEMMA NothingLogged ==
  ASSUME NEW q, q.log = <<>>
  PROVE  /\ Recorded(q)
         /\ \A kind : Entries(q, kind) = {}
         /\ ToSet(q.log) = {}
<1>1. q.log \in Seq(Entry) /\ DOMAIN q.log = {}
  OBVIOUS
<1>2. ToSet(q.log) = {}
  BY <1>1 DEF ToSet
<1>3. \A kind : Entries(q, kind) = {} /\ Ran(q, kind) = {}
  BY <1>2 DEF Entries, Ran
<1>4. Ordered(q.log)
  BY <1>1 DEF Ordered
<1>5. Recorded(q)
  BY <1>1, <1>3, <1>4 DEF Recorded
<1>6. QED
  BY <1>2, <1>3, <1>5

\* A chain as it is made.
LEMMA MadeChained ==
  ASSUME NEW q, q.log = <<>>, q.stage \in {"now", "request"}, q.val[1] = "ok",
         Bounded(q.before), Bounded(q.after), q.due = <<q.before, q.after>>
  PROVE  Chained(q)
<1>1. Recorded(q) /\ ToSet(q.log) = {}
  BY NothingLogged
<1>2. q.due # <<>> /\ q.due[1] = q.before /\ q.due[2] = q.after
  OBVIOUS
<1>3. Asking(q)
  BY <1>1, <1>2 DEF Asking
<1>4. QED
  BY <1>1, <1>3 DEF Chained, Answer

\* No chain was made.
LEMMA RefusedChained ==
  ASSUME NEW q, q.log = <<>>, q.stage = "response", q.val[1] = "err",
         q.before = {}, q.after = {}, q.due = <<>>
  PROVE  Chained(q)
<1>1. Recorded(q) /\ \A kind : Entries(q, kind) = {}
  BY NothingLogged
<1>2. Answered(q) /\ Bounded({})
  BY <1>1 DEF Answered, Bounded
<1>3. QED
  BY <1>1, <1>2 DEF Chained, Answer

\* Asking makes a chain that is in order.
LEMMA AskChained ==
  ASSUME WireInv, ChainInv, NEW r \in Requests, Ask(r)
  PROVE  Chained(reqs'[r])
<1>1. /\ DOMAIN reqs = Requests /\ DOMAIN reqs[r] = Parts /\ reqs[r].stage = "unasked"
      /\ Chained(reqs[r]) /\ HandlersInv
  BY DEF WireInv, ChainInv, Ask
<1>2. reqs[r].log = <<>> /\ reqs[r].before = {} /\ reqs[r].after = {} /\ reqs[r].due = <<>>
  BY <1>1 DEF Chained
<1>3. PICK config, sync :
        reqs' = [reqs EXCEPT ![r] =
          IF BadTransitional(config)
          THEN [reqs[r] EXCEPT !.stage = "response", !.val = Err(BadOption(config))]
          ELSE [reqs[r] EXCEPT !.stage = IF sync THEN "now" ELSE "request", !.config = config,
                               !.before = Registered("request", config),
                               !.after = Registered("response", config), !.val = Ok(config),
                               !.due = <<Registered("request", config), Registered("response", config)>>]]
  BY Zenon DEF Ask
<1>4. CASE BadTransitional(config)
  <2> DEFINE q == [reqs[r] EXCEPT !.stage = "response", !.val = Err(BadOption(config))]
  <2>1. reqs' = [reqs EXCEPT ![r] = q]
    BY <1>3, <1>4, Zenon
  <2>2. /\ q.stage = "response" /\ q.val = Err(BadOption(config)) /\ q.log = <<>>
        /\ q.before = {} /\ q.after = {} /\ q.due = <<>>
    BY <1>1, <1>2 DEF Parts
  <2> HIDE DEF q
  <2>3. Chained(q)
    BY <2>2, RefusedChained DEF Err
  <2>4. QED
    BY <1>1, <2>1, <2>3
<1>5. CASE ~BadTransitional(config)
  <2> DEFINE requested == Registered("request", config)
             answered == Registered("response", config)
  <2>1. Bounded(requested) /\ Bounded(answered)
    BY <1>1, RegisteredBounded
  <2> DEFINE q == [reqs[r] EXCEPT !.stage = IF sync THEN "now" ELSE "request", !.config = config,
                                  !.before = requested, !.after = answered, !.val = Ok(config),
                                  !.due = <<requested, answered>>]
  <2>2. reqs' = [reqs EXCEPT ![r] = q]
    BY <1>3, <1>5, Zenon
  <2> HIDE DEF requested, answered
  <2>3. /\ q.stage \in {"now", "request"} /\ q.val = Ok(config) /\ q.log = <<>>
        /\ q.before = requested /\ q.after = answered /\ q.due = <<requested, answered>>
    BY <1>1, <1>2 DEF Parts
  <2> HIDE DEF q
  <2>4. Chained(q)
    BY <2>1, <2>3, MadeChained DEF Ok
  <2>5. QED
    BY <1>1, <2>2, <2>4
<1>6. QED
  BY <1>4, <1>5

\* What comes from outside settles the adapter's promise at most.
LEMMA OutsideChained ==
  ASSUME NEW q, NEW p, Chained(q), Alive(q), Outside(q, p)
  PROVE  Chained(p)
<1>1. /\ p.stage = q.stage /\ p.before = q.before /\ p.after = q.after
      /\ p.log = q.log /\ p.due = q.due
      /\ p.val = q.val \/ (q.val = Waiting /\ q.adapter # "none" /\ Answer(p.val))
  BY DEF Outside
<1>2. Recorded(p)
  BY <1>1, SameRecorded DEF Chained
<1>3. \A kind : /\ Entries(p, kind) = Entries(q, kind) /\ Ran(p, kind) = Ran(q, kind)
                /\ Fine(p, kind) <=> Fine(q, kind)
  BY <1>1, SameEntries
<1>4. CASE p.val = q.val
  BY <1>1, <1>2, <1>3, <1>4 DEF Chained, Asking, Sent, Answered
<1>5. CASE q.val = Waiting /\ q.adapter # "none" /\ Answer(p.val)
  <2>1. ~Answer(q.val)
    BY <1>5 DEF Waiting, Answer
  <2>2. q.stage = "adapter"
    BY <1>5, <2>1 DEF Chained, Alive
  <2>3. Sent(p)
    BY <1>1, <1>3, <2>2 DEF Chained, Sent
  <2>4. QED
    BY <1>1, <1>2, <1>5, <2>2, <2>3 DEF Chained
<1>6. QED
  BY <1>1, <1>4, <1>5

\* InterceptorManager.use keeps a registry.
LEMMA RegistryUsed ==
  ASSUME NEW h, Registry(h), NEW g, DOMAIN g = {"list", "used"},
         g.used = h.used + 1, g.list = Append(h.list, h.used + 1)
  PROVE  Registry(g)
<1>1. h.used \in Nat /\ h.list \in Seq(0 .. h.used) /\ 0 .. h.used \subseteq 0 .. h.used + 1
  BY DEF Registry
<1>2. h.list \in Seq(0 .. h.used + 1) /\ h.used + 1 \in 0 .. h.used + 1
  BY <1>1
<1>3. g.list \in Seq(0 .. h.used + 1)
  BY <1>2
<1>4. QED
  BY <1>1, <1>3 DEF Registry

\* InterceptorManager.eject keeps a registry.
LEMMA RegistryEjected ==
  ASSUME NEW h, Registry(h), NEW i \in DOMAIN h.list
  PROVE  Registry([h EXCEPT !.list[i] = Ejected])
<1> DEFINE l == h.list
           m == [l EXCEPT ![i] = 0]
           S == 0 .. h.used
<1>1. h.used \in Nat /\ l \in Seq(S) /\ 0 \in S /\ i \in DOMAIN l
  BY DEF Registry
<1> HIDE DEF l, S
<1>2. m \in Seq(S)
  BY <1>1
<1> HIDE DEF m
<1> DEFINE g == [h EXCEPT !.list[i] = Ejected]
<1>3. DOMAIN g = {"list", "used"} /\ g.used = h.used /\ g.list = m
  BY DEF Registry, m, l, Ejected
<1> HIDE DEF g
<1>4. Registry(g)
  BY <1>1, <1>2, <1>3 DEF Registry, S
<1>5. QED
  BY <1>4 DEF g

\* Interceptors come and go.
LEMMA NextHandlers == HandlersInv /\ [Next]_vars => HandlersInv'
<1> SUFFICES ASSUME HandlersInv, [Next]_vars PROVE HandlersInv'
  OBVIOUS
<1>1. ASSUME NEW kind \in {"request", "response"}, NEW h, Changed(kind, h), Registry(h)
      PROVE  HandlersInv'
  BY <1>1 DEF Changed, HandlersInv
<1>2. \A kind \in {"request", "response"} : Registry(handlers[kind])
  BY DEF HandlersInv
<1>3. ASSUME NEW kind \in {"request", "response"}, Use(kind)
      PROVE  HandlersInv'
  <2> DEFINE h == handlers[kind]
             g == [list |-> Append(h.list, h.used + 1), used |-> h.used + 1]
  <2>1. Changed(kind, g)
    BY <1>3 DEF Use
  <2>2. Registry(h)
    BY <1>2
  <2> HIDE DEF h
  <2>3. DOMAIN g = {"list", "used"} /\ g.used = h.used + 1 /\ g.list = Append(h.list, h.used + 1)
    OBVIOUS
  <2> HIDE DEF g
  <2>4. Registry(g)
    BY <2>2, <2>3, RegistryUsed
  <2>5. QED
    BY <1>1, <2>1, <2>4
<1>4. ASSUME NEW kind \in {"request", "response"}, NEW i, Eject(kind, i)
      PROVE  HandlersInv'
  <2>1. i \in DOMAIN handlers[kind].list /\ Changed(kind, [handlers[kind] EXCEPT !.list[i] = Ejected])
    BY <1>4, Zenon DEF Eject
  <2>2. Registry([handlers[kind] EXCEPT !.list[i] = Ejected])
    BY <1>2, <2>1, RegistryEjected
  <2>3. QED
    BY <1>1, <2>1, <2>2
<1>5. ASSUME NEW kind \in {"request", "response"}, Clear(kind)
      PROVE  HandlersInv'
  <2> DEFINE g == [handlers[kind] EXCEPT !.list = <<>>]
  <2>1. Changed(kind, g)
    BY <1>5, Zenon DEF Clear
  <2>2. DOMAIN g = {"list", "used"} /\ g.used \in Nat /\ g.list = <<>>
    BY <1>2 DEF Registry
  <2> HIDE DEF g
  <2>3. Registry(g)
    BY <2>2 DEF Registry
  <2>4. QED
    BY <1>1, <2>1, <2>3
<1>6. CASE UNCHANGED handlers
  BY <1>6 DEF HandlersInv
<1>7. CASE \E r \in Requests : Ends(r)
  <2>1. UNCHANGED handlers
    BY <1>7, Zenon DEF Ends, XhrLoad, XhrError, XhrAbort, XhrTimeout, FetchHead, FetchBody, FetchFail,
       Failed, After
  <2>2. QED
    BY <1>6, <2>1
<1>8. CASE \E r \in Requests : Ask(r) \/ CallNow(r) \/ Step(r) \/ FetchTimer(r) \/ Unsubscribe(r)
  <2>1. UNCHANGED handlers
    BY <1>8, Zenon DEF Ask, CallNow, Step, FetchTimer, Unsubscribe, After
  <2>2. QED
    BY <1>6, <2>1
<1>9. CASE \E r \in Requests : Progress(r) \/ ProgressTimer(r) \/ Chunk(r) \/ Pull(r) \/ ProgressPosted(r)
  <2>1. UNCHANGED handlers
    BY <1>9, Zenon DEF Progress, ProgressTimer, Chunk, Pull, ProgressPosted, Progresses
  <2>2. QED
    BY <1>6, <2>1
<1>10. CASE (\E t \in Tokens : TokenTold(t) \/ Cancel(t)) \/ (\E s \in Signals : Abort(s)) \/ Tick
  <2>1. UNCHANGED handlers
    BY <1>10, Zenon DEF TokenTold, Cancel, Abort, Tick
  <2>2. QED
    BY <1>6, <2>1
<1>11. CASE UNCHANGED vars
  BY <1>6, <1>11 DEF vars
<1>12. CASE \E kind \in {"request", "response"} : Use(kind) \/ Clear(kind) \/ \E i \in 1..2 : Eject(kind, i)
  BY <1>3, <1>4, <1>5, <1>12
<1>13. QED
  BY <1>7, <1>8, <1>9, <1>10, <1>11, <1>12, Zenon DEF Next

\* Every step keeps every chain in order.
LEMMA NextChain == WireInv /\ ChainInv /\ [Next]_vars => ChainInv'
<1> SUFFICES ASSUME WireInv, ChainInv, [Next]_vars PROVE ChainInv'
  OBVIOUS
<1>1. HandlersInv'
  BY NextHandlers DEF ChainInv
<1>2. ASSUME NEW r \in Requests, Ask(r) \/ CallNow(r) \/ Step(r)
      PROVE  \A x \in Requests : Chained(reqs'[x])
  <2>1. Chained(reqs[r])
    BY DEF ChainInv
  <2>2. Chained(reqs'[r])
    BY <1>2, <2>1, AskChained, CallNowChained, StepChained
  <2>3. \A x \in Requests : x # r => reqs'[x] = reqs[x]
    <3>1. PICK q : reqs' = [reqs EXCEPT ![r] = q]
      BY <1>2, Zenon DEF Ask, CallNow, Step, Becomes
    <3>2. QED
      BY <3>1 DEF WireInv
  <2>4. QED
    BY <2>2, <2>3 DEF ChainInv
<1>3. CASE OutsideAll
  <2>1. ASSUME NEW x \in Requests PROVE Chained(reqs'[x])
    BY <1>3, OutsideChained DEF OutsideAll, ChainInv, WireInv
  <2>2. QED
    BY <1>1, <2>1 DEF ChainInv
<1>4. QED
  BY <1>1, <1>2, <1>3, NextOutside DEF ChainInv

\* At first no chain is made.
LEMMA InitChain == Init => ChainInv
<1> SUFFICES ASSUME Init PROVE ChainInv
  OBVIOUS
<1>1. Chained(NoRequest)
  <2>1. /\ NoRequest.log = <<>> /\ NoRequest.stage = "unasked" /\ NoRequest.val = Waiting
        /\ NoRequest.before = {} /\ NoRequest.after = {} /\ NoRequest.due = <<>>
    BY DEF NoRequest
  <2> DEFINE q == NoRequest
  <2>2. /\ q.log = <<>> /\ q.stage = "unasked" /\ q.val = Waiting
        /\ q.before = {} /\ q.after = {} /\ q.due = <<>>
    BY <2>1
  <2> HIDE DEF q
  <2>3. Recorded(q)
    BY <2>2, NothingLogged
  <2>4. Chained(q)
    BY <2>2, <2>3 DEF Chained, Bounded
  <2>5. QED
    BY <2>4 DEF q
<1>2. \A r \in Requests : Chained(reqs[r])
  BY <1>1 DEF Init
<1>3. HandlersInv
  <2>1. plan \in Plans
    BY DEF Init
  <2>2. Len(plan["request"]) \in Nat /\ Len(plan["response"]) \in Nat
    BY <2>1, PlansAssumption
  <2> DEFINE given(n) == [list |-> [i \in 1 .. n |-> i], used |-> n]
  <2>3. ASSUME NEW n \in Nat PROVE Registry(given(n))
    <3> DEFINE l == [i \in 1 .. n |-> i]
    <3>1. l \in Seq(0 .. n)
      <4>1. l \in [1 .. n -> 0 .. n]
        OBVIOUS
      <4>2. QED
        BY <4>1
    <3> HIDE DEF l
    <3> DEFINE g == [list |-> l, used |-> n]
    <3>2. DOMAIN g = {"list", "used"} /\ g.used = n /\ g.list = l
      OBVIOUS
    <3> HIDE DEF g
    <3>3. Registry(g)
      BY <3>1, <3>2 DEF Registry
    <3>4. QED
      BY <3>3 DEF g, l
  <2>4. handlers = [kind \in {"request", "response"} |->
                      given(IF plan.manages THEN 0 ELSE Len(plan[kind]))]
    BY Zenon DEF Init
  <2> HIDE DEF given
  <2>5. PICK m \in Nat, n \in Nat :
          handlers["request"] = given(m) /\ handlers["response"] = given(n)
    BY <2>2, <2>4
  <2>6. QED
    BY <2>3, <2>4, <2>5 DEF HandlersInv
<1>4. QED
  BY <1>2, <1>3 DEF ChainInv

\* InOrder: the interceptors run in their order, and none is left out.
THEOREM InterceptorsInOrder == Spec => []InOrder
<1>1. Spec => []ChainInv
  BY InitChain, NextChain, WireHolds, PTL DEF Spec
<1>2. ChainInv => InOrder
  <2> SUFFICES ASSUME ChainInv, NEW r \in Requests
               PROVE  LET q == reqs[r]
                      IN /\ \A i, j \in DOMAIN q.log : i < j => Follows(q.log[i], q.log[j])
                         /\ Entries(q, "adapter") # {} => Entries(q, "dispatch") # {}
                         /\ q.due # <<>> =>
                              /\ Ran(q, "request") \subseteq q.due[1] /\ Ran(q, "response") \subseteq q.due[2]
                              /\ Entries(q, "dispatch") # {} /\ Fine(q, "request")
                                 => Ran(q, "request") = q.due[1]
                              /\ Over(q) /\ q.val[1] = "ok" /\ Fine(q, "response")
                                 => Ran(q, "response") = q.due[2]
    BY Zenon DEF InOrder
  <2> DEFINE q == reqs[r]
  <2>1. Chained(q) /\ Recorded(q)
    BY DEF ChainInv, Chained
  <2> HIDE DEF q
  <2>2. \A i, j \in DOMAIN q.log : i < j => Follows(q.log[i], q.log[j])
    BY <2>1 DEF Recorded, Ordered
  <2>3. ASSUME q.due # <<>>, Entries(q, "dispatch") # {}, Fine(q, "request")
        PROVE  Ran(q, "request") = q.due[1]
    BY <2>1, <2>3 DEF Recorded
  <2>4. ASSUME q.due # <<>>, Over(q), q.val[1] = "ok", Fine(q, "response")
        PROVE  Ran(q, "response") = q.due[2]
    <3>1. Answered(q) /\ q.after = {}
      BY <2>1, <2>4 DEF Over, Chained
    <3>2. QED
      BY <2>1, <2>4, <3>1 DEF Answered, Recorded
  <2>5. QED
    BY <2>1, <2>2, <2>3, <2>4 DEF q, Recorded
<1>3. QED
  BY <1>1, <1>2, PTL
=============================================================================
