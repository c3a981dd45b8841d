----------------------------- MODULE VueRuntime -----------------------------
(***************************************************************************)
(* The parts of vue.js together: reactivity, watchers and instances        *)
(* (VueRender and what it extends), the scheduler, the patch and the       *)
(* transitions call each other.  Each is written over operators for the    *)
(* parts it calls; here these are given, and with them the hooks by which  *)
(* the patch reaches components and directives.                            *)
(***************************************************************************)
EXTENDS Integers, Sequences, SequencesExt, FiniteSetsExt, TLC, EagerFolds

CONSTANTS Options, Factories, ReservedTags, MAX_UPDATE_COUNT,
          ConfigKeyCodes,       \* config.keyCodes: names of keys to sets of codes
          CssTransitions        \* the style sheet: tags to their number of CSS transitions

RECURSIVE KUpdate(_, _), KRun(_, _), KBefore(_, _), KUpdated(_, _), KActivate(_, _), KCallBack(_, _)
RECURSIVE KUpdateComponent(_, _), KEmit(_, _, _, _), KDestroy(_, _), KBuiltin(_, _, _)
RECURSIVE KPatch(_, _, _, _), KRender(_, _), KNormalize(_, _), KTransition(_, _)
RECURSIVE KInit(_, _), KPrepatch(_, _, _), KInsert(_, _), KInsertMerged(_, _), KDestroyHook(_, _)
RECURSIVE KDirective(_, _, _, _), KPostpatch(_, _, _), KEnter(_, _), KLeave(_, _, _), KKeepAlive(_, _, _)
RECURSIVE KCleanup(_), KCallRm(_, _), KForceUpdate(_, _)

S == INSTANCE VueScheduler WITH
       Before <- KBefore, Run <- KRun, CallUpdated <- KUpdated, Activate <- KActivate,
       CleanupPending <- KCleanup, CallBack <- KCallBack
R == INSTANCE VueRender WITH
       Update <- KUpdate, QueueWatcher <- S!QueueWatcher, NextTick <- S!NextTick,
       UpdateComponent <- KUpdateComponent, Emit <- KEmit, Destroy <- KDestroy,
       Builtin <- KBuiltin, Patch <- KPatch, Render <- KRender, NormalizeScoped <- KNormalize,
       TransitionRender <- KTransition
P == INSTANCE VuePatch WITH
       InitHook <- KInit, PrepatchHook <- KPrepatch, InsertHook <- KInsert,
       MergedInsertHook <- KInsertMerged, DestroyHook <- KDestroyHook, DirectiveHook <- KDirective,
       PostpatchHook <- KPostpatch, Enter <- KEnter, Leave <- KLeave
T == INSTANCE VueTransition WITH
       CallRm <- KCallRm, ForceUpdate <- KForceUpdate, KeepAliveVNode <- KKeepAlive

KUpdate(s, w) == R!WatcherUpdate(s, w)
KRun(s, w) == R!Run(s, w)
KCleanup(s) == R!CleanupPending(s)
KUpdateComponent(s, vm) == R!RenderAndPatch(s, vm)
KEmit(s, vm, ev, args) == R!EmitEvent(s, vm, ev, args)
KDestroy(s, vm) == R!DestroyInstance(s, vm)
KPatch(s, real, old, v) == P!Patch(s, real, old, v)
KRender(s, vm) == R!RenderVm(s, vm)
KNormalize(s, vm) == R!NormalizeOf(s, vm)
KTransition(s, vm) == T!TransitionRender(s, vm)
KEnter(s, v) == T!Enter(s, v)
KLeave(s, v, rm) == T!Leave(s, v, rm)
KCallRm(s, r) == P!CallRm(s, r)
KForceUpdate(s, vm) == R!ForceUpdate(s, vm)

\* placeholder, vue.js:9035-9042: <keep-alive> with the child's props
KKeepAlive(s, vm, raw) ==
  R!CreateElement(s, R!Env(vm), "keep-alive", [R!EmptyData EXCEPT !.attrs = s.vn[raw].co.props],
                  <<>>, FALSE, 2)

-----------------------------------------------------------------------------
\* What the scheduler calls

\* mountComponent, vue.js:3067-3073: before
KBefore(s, w) ==
  LET r == s.watcher[w]
  IN IF r.kind = "render" /\ s.vm[r.vm].mounted /\ ~s.vm[r.vm].destroyed
     THEN R!CallHook(s, r.vm, "beforeUpdate") ELSE s

\* callUpdatedHooks, vue.js:3341-3350
KUpdated(s, w) ==
  LET vm == s.watcher[w].vm
  IN IF s.vm[vm].watcher = w /\ s.vm[vm].mounted /\ ~s.vm[vm].destroyed
     THEN R!CallHook(s, vm, "updated") ELSE s

\* callActivatedHooks, vue.js:3361-3366
KActivate(s, vm) == R!ActivateChildComponent([s EXCEPT !.vm[vm].inactive = "yes"], vm)

\* nextTick, vue.js:3841-3853: a callback with its own error handling
KCallBack(s, cb) == R!InvokeWithErrorHandling(s, cb, <<>>, cb[2])

-----------------------------------------------------------------------------
\* componentVNodeHooks

\* prepatch, vue.js:4934-4942
KPrepatch(s, old, v) ==
  LET ci == s.vn[old].ci
  IN R!UpdateChildComponent([s EXCEPT !.vn[v].ci = ci], ci, v)

\* createComponentInstanceForVnode, vue.js:5052-5069: the child of the instance
\* that is being patched
CreateComponentInstanceForVnode(s, v) ==
  [R!New(s, s.vn[v].co.comp, s.active, v) EXCEPT !.vn[v].ci = Len(s.vm) + 1]

\* init, vue.js:4921-4933: a kept instance is patched, any other is made and mounted
KInit(s, v) ==
  LET n == s.vn[v]
      kept == n.ci # 0 /\ n.data.keepAlive
      t == CreateComponentInstanceForVnode(s, v)
  IN IF kept /\ ~s.vm[n.ci].destroyed THEN KPrepatch(s, v, v)
     ELSE R!Mount(t, t.vn[v].ci, 0)

\* insert, vue.js:4943-4962: mounted, and activated, at once when the context
\* is being mounted itself, after the flush otherwise
ComponentInserted(s, v) ==
  LET n == s.vn[v]
      t == IF s.vm[n.ci].mounted THEN s
           ELSE R!CallHook([s EXCEPT !.vm[n.ci].mounted = TRUE], n.ci, "mounted")
  IN IF ~n.data.keepAlive THEN t
     ELSE IF t.vm[n.ctx].mounted THEN S!QueueActivatedComponent(t, n.ci)
     ELSE R!ActivateChildComponent(t, n.ci)

\* destroy, vue.js:4963-4973: what <keep-alive> holds is only deactivated
KDestroyHook(s, v) ==
  LET n == s.vn[v]
  IN IF s.vm[n.ci].destroyed THEN s
     ELSE IF n.data.keepAlive THEN R!DeactivateChildComponent(s, n.ci)
     ELSE R!DestroyInstance(s, n.ci)

\* normalizeDirectives, vue.js:7265-7295: a vnode's directives by their names
NormalizeDirectives(s, v) ==
  LET dirs == IF v = 0 THEN <<>> ELSE s.vn[v].data.dirs
  IN [n \in {dirs[i].name : i \in DOMAIN dirs} |-> (CHOOSE d \in ToSet(dirs) : d.name = n).value]

\* actuallySetSelected, vue.js:8880-8908: the options that fit the value, of a
\* single choice the first
SetSelected(s, e, value) ==
  LET opts == R!OptionNodes(s, e)
      fits(o) == R!LooseEqual(s, R!OptionValue(s.dom[o]), value)
      first == SelectInSeq(opts, fits)
      listed(o) == R!LooseIndexOf(s, s.obj[value[2]].val, R!OptionValue(s.dom[o])) # 0
  IN CASE R!IsMultiple(s, e) /\ ~R!IsArrayValue(s, value) -> s
       [] R!IsMultiple(s, e) /\ R!IsArrayValue(s, value) ->
            R!SelectOnly(s, e, {o \in ToSet(opts) : listed(o)})
       [] OTHER -> R!SelectOnly(s, e, IF first = 0 THEN {} ELSE {opts[first]})

RememberOptions(s, e) == [s EXCEPT !.dom[e].props = ("_vOptions" :> R!ValuesOf(s, R!OptionNodes(s, e))) @@ @]

\* v-model's inserted, vue.js:8815-8844: a select shows its value, one that had no
\* v-model before only when its options have been patched; a text has its
\* composition watched
ModelInserted(s, v, value, reused) ==
  LET e == s.vn[v].elm
      late == reused /\ "_vOptions" \notin DOMAIN s.dom[e].props
  IN
  CASE s.vn[v].tag = "select" ->
         RememberOptions(IF late THEN [s EXCEPT !.vn[v].data.hook = Append(@, "postpatch")]
                         ELSE SetSelected(s, e, value), e)
    [] s.vn[v].tag \in {"input", "textarea"} -> [s EXCEPT !.dom[e].vmodel = TRUE]
    [] OTHER -> s

\* mergeVNodeHook, vue.js:1577-1607: the insert hooks of a vnode, each of the
\* merged ones only once
InsertHooks(s, v, hooks) ==
  LET one(t, h) == CASE h = "component" -> ComponentInserted(t, v)
                     [] h = "enter" -> T!EnterInserted(t, v)
                     [] OTHER -> ModelInserted(t, v, NormalizeDirectives(t, v)["model"], FALSE)
  IN Each(one, [s EXCEPT !.vn[v].data.hook = SelectSeq(@, LAMBDA h : h = "component")], hooks)
KInsert(s, v) == InsertHooks(s, v, s.vn[v].data.hook)
KInsertMerged(s, v) == InsertHooks(s, v, SelectSeq(s.vn[v].data.hook, LAMBDA h : h # "component"))

-----------------------------------------------------------------------------
\* Directives

Display(s, e) == IF "display" \in DOMAIN s.dom[e].style THEN "display" :> s.dom[e].style["display"] ELSE <<>>
WithDisplay(s, e, d) == [s EXCEPT !.dom[e].style = d @@ R!Without(@, {"display"})]
None == "display" :> R!Str("none")

\* locateNode, vue.js:8932-8937
RECURSIVE LocateNode(_, _)
LocateNode(s, v) ==
  IF s.vn[v].ci # 0 /\ ~s.vn[v].data.transition.on THEN LocateNode(s, s.vm[s.vn[v].ci].vnode) ELSE v

\* v-show's bind, vue.js:8939-8954
ShowBind(s, v, value) ==
  LET e == s.vn[v].elm
      n == LocateNode(s, v)
      original == IF Display(s, e) = None THEN <<>> ELSE Display(s, e)
      t == [s EXCEPT !.dom[e].display = original]
  IN IF R!Truthy(value) /\ s.vn[n].data.transition.on
     THEN T!EnterWith([t EXCEPT !.vn[n].data.show = TRUE], n, original)
     ELSE WithDisplay(t, e, IF R!Truthy(value) THEN original ELSE None)

\* v-show's update, vue.js:8955-8978
ShowUpdate(s, v, old, value) ==
  LET e == s.vn[v].elm
      n == LocateNode(s, v)
      t == [s EXCEPT !.vn[n].data.show = TRUE]
  IN IF R!Truthy(value) = R!Truthy(old) THEN s
     ELSE IF ~s.vn[n].data.transition.on
     THEN WithDisplay(s, e, IF R!Truthy(value) THEN s.dom[e].display ELSE None)
     ELSE IF R!Truthy(value) THEN T!EnterWith(t, n, s.dom[e].display)
     ELSE T!LeaveWith(t, n, 0)

\* _update, vue.js:7207-7263: bind what is new, update what stays, unbind what
\* is gone; v-model's inserted waits for the insertion of a new vnode
KDirective(s, old, v, isUpdate) ==
  LET was == NormalizeDirectives(s, old)
      now == NormalizeDirectives(s, v)
      bind(n, t) ==
        CASE n = "show" /\ n \in DOMAIN was -> ShowUpdate(t, v, was[n], now[n])
          [] n = "show" /\ n \notin DOMAIN was -> ShowBind(t, v, now[n])
          [] n = "model" /\ n \notin DOMAIN was ->
               IF old = 0 THEN [t EXCEPT !.vn[v].data.hook = Append(@, "inserted")] ELSE ModelInserted(t, v, now["model"], TRUE)
          [] OTHER -> t
      bound == EachOf(bind, s, DOMAIN now)
  IN IF isUpdate /\ "show" \in DOMAIN was \ DOMAIN now
     THEN WithDisplay(bound, s.vn[v].elm, s.dom[s.vn[v].elm].display) ELSE bound

-----------------------------------------------------------------------------
\* isKeyNotMatch, vue.js:1947-1954
IsKeyNotMatch(expect, actual) == actual \notin expect

\* hyphenate, vue.js:174-176, of the names of keys
Hyphenate(name) ==
  IF name = "PageDown" THEN "page-down" ELSE IF name = "Enter" THEN "enter" ELSE name

\* checkKeyCodes, vue.js:1960-1972: by the names that are built in unless the
\* page gave the key a code, then by codes, then by the event's own name
CheckKeyCodes(event, f) ==
  LET own == f.key \in DOMAIN ConfigKeyCodes
      codes == IF own THEN ConfigKeyCodes[f.key] ELSE f.codes
      name == event.key.name
  IN IF f.names # {} /\ name # "" /\ ~own THEN IsKeyNotMatch(f.names, name)
     ELSE IF codes # {} THEN IsKeyNotMatch(codes, event.key.code)
     ELSE IF name # "" THEN Hyphenate(name) # f.key
     ELSE event.key.code = 0

\* the code of modifierCode, vue.js:10843-10854, and of the key filter, run: a
\* guard that fails ends the handler before the next one
Guards(s, mods) ==
  LET fails(t, m) ==
        CASE m[1] = "self"  -> t.event.target # t.event.at
          [] m[1] = "keys"  -> t.event.type = "keyup" /\ \A f \in m[2] : CheckKeyCodes(t.event, f)
          [] m[1] = "exact" -> t.event.held \cap m[2] # {}
          [] OTHER          -> m[1] # "stop" /\ m[1] \notin t.event.held
      one(acc, m) ==
        IF acc.fails THEN acc
        ELSE IF m[1] = "stop" THEN [acc EXCEPT !.s.event.stopped = TRUE]
        ELSE [acc EXCEPT !.fails = fails(acc.s, m)]
  IN Each(one, [s |-> s, fails |-> FALSE], mods)

\* the handler genHandler makes, vue.js:10917-10934
Guarded(s, mods, fn, args) ==
  LET g == Guards(s, mods) IN IF g.fails THEN g.s ELSE R!Invoke(g.s, fn, args)

\* Vue's own functions: the hooks of <keep-alive>, its watchers, guarded
\* handlers, and the end of one who waits for an asynchronous component
\* (vue.js:2593)
KBuiltin(s, fn, args) ==
  CASE fn[1] = "guard" -> Guarded(s, fn[2], fn[3], args)
    [] fn[1] = "cacheVNode" -> R!CacheVNode(s, fn[2])
    [] fn[1] = "watchPatterns" -> R!WatchPatterns(s, fn[2])
    [] fn[1] = "pruneAll" -> R!PruneAll(s, fn[2])
    [] fn[1] = "prune" -> R!PruneBy(s, fn[2], fn[3], args[1])
    [] fn[1] = "asyncGone" ->
         [s EXCEPT !.factory[fn[2]].owners = SelectSeq(@, LAMBDA o : o # fn[3])]
    [] OTHER -> s

-----------------------------------------------------------------------------
\* The listeners of an event

Mut_AlwaysFires(event, l) == TRUE

\* add, vue.js:8011-8043: not for an event older than the listener, unless the
\* event is the node's own
Fires(event, l) == event.target = event.at \/ event.time >= l.at

\* createOnceHandler, vue.js:7998-8006: a listener for once stays when its guard
\* returned null
SpentBy(t, l) ==
  LET fns == t.fn[l.fn].fns
  IN l.once = "~" /\ ~(Len(fns) = 1 /\ fns[1][1] = "guard" /\ Guards(t, fns[1][2]).fails)

\* one listener, its event and its node given: add, vue.js:8011-8043, and the invoker
CallListener(t) ==
  LET l == t.event.rest[1]
      e == t.event.at
      u == [t EXCEPT !.event.rest = Tail(@)]
      called == R!CallInvoker(u, l.fn, <<<<"e", t.event.target>>>>)
  IN IF ~Contains(R!ListenersOf(t.dom[e].on, t.event.type), l) \/ ~Fires(t.event, l) THEN u
     ELSE IF SpentBy(t, l)
     THEN [called EXCEPT !.dom[e].on[t.event.type] = SelectSeq(@, LAMBDA x : x # l)]
     ELSE called

\* trigger, vue.js:8925-8929: the event goes up at once, inside what is running
RECURSIVE Dispatched(_)
Dispatched(t) == IF P!Arrived(t) THEN t ELSE Dispatched(CallListener(P!AtListener(t)))
Trigger(s, e, type) ==
  [Dispatched([s EXCEPT !.event = P!EventFor(s, type, e, s.clock)]) EXCEPT !.event = s.event]

\* v-model's componentUpdated, vue.js:8845-8869, for a select: when an option is
\* another than before and the value has none any more, it takes what is selected
ModelUpdated(s, e, value, was) ==
  LET before == s.dom[e].props["_vOptions"]
      t == RememberOptions(SetSelected(s, e, value), e)
      now == t.dom[e].props["_vOptions"]
      changed == \E i \in DOMAIN now : i \notin DOMAIN before \/ ~R!LooseEqual(t, now[i], before[i])
      \* hasNoMatchingOption, vue.js:8909-8911
      unmatched(x) == R!LooseIndexOf(t, now, x) = 0
      needReset == IF R!IsMultiple(t, e) THEN \E i \in DOMAIN t.obj[value[2]].val : unmatched(t.obj[value[2]].val[i])
                   ELSE value # was /\ unmatched(value)
  IN IF changed /\ needReset THEN Trigger(t, e, "change") ELSE t

\* _update, vue.js:7246-7252: componentUpdated of the directives that stayed
KPostpatch(s, old, v) ==
  LET was == NormalizeDirectives(s, old)
      now == NormalizeDirectives(s, v)
      late == Contains(s.vn[v].data.hook, "postpatch")
      t == [s EXCEPT !.vn[v].data.hook = SelectSeq(@, LAMBDA h : h # "postpatch")]
  IN IF s.vn[v].tag = "select" /\ "model" \in DOMAIN now /\ (late \/ "model" \in DOMAIN was)
     THEN ModelUpdated(t, s.vn[v].elm, now["model"], IF late THEN R!Undefined ELSE was["model"]) ELSE s

-----------------------------------------------------------------------------
\* new Vue({el: ...}), vue.js:4730-4732
Start(s, comp) == R!Mount(R!New(s, comp, 0, 0), Len(s.vm) + 1, 2)

\* What a call from outside makes of the state: the page's script, a callback
\* of the application, a listener of an event, a microtask, a frame, the end of
\* a CSS transition or the timer of one, an asynchronous component that settles, or one of its timers
RunTurn(s, call) ==
  LET is(what) == call[1] = what
  IN CASE is("start") -> Start(s, call[2])
       [] is("run") -> R!Exec(s, R!Env(call[2]), call[3])
       [] is("listener") -> CallListener(s)
       [] is("flush") -> S!FlushCallbacks(s)
       [] is("frames") -> T!RunFrames(s)
       [] is("transition end") -> T!OnEnd(s, call[2])
       [] is("transition timeout") -> T!OnTimeout(s, call[2])
       [] is("resolve") -> R!AsyncResolve(s, call[2])
       [] is("reject") -> R!AsyncReject(s, call[2])
       [] OTHER -> R!AsyncTimer(s, call[2], call[3])
=============================================================================
