---------------------------- MODULE VueInstance ----------------------------
(***************************************************************************)
(* The life of a component instance (vue.js): its state from its options,  *)
(* its events, mounting, updating by the parent, activation inside         *)
(* <keep-alive> and destruction.  s.vm[i] is an instance; s.active the     *)
(* activeInstance.                                                         *)
(***************************************************************************)
EXTENDS VueWatcher, VueOptions

CONSTANTS Patch(_, _, _, _),        \* __patch__
          Render(_, _),             \* _render
          NormalizeScoped(_, _)     \* normalizeScopedSlots on the instance

NoScoped == [def |-> FALSE, fns |-> <<>>, stable |-> TRUE, key |-> <<>>, hasNormal |-> FALSE, of |-> 0]

NewInstance(comp, parent, pvnode) ==
  [comp |-> comp, parent |-> parent, pvnode |-> pvnode, vnode |-> 0, el |-> 0,
   children |-> <<>>, refs |-> <<>>, provided |-> <<>>, watcher |-> 0, inactive |-> "null",
   directInactive |-> FALSE, mounted |-> FALSE, destroyed |-> FALSE, being |-> FALSE,
   effects |-> <<>>, data |-> 0, props |-> 0, inj |-> 0, computed |-> <<>>, propsData |-> <<>>,
   renderCh |-> <<>>, hasCh |-> FALSE, slots |-> <<>>, scoped |-> NoScoped, listeners |-> <<>>,
   events |-> <<>>, statics |-> <<>>, cache |-> <<>>, keys |-> <<>>, toCache |-> <<>>,
   leaving |-> FALSE, delayedLeave |-> 0]

-----------------------------------------------------------------------------
\* Events

\* add$1, vue.js:2696-2714: listeners the parent's template attaches
UpdateComponentListeners(s, vm, on, oldOn) ==
  LET u == UpdateListeners(s, on, oldOn, vm)
  IN [u.s EXCEPT !.vm[vm].listeners = u.on,
                 !.vm[vm].events = Relisten(@, Gone(on, oldOn), u.add)]

\* $on, vue.js:2719-2735
On(s, vm, ev, fn) ==
  LET c == CreateFnInvoker(s, <<fn>>, vm)
  IN [c.s EXCEPT !.vm[vm].events =
        (ev :> Append(ListenersOf(@, ev), [fn |-> c.inv, once |-> "", at |-> 0])) @@ @]

\* $off, vue.js:2746-2780: one handler, or all of them
Off(s, vm, ev, l) == [s EXCEPT !.vm[vm].events[ev] = SelectSeq(@, LAMBDA x : x # l)]
OffAll(s, vm) == [s EXCEPT !.vm[vm].events = <<>>]

\* invoker, vue.js:1530-1542: each function with its own error handling
CallInvoker(s, inv, args) ==
  Each(LAMBDA t, fn : InvokeWithErrorHandling(t, fn, args, s.fn[inv].vm), s, s.fn[inv].fns)

\* $emit, vue.js:2781-2803: over a copy of the handlers; one for once goes after its call
EmitEvent(s, vm, ev, args) ==
  LET one(t, l) ==
        LET u == CallInvoker(t, l.fn, args)
        IN IF l.once = "" \/ ev \notin DOMAIN u.vm[vm].events THEN u ELSE Off(u, vm, ev, l)
  IN Each(one, s, ListenersOf(s.vm[vm].events, ev))

\* callHook$1, vue.js:3210-3232: untracked, each handler with its own error handling
CallHook(s, vm, hook) ==
  LET bodies == HookOf(OptionsOf(s, vm).hooks, hook)
      one(t, body) == InvokeWithErrorHandling(t, <<"fn", body, Env(vm)>>, <<>>, vm)
      t == Each(one, PushTarget(s, NoWatcher), bodies)
  IN PopTarget(EmitEvent(t, vm, "hook:" \o hook, <<>>))

-----------------------------------------------------------------------------
\* State

\* getPropDefaultValue, vue.js:5629-5656: an earlier default is kept
PropDefault(s, vm, name) ==
  LET prop == OptionsOf(s, vm).props[2][name]
      r == s.vm[vm]
      kept == At(s.obj[r.props].val, name)
  IN IF ~prop.hasDefault THEN [s |-> s, v |-> Undefined]
     ELSE IF At(r.propsData, name) = Undefined /\ kept # Undefined THEN [s |-> s, v |-> kept]
     ELSE Eval(s, Env(vm), prop.default)

\* validateProp, vue.js:5592-5625: a default is observed, a value that was handed
\* down is not
ValidateProp(s, vm, name, propsData) ==
  LET v == CastBoolean(name, OptionsOf(s, vm).props[2][name], name \notin DOMAIN propsData, At(propsData, name))
      d == PropDefault(s, vm, name)
      o == Observe([d.s EXCEPT !.shouldObserve = TRUE], d.v)
  IN IF v # Undefined THEN [s |-> s, v |-> v]
     ELSE [s |-> [o EXCEPT !.shouldObserve = s.shouldObserve], v |-> d.v]

\* initProps$1, vue.js:4366-4407: shallow, and for a child without observing
InitProps(s, vm) ==
  LET t == NewObject([s EXCEPT !.shouldObserve = s.vm[vm].parent = 0], FALSE, <<>>)
      i == Len(t.obj)
      one(name, u) == LET r == ValidateProp(u, vm, name, u.vm[vm].propsData)
                      IN DefineReactive(r.s, i, name, r.v)
      start == [t EXCEPT !.obj[i].ob = TRUE, !.obj[i].shallow = TRUE, !.vm[vm].props = i]
  IN [EachOf(one, start, DOMAIN OptionsOf(s, vm).props[2]) EXCEPT !.shouldObserve = TRUE]

\* getData, vue.js:4440-4453: untracked; data that throws is empty
GetData(s, vm) ==
  LET d == EvalAll(PushTarget(s, NoWatcher), Env(vm), OptionsOf(s, vm).data)
  IN IF d.s.thrown THEN [s |-> PopTarget(HandleError(d.s, vm)), v |-> <<>>]
     ELSE [s |-> PopTarget(d.s), v |-> d.v]

\* initData, vue.js:4408-4439
InitData(s, vm) ==
  LET d == GetData(s, vm)
      t == NewObject(d.s, FALSE, d.v)
      i == Len(t.obj)
      u == Observe(t, <<"o", i>>)
  IN [u EXCEPT !.obj[i].vmCount = @ + 1, !.vm[vm].data = i]

\* initComputed$1, vue.js:4455-4488: a lazy watcher for each
InitComputed(s, vm) ==
  LET one(name, t) ==
        LET u == NewWatcher(t, vm, "computed", OptionsOf(s, vm).computed[name], <<>>, FALSE, FALSE)
        IN [u EXCEPT !.vm[vm].computed = (name :> Len(t.watcher) + 1) @@ @]
  IN EachOf(one, s, DOMAIN OptionsOf(s, vm).computed)

\* $watch, vue.js:4606-4623: an immediate callback is called untracked
Watch(s, vm, exp, cb, options) ==
  LET w == Len(s.watcher) + 1
      t == NewWatcher(s, vm, "user", exp, cb, options.deep, options.sync)
  IN IF ~options.immediate THEN t
     ELSE PopTarget(InvokeWithErrorHandling(PushTarget(t, NoWatcher), cb, <<t.watcher[w].value>>, vm))

\* createWatcher, vue.js:4571-4580: the handler is the name of a method
CreateWatcher(s, vm, h) == Watch(s, vm, h.exp, <<"method", vm, h.handler>>, h)

\* initWatch, vue.js:4558-4570: for each expression its handlers in turn
InitWatch(s, vm) ==
  LET watch == OptionsOf(s, vm).watch
  IN EachOf(LAMBDA name, t : Each(LAMBDA u, h : CreateWatcher(u, vm, h), t, watch[name]), s, DOMAIN watch)

\* initState, vue.js:4345-4365
InitState(s, vm) == InitWatch(InitComputed(InitData(InitProps(s, vm), vm), vm), vm)

\* initProvide, vue.js:4626-4644: added to what the parent provides
InitProvide(s, vm) ==
  LET r == EvalAll(s, Env(vm), OptionsOf(s, vm).provide)
  IN [r.s EXCEPT !.vm[vm].provided = r.v @@ @]

\* resolveInject, vue.js:4662-4688: what an ancestor provides under the name, or
\* the default; a name with neither is left out
ResolveInject(s, vm) ==
  LET inject == OptionsOf(s, vm).inject[2]
      provided == s.vm[vm].provided
      one(k, acc) ==
        LET d == Eval(acc.s, Env(vm), inject[k].default)
        IN CASE inject[k].from \in DOMAIN provided -> [acc EXCEPT !.v = (k :> provided[inject[k].from]) @@ @]
             [] inject[k].from \notin DOMAIN provided /\ inject[k].default # <<>> ->
                  [s |-> d.s, v |-> (k :> d.v) @@ acc.v]
             [] OTHER -> acc
  IN EachOf(one, [s |-> s, v |-> <<>>], DOMAIN inject)

\* initInjections, vue.js:4645-4661: reactive, not observed
InitInjections(s, vm) ==
  LET r == ResolveInject(s, vm)
      t == NewObject([r.s EXCEPT !.shouldObserve = FALSE], FALSE, <<>>)
      i == Len(t.obj)
      one(k, u) == DefineReactive(u, i, k, r.v[k])
  IN IF r.v = <<>> THEN s
     ELSE [EachOf(one, [t EXCEPT !.vm[vm].inj = i], DOMAIN r.v) EXCEPT !.shouldObserve = TRUE]

-----------------------------------------------------------------------------
\* initLifecycle, vue.js:2924-2930: abstract components are no parents
RECURSIVE RealParent(_, _)
RealParent(s, p) ==
  IF OptionsOf(s, p).abstract /\ s.vm[p].parent # 0 THEN RealParent(s, s.vm[p].parent) ELSE p

\* initLifecycle, vue.js:2921-2942
InitLifecycle(s, vm, comp, parent, pvnode) ==
  LET abstract == Options[comp].abstract
      p == IF parent = 0 \/ abstract THEN parent ELSE RealParent(s, parent)
      r == [NewInstance(comp, p, pvnode) EXCEPT
              !.provided = IF p = 0 THEN <<>> ELSE s.vm[p].provided]
      t == [s EXCEPT !.vm = Append(@, r)]
  IN IF p = 0 \/ abstract THEN t ELSE [t EXCEPT !.vm[p].children = Append(@, vm)]

\* initInternalComponent, vue.js:4749-4764: what the placeholder carries
InitInternalComponent(s, vm, pvnode) ==
  IF pvnode = 0 THEN s
  ELSE LET co == s.vn[pvnode].co
       IN [s EXCEPT !.vm[vm].propsData = co.props, !.vm[vm].renderCh = co.children,
                    !.vm[vm].hasCh = co.hasCh]

\* initRender, vue.js:2460-2492
InitRender(s, vm) ==
  LET r == s.vm[vm]
  IN IF r.pvnode = 0 THEN s
     ELSE NormalizeScoped([s EXCEPT !.vm[vm].slots =
                             ResolveSlots(s, r.renderCh, s.vn[r.pvnode].ctx)], vm)

\* _init, vue.js:4692-4747; the new instance is the last of vm
New(s, comp, parent, pvnode) ==
  LET vm == Len(s.vm) + 1
      s1 == InitInternalComponent(InitLifecycle(s, vm, comp, parent, pvnode), vm, pvnode)
      s2 == IF pvnode = 0 THEN s1
            ELSE UpdateComponentListeners(s1, vm, s1.vn[pvnode].co.listeners, <<>>)
      s3 == CallHook(InitRender(s2, vm), vm, "beforeCreate")
      s4 == InitProvide(InitState(InitInjections(s3, vm), vm), vm)
  IN CallHook(s4, vm, "created")

\* _update, vue.js:2968-2976: a parent that renders nothing but this instance
\* has its element
RECURSIVE UpdateWrappers(_, _)
UpdateWrappers(s, vm) ==
  LET r == s.vm[vm]
  IN IF r.pvnode = 0 \/ r.parent = 0 THEN s
     ELSE IF s.vm[r.parent].vnode # r.pvnode THEN s
     ELSE UpdateWrappers([s EXCEPT !.vm[r.parent].el = r.el], r.parent)

\* _update, vue.js:2944-2979
UpdateVm(s, vm, v) ==
  LET r == s.vm[vm]
      t == [s EXCEPT !.active = vm, !.vm[vm].vnode = v]
      u == IF r.vnode = 0 THEN Patch(t, r.el, 0, v) ELSE Patch(t, 0, r.vnode, v)
  IN UpdateWrappers([u EXCEPT !.active = s.active, !.vm[vm].el = u.vn[v].elm], vm)

\* mountComponent, vue.js:3063-3065
RenderAndPatch(s, vm) == LET r == Render(s, vm) IN UpdateVm(r.s, vm, r.v)

\* mountComponent, vue.js:3024-3097: a child is told mounted by the patch that inserts it
Mount(s, vm, el) ==
  LET t == CallHook([s EXCEPT !.vm[vm].el = el], vm, "beforeMount")
      u == NewWatcher(t, vm, "render", <<"render">>, <<>>, FALSE, FALSE)
  IN IF u.vm[vm].pvnode # 0 THEN u
     ELSE CallHook([u EXCEPT !.vm[vm].mounted = TRUE], vm, "mounted")

\* EffectScope.stop, vue.js:2858-2884
StopScope(s, vm) == Each(Teardown, s, s.vm[vm].effects)

Mut_DestroyKeepsWatchers(s, vm) ==
  LET r == s.vm[vm]
      s1 == [CallHook(s, vm, "beforeDestroy") EXCEPT !.vm[vm].being = TRUE]
      s2 == [s1 EXCEPT !.vm[vm].destroyed = TRUE]
      s3 == CallHook(Patch(s2, 0, s2.vm[vm].vnode, 0), vm, "destroyed")
  IN IF r.being THEN s ELSE OffAll(s3, vm)

\* $destroy, vue.js:2986-3022
DestroyInstance(s, vm) ==
  LET r == s.vm[vm]
      s1 == [CallHook(s, vm, "beforeDestroy") EXCEPT !.vm[vm].being = TRUE]
      s2 == IF r.parent = 0 \/ OptionsOf(s, vm).abstract THEN s1
            ELSE IF s1.vm[r.parent].being THEN s1
            ELSE [s1 EXCEPT !.vm[r.parent].children = SelectSeq(@, LAMBDA c : c # vm)]
      s3 == [StopScope(s2, vm) EXCEPT !.obj[r.data].vmCount = @ - 1, !.vm[vm].destroyed = TRUE]
      s4 == OffAll(CallHook(Patch(s3, 0, s3.vm[vm].vnode, 0), vm, "destroyed"), vm)
  IN IF r.being THEN s
     ELSE IF r.pvnode = 0 THEN s4 ELSE [s4 EXCEPT !.vn[r.pvnode].parent = 0]

-----------------------------------------------------------------------------
\* updateChildComponent, vue.js:3107-3118: slots that may have changed
NeedsForceUpdate(s, vm, pvnode) ==
  LET new == s.vn[pvnode].data
      old == s.vm[vm].scoped
      dynamic == \/ new.hasScoped /\ ~new.stable
                 \/ old.def /\ ~old.stable
                 \/ new.hasScoped /\ old.key # new.scopedKey
                 \/ ~new.hasScoped /\ old.key # <<>>
  IN s.vn[pvnode].co.hasCh \/ s.vm[vm].hasCh \/ dynamic

Mut_PropsOfFirstRender(s, vm, propsData) == [s EXCEPT !.vm[vm].propsData = propsData]

\* updateChildComponent, vue.js:3148-3160: through the props' setters
UpdateProps(s, vm, propsData) ==
  LET one(name, t) == LET r == ValidateProp(t, vm, name, propsData)
                      IN ReactiveSetter(r.s, s.vm[vm].props, name, r.v)
      t == EachOf(one, [s EXCEPT !.shouldObserve = FALSE], DOMAIN OptionsOf(s, vm).props[2])
  IN [t EXCEPT !.shouldObserve = TRUE, !.vm[vm].propsData = propsData]

\* updateChildComponent, vue.js:3098-3169
UpdateChildComponent(s, vm, pvnode) ==
  LET co == s.vn[pvnode].co
      force == NeedsForceUpdate(s, vm, pvnode)
      root == s.vm[vm].vnode
      s1 == [s EXCEPT !.vm[vm].pvnode = pvnode, !.vm[vm].renderCh = co.children, !.vm[vm].hasCh = co.hasCh]
      s2 == IF root = 0 THEN s1 ELSE [s1 EXCEPT !.vn[root].parent = pvnode]
      s3 == UpdateProps(UpdateComponentListeners(s2, vm, co.listeners, s.vm[vm].listeners), vm, co.props)
  IN IF ~force THEN s3
     ELSE ForceUpdate([s3 EXCEPT !.vm[vm].slots = ResolveSlots(s3, co.children, s.vn[pvnode].ctx)], vm)

-----------------------------------------------------------------------------
\* isInInactiveTree, vue.js:3170-3176
RECURSIVE InInactiveTree(_, _)
InInactiveTree(s, vm) ==
  LET p == s.vm[vm].parent IN p # 0 /\ (s.vm[p].inactive = "yes" \/ InInactiveTree(s, p))

\* activateChildComponent, vue.js:3177-3194: children first; one deactivated on
\* its own stays so
RECURSIVE ActivateTree(_, _)
ActivateTree(s, vm) ==
  LET t == Each(LAMBDA u, c : IF u.vm[c].directInactive THEN u ELSE ActivateTree(u, c),
                    [s EXCEPT !.vm[vm].inactive = "no"], s.vm[vm].children)
  IN IF s.vm[vm].inactive = "no" THEN s ELSE CallHook(t, vm, "activated")

\* activateChildComponent, vue.js:3177-3194
ActivateChildComponent(s, vm) ==
  LET t == [s EXCEPT !.vm[vm].directInactive = FALSE]
  IN IF InInactiveTree(t, vm) THEN t ELSE ActivateTree(t, vm)

\* deactivateChildComponent, vue.js:3195-3209
RECURSIVE DeactivateTree(_, _)
DeactivateTree(s, vm) ==
  LET t == Each(DeactivateTree, [s EXCEPT !.vm[vm].inactive = "yes"], s.vm[vm].children)
  IN IF s.vm[vm].inactive = "yes" THEN s ELSE CallHook(t, vm, "deactivated")

\* deactivateChildComponent, vue.js:3195-3209
DeactivateChildComponent(s, vm) ==
  LET t == [s EXCEPT !.vm[vm].directInactive = TRUE]
  IN IF InInactiveTree(t, vm) THEN t ELSE DeactivateTree(t, vm)
=============================================================================
