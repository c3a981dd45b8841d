----------------------------- MODULE VueRender ------------------------------
(***************************************************************************)
(* Rendering (vue.js): a render function, as the compiler generates it or  *)
(* a component brings it, is data, a Code; running it makes vnodes.  A     *)
(* Code is a record, its op the name of Vue's runtime helper: "c" creates  *)
(* an element, "v" a text, "e" an empty node, "l" a list, "t" a slot, "m"  *)
(* a static tree, "o" a v-once; "if" and "ch" (an array) are JavaScript.   *)
(* The result is a child item: <<"v", vnode>>, <<"l", items, from v-for>>  *)
(* or <<"u">>.  s.rendering is currentRenderingInstance; s.factory the     *)
(* asynchronous components.                                                *)
(*                                                                         *)
(* <keep-alive> (vue.js): the instances of components that are not shown,  *)
(* kept in the cache of its instance until they are pruned.                *)
(* s.vm[x].cache[key] is [tag, ci, name]; keys lists the keys, the least   *)
(* recently used first.                                                    *)
(***************************************************************************)
EXTENDS VueInstance

CONSTANTS ReservedTags,             \* isReservedTag: HTML's elements
          Factories,                \* the asynchronous components: name -> what the factory returns
          TransitionRender(_, _)    \* the render function of <transition>

-----------------------------------------------------------------------------
\* <keep-alive>

KeepAliveOptions ==
  [NoComponent EXCEPT !.abstract = TRUE,
     !.props = <<"array", <<"include", "exclude", "max">>>>,
     !.hooks = [mounted   |-> <<<<<<"vue", "cacheVNode">>, <<"vue", "watchPatterns">>>>>>,
                updated   |-> <<<<<<"vue", "cacheVNode">>>>>>,
                destroyed |-> <<<<<<"vue", "pruneAll">>>>>>]]

\* matches, vue.js:5945-5957: an array of names, or one name
Matches(s, pattern, name) ==
  IF IsArrayValue(s, pattern) THEN \E i \in DOMAIN s.obj[pattern[2]].val : s.obj[pattern[2]].val[i] = Str(name)
  ELSE pattern = Str(name)

Mut_PruneKeepsInstance(s, vm, key, current) ==
  [s EXCEPT !.vm[vm].cache = Without(@, {key}), !.vm[vm].keys = SelectSeq(@, LAMBDA k : k # key)]

\* pruneCacheEntry, vue.js:5971-5979: destroyed unless one of its kind is shown now
PruneCacheEntry(s, vm, key, current) ==
  LET t == IF key \notin DOMAIN s.vm[vm].cache THEN s
           ELSE LET entry == s.vm[vm].cache[key]
                IN IF current # 0 /\ entry.tag = s.vn[current].tag THEN s ELSE Destroy(s, entry.ci)
  IN [t EXCEPT !.vm[vm].cache = Without(@, {key}), !.vm[vm].keys = SelectSeq(@, LAMBDA k : k # key)]

\* pruneCache, vue.js:5958-5970: after include or exclude changed, with the
\* keys the filter refuses; the children of its placeholder are forgotten
PruneCache(s, vm, refused) ==
  LET t == EachOf(LAMBDA key, u : PruneCacheEntry(u, vm, key, u.vm[vm].vnode), s, refused)
  IN [t EXCEPT !.vn[s.vm[vm].pvnode].co.hasCh = FALSE]

\* destroyed, vue.js:6013-6017
PruneAll(s, vm) ==
  EachOf(LAMBDA key, t : PruneCacheEntry(t, vm, key, 0), s, DOMAIN s.vm[vm].cache)

\* cacheVNode, vue.js:5991-6007: what render wanted cached, now that it has an
\* instance; beyond max the oldest goes
CacheVNode(s, vm) ==
  LET c == s.vm[vm].toCache
      n == s.vn[c[2]]
      t == [s EXCEPT !.vm[vm].cache = (c[1] :> [tag |-> n.tag, ci |-> n.ci, name |-> n.co.comp]) @@ @,
                     !.vm[vm].keys = Append(@, c[1]), !.vm[vm].toCache = <<>>]
      max == ReadVar(t, vm, "max").v
      keys == t.vm[vm].keys
  IN IF c = <<>> THEN s
     ELSE IF max # Undefined /\ Len(keys) > max[2] THEN PruneCacheEntry(t, vm, keys[1], t.vm[vm].vnode)
     ELSE t

\* mounted, vue.js:6018-6027
WatchPatterns(s, vm) ==
  LET one(t, name) == NewWatcher(t, vm, "user", <<"var", name>>, <<"prune", vm, name>>, FALSE, FALSE)
  IN Each(one, s, <<"include", "exclude">>)

\* the callbacks of these watchers, vue.js:6021-6026
PruneBy(s, vm, name, val) ==
  LET cache == s.vm[vm].cache
  IN PruneCache(s, vm, {key \in DOMAIN cache : Matches(s, val, cache[key].name) <=> (name # "include")})

\* render, vue.js:6031-6068: the first component of the slot, with the cached
\* instance; a pattern may exempt it
KeepAliveRender(s, vm) ==
  LET slot == IF "default" \in DOMAIN s.vm[vm].slots THEN s.vm[vm].slots["default"] ELSE <<>>
      v == FirstComponentChild(s, slot)
      n == s.vn[v]
      name == n.co.comp
      inc == ReadVar(s, vm, "include")
      exc == ReadVar(inc.s, vm, "exclude")
      t == exc.s
      exempt == \/ inc.v # Undefined /\ ~Matches(t, inc.v, name)
                \/ exc.v # Undefined /\ Matches(t, exc.v, name)
      key == IF IsDefKey(n.key) THEN n.key ELSE <<"cid", name>>
      hit == key \in DOMAIN t.vm[vm].cache
      kept == IF hit THEN [t EXCEPT !.vn[v].ci = t.vm[vm].cache[key].ci,
                             !.vm[vm].keys = Append(SelectSeq(@, LAMBDA k : k # key), key)]
              ELSE [t EXCEPT !.vm[vm].toCache = <<key, v>>]
  IN IF slot = <<>> THEN [s |-> s, it |-> <<"u">>]
     ELSE IF v = 0 THEN [s |-> s, it |-> <<"v", slot[1]>>]
     ELSE IF name = "" THEN [s |-> s, it |-> <<"v", v>>]
     ELSE IF exempt THEN [s |-> t, it |-> <<"v", v>>]
     ELSE [s |-> [kept EXCEPT !.vn[v].data.keepAlive = TRUE], it |-> <<"v", v>>]

-----------------------------------------------------------------------------

NoItem == <<"u">>
ItemsOf(vs) == <<"l", [i \in DOMAIN vs |-> <<"v", vs[i]>>], FALSE>>

-----------------------------------------------------------------------------
\* stringifyClass, vue.js:6204-6216: a string, an array or an object of conditions
RECURSIVE ClassesOf(_, _)
ClassesOf(s, v) ==
  LET o == s.obj[v[2]].val IN
  CASE v[1] = "s" /\ v[2] # "" -> <<v[2]>>
    [] IsArrayValue(s, v) -> FlattenSeq([i \in DOMAIN o |-> ClassesOf(s, o[i])])
    [] IsObject(v) /\ ~IsArrayValue(s, v) -> SetToSeq({k \in DOMAIN o : Truthy(o[k])})
    [] OTHER -> <<>>

\* getStyle, vue.js:8213-8238: the style binding over the static one
StyleOf(s, static, v) ==
  IF IsObject(v) THEN [k \in {k \in DOMAIN s.obj[v[2]].val : Truthy(s.obj[v[2]].val[k])} |->
                         s.obj[v[2]].val[k]] @@ static
  ELSE static

\* bind$1 and the closures of a template: the function a handler stands for
Closure(env, h) ==
  LET fn == IF h.kind = "method" THEN <<"method", env.vm, h.name>> ELSE <<"fn", h.body, env>>
  IN IF h.mods = <<>> THEN fn ELSE <<"guard", h.mods, fn>>

Listeners(env, on) ==
  [ev \in DOMAIN on |-> [fns |-> [i \in DOMAIN on[ev].handlers |-> Closure(env, on[ev].handlers[i])],
                         inv |-> 0, once |-> on[ev].once]]

\* bindObjectProps, vue.js:1977-2016: v-bind="object" does not replace what is there
BindObjectProps(s, attrs, v) ==
  IF ~IsObject(v) THEN attrs ELSE attrs @@ s.obj[v[2]].val

OptionalEval(s, env, e) == IF e = <<>> THEN [s |-> s, v |-> Undefined] ELSE Eval(s, env, e)

Directives(s, env, dirs) ==
  LET one(acc, d) == LET r == OptionalEval(acc.s, env, d.exp)
                     IN [s |-> r.s, v |-> Append(acc.v, [name |-> d.name, value |-> r.v, mods |-> d.mods])]
  IN Each(one, [s |-> s, v |-> <<>>], dirs)

\* resolveScopedSlots, vue.js:2078-2101: a slot whose v-if is false is not there
ScopedSlots(s, env, slots) ==
  LET one(acc, f) ==
        LET c == OptionalEval(acc.s, env, f.cond)
            k == Eval(c.s, env, f.key)
            fn == [kind |-> "fn", env |-> env, alias |-> f.alias, body |-> f.body]
        IN IF f.cond # <<>> /\ ~Truthy(c.v) THEN [s |-> c.s, v |-> acc.v]
           ELSE [s |-> k.s, v |-> (TextOf(k.v) :> fn) @@ acc.v]
  IN Each(one, [s |-> s, v |-> <<>>], slots)

\* the data object of a template's element; registerDeepBindings, vue.js:1855-1862
\* touches all of :class and :style
Data(s, env, d) ==
  LET key == OptionalEval(s, env, d.key)
      slot == OptionalEval(key.s, env, d.slot)
      attrs == EvalAll(slot.s, env, d.attrs)
      props == EvalAll(attrs.s, env, d.domProps)
      cls == OptionalEval(props.s, env, d.class)
      style == OptionalEval(cls.s, env, d.style)
      deep == Traverse(Traverse(style.s, style.v, {}), cls.v, {})
      obj == OptionalEval(deep, env, d.obj)
      dirs == Directives(obj.s, env, d.dirs)
      scoped == ScopedSlots(dirs.s, env, d.scoped)
      model == OptionalEval(scoped.s, env, IF d.model = <<>> THEN <<>> ELSE d.model[1])
  IN IF ~d.def THEN [s |-> s, v |-> NoData]
     ELSE [s |-> model.s, v |-> [EmptyData EXCEPT
             !.key = key.v, !.slot = TextOf(slot.v), !.attrs = BindObjectProps(obj.s, attrs.v, obj.v),
             !.domProps = props.v, !.cls = d.staticClass \o ClassesOf(deep, cls.v),
             !.style = StyleOf(deep, d.staticStyle, style.v),
             !.on = Listeners(env, d.on), !.nativeOn = Listeners(env, d.nativeOn),
             !.dirs = dirs.v, !.ref = d.ref, !.refInFor = d.refInFor,
             !.scoped = scoped.v, !.hasScoped = d.hasScoped, !.stable = ~d.dynamicSlots,
             !.scopedKey = d.slotKey, !.pre = d.pre,
             !.model = IF d.model = <<>> THEN <<>> ELSE <<model.v, Closure(env, d.model[2])>>]]

-----------------------------------------------------------------------------
RECURSIVE RunCode(_, _, _)

\* the items of an array of codes
RunAll(s, env, codes) ==
  Each(LAMBDA acc, c : LET r == RunCode(acc.s, env, c) IN [s |-> r.s, its |-> Append(acc.its, r.it)],
           [s |-> s, its |-> <<>>], codes)

\* resolveAsyncComponent, vue.js:2571-2580: whom to tell when it is there
AskFor(s, name, vm) ==
  LET f == s.factory[name] IN
  IF f.asked
  THEN IF Contains(f.owners, vm) THEN s ELSE [s EXCEPT !.factory[name].owners = Append(@, vm)]
  ELSE On([s EXCEPT !.factory[name] = [@ EXCEPT
             !.asked = TRUE, !.owners = <<vm>>, !.errorComp = Factories[name].error,
             !.loadingComp = Factories[name].loading,
             !.loading = Factories[name].loading # "" /\ Factories[name].delay = 0,
             !.timers = (IF Factories[name].loading # "" /\ Factories[name].delay > 0 THEN {"loading"} ELSE {})
                        \cup (IF Factories[name].timeout THEN {"timeout"} ELSE {})]],
           vm, "hook:destroyed", <<"asyncGone", name, vm>>)

\* resolveAsyncComponent, vue.js:2573-2674: the component to show now, "" for
\* the placeholder
AsyncComponent(s, name) ==
  LET f == s.factory[name]
      t == AskFor(s, name, s.rendering)
      g == t.factory[name]
  IN CASE f.error /\ f.errorComp # "" -> [s |-> s, comp |-> f.errorComp]
       [] ~(f.error /\ f.errorComp # "") /\ f.resolved # "" -> [s |-> s, comp |-> f.resolved]
       [] OTHER -> [s |-> t, comp |-> IF g.loading /\ g.loadingComp # "" THEN g.loadingComp ELSE ""]

\* forceRender, vue.js:2594-2609: all who asked; once it is settled for good
\* they are forgotten and the timers stopped
ForceRender(s, name, completed) ==
  LET t == Each(ForceUpdate, s, s.factory[name].owners)
  IN IF completed THEN [t EXCEPT !.factory[name].owners = <<>>, !.factory[name].timers = {}] ELSE t

Mut_ResolveTellsNobody(s, name) == [s EXCEPT !.factory[name].resolved = Factories[name].comp]

\* resolve, vue.js:2610-2621
AsyncResolve(s, name) ==
  ForceRender([s EXCEPT !.factory[name].resolved = Factories[name].comp], name, TRUE)

\* reject, vue.js:2622-2629
AsyncReject(s, name) ==
  IF s.factory[name].errorComp = "" THEN s
  ELSE ForceRender([s EXCEPT !.factory[name].error = TRUE], name, TRUE)

\* the timers, vue.js:2650-2667
AsyncTimer(s, name, timer) ==
  LET t == [s EXCEPT !.factory[name].timers = @ \ {timer}]
      f == s.factory[name]
  IN CASE timer = "loading" /\ f.resolved = "" /\ ~f.error ->
            ForceRender([t EXCEPT !.factory[name].loading = TRUE], name, FALSE)
       [] timer = "timeout" /\ f.resolved = "" -> AsyncReject(t, name)
       [] OTHER -> t

\* createAsyncPlaceholder, vue.js:2567-2572
AsyncPlaceholder(s, name) ==
  NewVNode(s, [VNode EXCEPT !.text = <<>>, !.isComment = TRUE, !.factory = name])

\* normalizeScopedSlots, vue.js:2194-2239, with proxyNormalSlot, vue.js:2269-2271
NormalizeScopedSlots(data, normal, prev, pvnode) ==
  LET proxied == [k \in DOMAIN normal |-> [kind |-> "normal", nodes |-> normal[k]]]
      hasNormal == DOMAIN normal # {}
      stable == IF data.hasScoped THEN data.stable ELSE ~hasNormal
      res == [def |-> TRUE, fns |-> data.scoped @@ proxied, stable |-> stable,
              key |-> data.scopedKey, hasNormal |-> hasNormal, of |-> pvnode]
  IN CASE data.hasScoped /\ prev.of = pvnode -> prev
       [] data.hasScoped /\ prev.of # pvnode /\ stable /\ prev.def /\ data.scopedKey = prev.key
          /\ ~hasNormal /\ ~prev.hasNormal -> prev
       [] OTHER -> res

\* _render, vue.js:2503-2508, and initRender, vue.js:2467-2469
NormalizeOf(s, vm) ==
  LET p == s.vm[vm].pvnode
  IN [s EXCEPT !.vm[vm].scoped = NormalizeScopedSlots(s.vn[p].data, s.vm[vm].slots, @, p)]

\* FunctionalRenderContext, vue.js:4802-4863: props and slots as they are now, in
\* the place of an instance
FunctionalContext(s, env, comp, props, data, children) ==
  LET normal == ResolveSlots(s, children, env.vm)
      slots == NormalizeScopedSlots(data, normal, NoScoped, -1).fns
  IN [vm |-> env.vm, loc |-> ("$slots" :> slots) @@ ("$comp" :> comp) @@ props]

\* cloneAndMarkFunctionalResult, vue.js:4894-4909: a copy, in the slot of the placeholder
CloneFunctional(s, data, v) ==
  LET c == CloneVNode(s, v)
  IN [c EXCEPT !.s.vn[c.v].data.slot = IF data.slot = "" THEN @ ELSE data.slot]

\* createFunctionalComponent, vue.js:4865-4893: no instance; props and slots
\* are its variables, and what it renders is a copy
CreateFunctional(s, env, comp, propsData, data, children) ==
  LET decl == Options[comp].props[2]
      prop(k) == CastBoolean(k, decl[k], k \notin DOMAIN propsData, At(propsData, k))
      props == [k \in DOMAIN decl |-> prop(k)]
      r == RunCode(s, FunctionalContext(s, env, comp, props, data, children), Options[comp].render)
      nodes == IF r.it[1] = "l" THEN NormalizeArrayChildren(r.s, r.it[2], FALSE, <<>>)
               ELSE [s |-> r.s, out |-> IF r.it[1] = "v" THEN <<r.it[2]>> ELSE <<>>]
      copy(acc, v) == LET c == CloneFunctional(acc.s, data, v)
                      IN [s |-> c.s, out |-> Append(acc.out, c.v)]
      copies == Each(copy, [s |-> nodes.s, out |-> <<>>], nodes.out)
  IN [s |-> copies.s, it |-> CASE r.it[1] = "l" -> ItemsOf(copies.out)
                               [] r.it[1] = "v" -> <<"v", copies.out[1]>>
                               [] OTHER -> NoItem]

\* installComponentHooks, vue.js:5070-5081: before what the data brings itself
InstallComponentHooks(data) == [data EXCEPT !.hook = <<"component">> \o @]

\* createComponent, vue.js:4976-5051: the placeholder with props, listeners
\* and children; an abstract component keeps nothing else
CreateComponent(s, env, comp, data0, children, hasCh) ==
  LET o == Options[comp]
      data == TransformModel(o.model, [data0 EXCEPT !.def = TRUE])
      x == ExtractProps(o.props[2], data.attrs)
      kept == IF o.abstract THEN [EmptyData EXCEPT !.slot = data.slot]
              ELSE [data EXCEPT !.attrs = x.attrs, !.on = data.nativeOn, !.nativeOn = <<>>]
      n == NewVNode(s, [VNode EXCEPT
             !.tag = "vue-component-" \o comp, !.key = data.key, !.ctx = env.vm,
             !.data = InstallComponentHooks(kept),
             !.co = [comp |-> comp, props |-> x.props, listeners |-> data.on,
                     children |-> children, hasCh |-> hasCh]])
  IN IF o.functional THEN CreateFunctional(s, env, comp, x.props, [data EXCEPT !.attrs = x.attrs], children)
     ELSE [s |-> n.s, it |-> <<"v", n.v>>]

\* createComponent, vue.js:4993-5005: an asynchronous one may still be on its way
CreateAsync(s, env, name, data, children, hasCh) ==
  LET a == AsyncComponent(s, name)
      p == AsyncPlaceholder(a.s, name)
  IN IF a.comp = "" THEN [s |-> p.s, it |-> <<"v", p.v>>]
     ELSE CreateComponent(a.s, env, a.comp, data, children, hasCh)

\* _createElement, vue.js:1762-1834: an element of the platform, a registered
\* component, or an element nobody knows; inside v-pre there are no components
CreateElement(s, env, tag, data, its, hasCh, norm) ==
  LET ch == Children(s, its, norm)
      asset == IF data.pre THEN "" ELSE ResolveAsset(OptionsOf(s, env.vm).components, tag)
      n == NewVNode(ch.s, [VNode EXCEPT !.tag = tag, !.data = data, !.key = data.key,
                                        !.hasCh = hasCh, !.ch = ch.out, !.ctx = env.vm])
      e == CreateEmptyVNode(s)
  IN CASE tag = "" -> [s |-> e.s, it |-> <<"v", e.v>>]
       [] tag # "" /\ (tag \in ReservedTags \/ asset = "") -> [s |-> n.s, it |-> <<"v", n.v>>]
       [] OTHER -> IF asset \in DOMAIN Factories THEN CreateAsync(ch.s, env, asset, data, ch.out, hasCh)
                   ELSE CreateComponent(ch.s, env, asset, data, ch.out, hasCh)

\* renderList, vue.js:1867-1905: over an array, 1 to a number, or the keys of an object,
\* with the index or the key
RenderList(s, env, c) ==
  LET r == Eval(s, env, c.exp)
      o == r.s.obj[r.v[2]].val
      keys == CASE r.v[1] = "n" -> [i \in 1 .. r.v[2] |-> i]
                [] IsArrayValue(r.s, r.v) -> [i \in DOMAIN o |-> i]
                [] IsObject(r.v) /\ ~IsArrayValue(r.s, r.v) -> SetToSeq(DOMAIN o)
                [] OTHER -> <<>>
      value(t, k) == CASE r.v[1] = "n" -> [s |-> t, v |-> Num(k)]
                       [] IsArrayValue(t, r.v) -> [s |-> t, v |-> o[k]]
                       [] OTHER -> ReactiveGetter(t, r.v[2], k)
      one(acc, i) ==
        LET x == value(acc.s, keys[i])
            second == IF r.v[1] = "n" \/ IsArrayValue(x.s, r.v) THEN Num(i - 1) ELSE Str(keys[i])
            it == RunCode(x.s, [env EXCEPT !.loc = (c.alias :> x.v) @@ (c.it :> second) @@ @], c.body)
        IN [s |-> it.s, its |-> Append(acc.its, it.it)]
      all == FoldLeftDomain(one, [s |-> r.s, its |-> <<>>], keys)
  IN IF r.s.thrown THEN [s |-> r.s, it |-> NoItem] ELSE [s |-> all.s, it |-> <<"l", all.its, TRUE>>]

\* normalizeScopedSlot, vue.js:2240-2268: nothing and a lone comment count as absent
CallSlot(s, fn, props) ==
  LET o == NewValue(s, FALSE, props)
      loc == CASE fn.alias = ""   -> <<>>
               [] fn.alias = "{}" -> props
               [] OTHER           -> fn.alias :> o.v
      r == RunCode(o.s, [fn.env EXCEPT !.loc = loc @@ @], fn.body)
      n == CASE r.it[1] = "v" -> [s |-> r.s, out |-> <<r.it[2]>>]
             [] r.it[1] = "l" -> NormalizeArrayChildren(r.s, r.it[2], FALSE, <<>>)
             [] OTHER -> [s |-> r.s, out |-> <<>>]
      absent == n.out = <<>> \/ (Len(n.out) = 1 /\ n.s.vn[n.out[1]].isComment
                                 /\ n.s.vn[n.out[1]].factory = "")
  IN IF fn.kind = "normal" THEN [s |-> s, it |-> ItemsOf(fn.nodes)]
     ELSE [s |-> n.s, it |-> IF absent THEN NoItem ELSE ItemsOf(n.out)]

\* renderSlot, vue.js:1910-1938: the slot's content, else the fallback; with a
\* slot attribute it is handed on to a slot of the component around it
RenderSlot(s, env, c) ==
  LET slots == IF "$slots" \in DOMAIN env.loc THEN env.loc["$slots"] ELSE s.vm[env.vm].scoped.fns
      normal == IF "$slots" \in DOMAIN env.loc THEN <<>> ELSE s.vm[env.vm].slots
      given == Eval(s, env, c.name)
      name == TextOf(given.v)
      props == EvalAll(given.s, env, c.props)
      filled == CASE name \in DOMAIN slots -> CallSlot(props.s, slots[name], props.v)
                  [] name \notin DOMAIN slots /\ name \in DOMAIN normal ->
                       [s |-> props.s, it |-> ItemsOf(normal[name])]
                  [] OTHER -> [s |-> props.s, it |-> NoItem]
      fallback == RunAll(filled.s, env, c.fallback)
      nodes == IF filled.it # NoItem \/ c.fallback = <<>> THEN filled
               ELSE [s |-> fallback.s, it |-> <<"l", fallback.its, FALSE>>]
  IN IF "slot" \notin DOMAIN props.v THEN nodes
     ELSE CreateElement(nodes.s, env, "template", [EmptyData EXCEPT !.slot = TextOf(props.v["slot"])],
                        <<nodes.it>>, TRUE, 2)

ItemNodes(it) == CASE it[1] = "v" -> <<it[2]>>
                   [] it[1] = "l" -> SimpleNormalizeChildren(it[2])
                   [] OTHER -> <<>>

\* renderStatic, vue.js:2021-2034: rendered once, in a v-for once for each item
RenderStatic(s, env, c) ==
  LET functional == "$comp" \in DOMAIN env.loc
      o == IF functional THEN Options[env.loc["$comp"]] ELSE OptionsOf(s, env.vm)
      r == RunCode(s, Env(env.vm), o.statics[c.i])
      t == MarkStatic(r.s, ItemNodes(r.it), <<"static", c.i>>, FALSE)
      cached == s.vm[env.vm].statics
  IN IF ~functional /\ c.i \in DOMAIN cached /\ ~c.inFor THEN [s |-> s, it |-> cached[c.i]]
     ELSE [s |-> IF functional THEN t ELSE [t EXCEPT !.vm[env.vm].statics = (c.i :> r.it) @@ @],
           it |-> r.it]

\* markOnce, vue.js:2039-2042: v-once inside a v-for
RenderOnce(s, env, c) ==
  LET r == RunCode(s, env, c.node)
      k == OptionalEval(r.s, env, c.key)
  IN [s |-> MarkStatic(k.s, ItemNodes(r.it), <<"once", c.id, k.v>>, TRUE), it |-> r.it]

\* installRenderHelpers, vue.js:2124-2142: by the helper's letter
RunCode(s, env, c) ==
  LET text == EvalAll(s, env, c.parts)
      t == CreateTextVNode(text.s, text.v)
      e == CreateEmptyVNode(s)
      cond == Eval(s, env, c.c)
      tag == Eval(s, env, c.tag)
      data == Data(tag.s, env, c.data)
      run == RunAll(data.s, env, c.ch)
      \* a lone v-for: its list is the children
      ch == IF ~run.s.thrown /\ c.norm # 2 /\ Len(c.ch) = 1 /\ run.its[1][1] = "l"
            THEN [run EXCEPT !.its = run.its[1][2]] ELSE run
      all == RunAll(s, env, c.list)
  IN CASE s.thrown   -> [s |-> s, it |-> NoItem]
       [] OTHER ->
     CASE c.op = "c"  -> CreateElement(ch.s, env, TextOf(tag.v), data.v, ch.its, c.ch # <<>>, c.norm)
       [] c.op = "v"  -> [s |-> t.s, it |-> <<"v", t.v>>]
       [] c.op = "e"  -> [s |-> e.s, it |-> <<"v", e.v>>]
       [] c.op = "if" -> RunCode(cond.s, env, IF Truthy(cond.v) THEN c.a ELSE c.b)
       [] c.op = "l"  -> RenderList(s, env, c)
       [] c.op = "t"  -> RenderSlot(s, env, c)
       [] c.op = "m"  -> RenderStatic(s, env, c)
       [] c.op = "o"  -> RenderOnce(s, env, c)
       [] c.op = "ch" -> [s |-> all.s, it |-> <<"l", all.its, FALSE>>]
       [] c.op = "keep-alive" -> KeepAliveRender(s, env.vm)
       [] c.op = "transition" -> TransitionRender(s, env.vm)
       [] OTHER       -> [s |-> s, it |-> NoItem]

\* _render, vue.js:2500-2558: what it rendered last when the render function
\* throws, an empty node for no root or several
RenderVm(s, vm) ==
  LET n == IF s.vm[vm].pvnode # 0 /\ s.vm[vm].mounted THEN NormalizeOf(s, vm) ELSE s
      r == RunCode([n EXCEPT !.rendering = vm], Env(vm), OptionsOf(s, vm).render)
      t == IF r.s.thrown THEN HandleError(r.s, vm) ELSE r.s
      e == CreateEmptyVNode(t)
      one == CASE r.s.thrown -> IF s.vm[vm].vnode = 0 THEN <<>> ELSE <<s.vm[vm].vnode>>
               [] OTHER -> ItemNodes(r.it)
      v == IF Len(one) = 1 THEN one[1] ELSE e.v
      u == IF Len(one) = 1 THEN t ELSE e.s
  IN [s |-> [u EXCEPT !.rendering = s.rendering, !.vn[v].parent = s.vm[vm].pvnode], v |-> v]
=============================================================================
