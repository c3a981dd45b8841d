----------------------------- MODULE VueWatcher -----------------------------
(***************************************************************************)
(* Vue's reactive data, the lower half of vue.js: Dep, Observer,           *)
(* defineReactive, set, del, the patched array methods, and the watcher's  *)
(* book-keeping of its dependencies.                                       *)
(*                                                                         *)
(* Everything here runs inside one turn of the JavaScript thread, so the   *)
(* operators take the runtime's state s and return the next one; the       *)
(* actions of VueApp are built from them.  The parts of s used here:       *)
(*   s.obj[i]      an object or array: isArray, val (function or sequence),*)
(*                 re (keys with a getter/setter), ob (has an __ob__),     *)
(*                 shallow (values not observed: props), vmCount           *)
(*   s.subs[d]     the watchers subscribed to dep d, NoWatcher where one   *)
(*                 was removed and the hole is not closed yet              *)
(*   s.unclean     pendingCleanupDeps                                      *)
(*   s.watcher[w]  deps, newDeps, active, lazy, dirty ... of a watcher     *)
(*   s.targets     targetStack                                             *)
(* A value is <<"n", number>>, <<"s", string>>, <<"o", index into obj>> or *)
(* Undefined.  The dep of property k of object i is <<i, k>>, the dep of   *)
(* the object's own __ob__ is <<i, "__ob__">>.                             *)
(*                                                                         *)
(* Watchers and computed values (vue.js), and the application's own        *)
(* JavaScript: the expressions of a template or a computed value and the   *)
(* statements of a handler, a method or a hook, as data.                   *)
(*                                                                         *)
(* An expression is a tuple, <<"var", name>>, <<"dot", e, key>>, ...; it   *)
(* is evaluated in an env = [vm, loc], the instance and the variables in   *)
(* scope (v-for, slot props, arguments).  Evaluating may change the state, *)
(* since it tracks dependencies, so it returns [s, v].  A statement is a   *)
(* tuple, a body a sequence of them.  A function is <<"fn", body, env>>,   *)
(* <<"method", vm, name>> or one of Vue's own (Builtin).  s.thrown: an     *)
(* exception is on its way; until it is caught nothing is evaluated.       *)
(* s.errors counts those that reached the global handler.                  *)
(***************************************************************************)
EXTENDS VueDom

CONSTANT Update(_, _)       \* Watcher.update, defined where watchers can run

Undefined == <<"u">>
NoWatcher == 0
IsObject(v) == v[1] = "o"
IsArrayValue(s, v) == IsObject(v) /\ s.obj[v[2]].isArray
HasOb(s, v) == IsObject(v) /\ s.obj[v[2]].ob

-----------------------------------------------------------------------------
\* Dep

\* Dep, vue.js:779-785: without subscribers at first
SubsOf(s, d) == IF d \in DOMAIN s.subs THEN s.subs[d] ELSE <<>>

\* Dep.addSub, vue.js:786-788
AddSub(s, d, w) == [s EXCEPT !.subs = (d :> Append(SubsOf(s, d), w)) @@ @]

Present(subs) == SelectSeq(subs, LAMBDA w : w # NoWatcher)

\* Dep.removeSub, vue.js:789-799: leaves a hole that the next flush closes
RemoveSub(s, d, w) ==
  LET at == SelectInSeq(SubsOf(s, d), LAMBDA x : x = w)
  IN [s EXCEPT !.subs = IF at = 0 THEN @ ELSE [@ EXCEPT ![d][at] = NoWatcher],
               !.unclean = @ \cup {d}]

\* cleanupDeps, vue.js:766-773
CleanupPending(s) ==
  [s EXCEPT !.subs = [d \in DOMAIN @ |->
                        IF d \in s.unclean THEN Present(@[d]) ELSE @[d]],
            !.unclean = {}]

\* Dep.notify, vue.js:808-825: over a copy of the subscribers without the holes
Notify(s, d) == Each(Update, s, Present(SubsOf(s, d)))

\* pushTarget, vue.js:833-836
PushTarget(s, w) == [s EXCEPT !.targets = Append(@, w)]

\* popTarget, vue.js:837-840
PopTarget(s) == [s EXCEPT !.targets = Front(@)]

Target(s) == IF s.targets = <<>> THEN NoWatcher ELSE Last(s.targets)

\* Watcher.addDep, vue.js:4220-4229
AddDep(s, w, d) ==
  IF Contains(s.watcher[w].newDeps, d) THEN s
  ELSE LET t == [s EXCEPT !.watcher[w].newDeps = Append(@, d)]
       IN IF Contains(s.watcher[w].deps, d) THEN t ELSE AddSub(t, d, w)

\* Dep.depend, vue.js:800-807
Depend(s, d) == IF Target(s) = NoWatcher THEN s ELSE AddDep(s, Target(s), d)

-----------------------------------------------------------------------------
\* Observer

RECURSIVE Observe(_, _)

\* Observer, vue.js:918-957: the object's keys become getters and setters; what
\* they hold, or the array's items, is observed too
NewObserver(s, i) ==
  LET o == s.obj[i]
      t == [s EXCEPT !.obj[i].ob = TRUE, !.obj[i].re = IF o.isArray THEN {} ELSE DOMAIN o.val]
  IN EachOf(LAMBDA k, u : Observe(u, o.val[k]), t, DOMAIN o.val)

\* observe, vue.js:974-987: once
Observe(s, v) == IF ~IsObject(v) \/ HasOb(s, v) \/ ~s.shouldObserve THEN s ELSE NewObserver(s, v[2])

\* Observer.observeArray, vue.js:961-965
ObserveArray(s, vs) == Each(Observe, s, vs)

\* a fresh object or array of the application, not observed yet
NewObject(s, isArray, val) ==
  [s EXCEPT !.obj = Append(@, [isArray |-> isArray, val |-> val, re |-> {},
                               ob |-> FALSE, shallow |-> FALSE, vmCount |-> 0])]

\* dependArray, vue.js:1144-1154: nested items, which no getter can track
RECURSIVE DependArray(_, _)
DependArray(s, v) ==
  LET item(t, e) ==
        LET u == IF HasOb(t, e) THEN Depend(t, <<e[2], "__ob__">>) ELSE t
        IN IF IsArrayValue(t, e) THEN DependArray(u, e) ELSE u
  IN Each(item, s, s.obj[v[2]].val)

\* reactiveGetter, vue.js:1009-1027: the property's dep, its child's and, for
\* an array, those of the items
ReactiveGetter(s, i, k) ==
  LET v == s.obj[i].val[k]
      t == Depend(s, <<i, k>>)
      u == IF HasOb(t, v) THEN Depend(t, <<v[2], "__ob__">>) ELSE t
  IN IF k \notin s.obj[i].re \/ Target(s) = NoWatcher THEN [s |-> s, v |-> v]
     ELSE [s |-> IF HasOb(t, v) /\ IsArrayValue(t, v) THEN DependArray(u, v) ELSE u, v |-> v]

\* reactiveSetter, vue.js:1028-1060: nothing for an equal value
ReactiveSetter(s, i, k, v) ==
  IF s.obj[i].val[k] = v THEN s
  ELSE LET t == [s EXCEPT !.obj[i].val[k] = v]
       IN IF k \notin s.obj[i].re THEN t
          ELSE Notify(IF s.obj[i].shallow THEN t ELSE Observe(t, v), <<i, k>>)

\* defineReactive, vue.js:991-1010: a new key with its own dep; props are shallow
DefineReactive(s, i, k, v) ==
  LET t == [s EXCEPT !.obj[i].val = (k :> v) @@ @, !.obj[i].re = @ \cup {k}]
  IN IF s.obj[i].shallow THEN t ELSE Observe(t, v)

\* methodsToPatch, vue.js:848-892: the array's method, the inserted items
\* observed, the array's own dep notified whatever happened
Mutator(s, i, method, args) ==
  LET a == s.obj[i].val
      after == CASE method = "push"    -> a \o args
                 [] method = "pop"     -> IF a = <<>> THEN a ELSE Front(a)
                 [] method = "shift"   -> IF a = <<>> THEN a ELSE Tail(a)
                 [] method = "unshift" -> args \o a
                 [] method = "reverse" -> Reverse(a)
      inserted == IF method \in {"push", "unshift"} THEN args ELSE <<>>
  IN Notify(ObserveArray([s EXCEPT !.obj[i].val = after], inserted), <<i, "__ob__">>)

\* methodsToPatch, vue.js:848-892: splice(at, count, items), at from 0
Splice(s, i, at, count, items) ==
  LET a == s.obj[i].val
      from == IF at > Len(a) THEN Len(a) ELSE at
      to   == IF from + count > Len(a) THEN Len(a) ELSE from + count
      after == SubSeq(a, 1, from) \o items \o SubSeq(a, to + 1, Len(a))
  IN Notify(ObserveArray([s EXCEPT !.obj[i].val = after], items), <<i, "__ob__">>)

\* set, vue.js:1064-1106: an index of an array goes through splice, a key
\* that exists through its setter, a new key of root data is refused, and one
\* of an observed object gets a dep and notifies the object's
Set(s, i, k, v) ==
  LET o == s.obj[i] IN
  CASE o.isArray -> Splice(s, i, k, 1, <<v>>)
    [] ~o.isArray /\ k \in DOMAIN o.val -> ReactiveSetter(s, i, k, v)
    [] ~o.isArray /\ k \notin DOMAIN o.val /\ o.ob /\ o.vmCount > 0 -> s
    [] ~o.isArray /\ k \notin DOMAIN o.val /\ ~o.ob ->
         [s EXCEPT !.obj[i].val = (k :> v) @@ @]
    [] OTHER -> Notify(DefineReactive(s, i, k, v), <<i, "__ob__">>)

\* del, vue.js:1107-1139
Del(s, i, k) ==
  LET o == s.obj[i]
      t == [s EXCEPT !.obj[i].val = [x \in DOMAIN o.val \ {k} |-> o.val[x]],
                     !.obj[i].re = @ \ {k}]
  IN CASE o.isArray -> Splice(s, i, k, 1, <<>>)
       [] ~o.isArray /\ (o.vmCount > 0 \/ k \notin DOMAIN o.val) -> s
       [] OTHER -> IF o.ob THEN Notify(t, <<i, "__ob__">>) ELSE t

-----------------------------------------------------------------------------
\* The watcher's side

\* Watcher.cleanupDeps, vue.js:4233-4249: unsubscribe from what was not read
\* this time, last dependency first
CleanupDeps(s, w) ==
  LET r == s.watcher[w]
      gone == SelectSeq(Reverse(r.deps), LAMBDA d : ~Contains(r.newDeps, d))
      t == Each(LAMBDA u, d : RemoveSub(u, d, w), s, gone)
  IN [t EXCEPT !.watcher[w].deps = r.newDeps, !.watcher[w].newDeps = <<>>]

\* Watcher.depend, vue.js:4303-4308: whoever reads a computed value depends on
\* all it depends on
DependAll(s, w) == Each(Depend, s, Reverse(s.watcher[w].deps))

\* Watcher.teardown, vue.js:4312-4326
Teardown(s, w) ==
  IF ~s.watcher[w].active THEN s
  ELSE LET t == Each(LAMBDA u, d : RemoveSub(u, d, w), s, Reverse(s.watcher[w].deps))
       IN [t EXCEPT !.watcher[w].active = FALSE]

\* _traverse, vue.js:4096-4126: a deep watcher touches every nested getter once
RECURSIVE Traverse(_, _, _)
Traverse(s, v, seen) ==
  IF ~IsObject(v) \/ v[2] \in seen THEN s
  ELSE LET o == s.obj[v[2]]
           also == IF o.ob THEN seen \cup {v[2]} ELSE seen
       IN IF o.isArray
          THEN Each(LAMBDA t, e : Traverse(t, e, also), s, Reverse(o.val))
          ELSE EachOf(LAMBDA k, t : LET g == ReactiveGetter(t, v[2], k)
                                     IN Traverse(g.s, g.v, also), s, DOMAIN o.val)

-----------------------------------------------------------------------------
\* Watchers and the application's expressions

CONSTANTS Options,              \* the merged options of each component
          QueueWatcher(_, _),
          NextTick(_, _),
          UpdateComponent(_, _),\* the getter of a render watcher
          Emit(_, _, _, _),     \* $emit
          Destroy(_, _),        \* $destroy
          Builtin(_, _, _)      \* a function of Vue itself

Num(n) == <<"n", n>>
Str(x) == <<"s", x>>
Bool(b) == <<"b", b>>
Truthy(v) == v \notin {Undefined, Num(0), Str(""), Bool(FALSE)}
TextOf(v) == AsString(v)[2]
Throw(s) == [s EXCEPT !.thrown = TRUE]
Env(vm) == [vm |-> vm, loc |-> <<>>]
OptionsOf(s, vm) == Options[s.vm[vm].comp]

\* the object of the instance that has the name: data, props or injections
Holder(s, vm, name) ==
  LET r == s.vm[vm]
      has(i) == i # 0 /\ name \in DOMAIN s.obj[i].val
  IN CASE has(r.data)  -> r.data
       [] ~has(r.data) /\ has(r.props) -> r.props
       [] OTHER -> IF has(r.inj) THEN r.inj ELSE 0

-----------------------------------------------------------------------------
RECURSIVE Eval(_, _, _), EvalAll(_, _, _), Get(_, _), HandleError(_, _)
RECURSIVE Exec(_, _, _), CallMethod(_, _, _, _)

\* Watcher.evaluate, vue.js:4296-4299: a getter that throws leaves it dirty
Evaluate(s, w) ==
  LET g == Get(s, w)
  IN IF g.s.thrown THEN g.s
     ELSE [g.s EXCEPT !.watcher[w].value = g.v, !.watcher[w].dirty = FALSE]

\* computedGetter, vue.js:4513-4533: evaluated only when dirty; who reads it
\* depends on everything it depends on
ComputedGetter(s, w) ==
  LET t == IF s.watcher[w].dirty THEN Evaluate(s, w) ELSE s
      u == IF Target(t) = NoWatcher THEN t ELSE DependAll(t, w)
  IN IF t.thrown THEN [s |-> t, v |-> Undefined] ELSE [s |-> u, v |-> u.watcher[w].value]

\* proxyGetter, vue.js:4337-4339, and the computed values; a name nobody has is undefined
ReadVar(s, vm, name) ==
  LET i == Holder(s, vm, name) IN
  CASE i # 0 -> ReactiveGetter(s, i, name)
    [] i = 0 /\ name \in DOMAIN s.vm[vm].computed -> ComputedGetter(s, s.vm[vm].computed[name])
    [] OTHER -> [s |-> s, v |-> Undefined]

\* proxySetter, vue.js:4340-4342; a computed value has no setter here
WriteVar(s, vm, name, v) ==
  LET i == Holder(s, vm, name) IN IF i = 0 THEN s ELSE ReactiveSetter(s, i, name, v)

\* o[k]: nothing of undefined
Property(s, o, k) ==
  CASE ~IsObject(o) -> [s |-> Throw(s), v |-> Undefined]
    [] IsArrayValue(s, o) -> [s |-> s, v |-> IF k + 1 \in DOMAIN s.obj[o[2]].val
                                             THEN s.obj[o[2]].val[k + 1] ELSE Undefined]
    [] OTHER -> IF k \in DOMAIN s.obj[o[2]].val THEN ReactiveGetter(s, o[2], k)
                ELSE [s |-> s, v |-> Undefined]

NewValue(s, isArray, val) ==
  LET t == NewObject(s, isArray, val) IN [s |-> t, v |-> <<"o", Len(t.obj)>>]

\* a + b: a sum of numbers, else strings joined
Plus(a, b) ==
  IF a[1] = "n" /\ b[1] = "n" THEN Num(a[2] + b[2]) ELSE Str(TextOf(a) \o TextOf(b))

\* a number a string may stand for: those up to 99
NumberOf(v) == IF v[1] = "s" THEN CHOOSE n \in 0 .. 99 : ToString(n) = v[2] ELSE v[2]

\* the array with one more item, which the caller gives, as a new array
Concat(s, env, e) ==
  LET a == Eval(s, env, e[2])
      b == Eval(a.s, env, e[3])
  IN IF b.s.thrown \/ ~IsArrayValue(b.s, a.v) THEN [s |-> Throw(b.s), v |-> Undefined]
     ELSE NewValue(b.s, TRUE, Append(b.s.obj[a.v[2]].val, b.v))

\* the items of an array for which an expression holds, as a new array
Filter(s, env, e) ==
  LET a == Eval(s, env, e[2])
      item(acc, x) ==
        LET c == Eval(acc.s, [env EXCEPT !.loc = (e[3] :> x) @@ @], e[4])
        IN [s |-> c.s, val |-> IF Truthy(c.v) THEN Append(acc.val, x) ELSE acc.val]
      kept == Each(item, [s |-> a.s, val |-> <<>>], a.s.obj[a.v[2]].val)
  IN IF ~IsArrayValue(a.s, a.v) THEN [s |-> Throw(a.s), v |-> Undefined]
     ELSE NewValue(kept.s, TRUE, kept.val)

\* looseEqual, vue.js:264-303: lists and objects by what they hold, else as strings
RECURSIVE LooseEqual(_, _, _)
LooseEqual(s, a, b) ==
  LET x == s.obj[a[2]]
      y == s.obj[b[2]]
  IN CASE a = b -> TRUE
       [] a # b /\ IsObject(a) /\ IsObject(b) ->
            /\ x.isArray = y.isArray
            /\ DOMAIN x.val = DOMAIN y.val
            /\ \A k \in DOMAIN x.val : LooseEqual(s, x.val[k], y.val[k])
       [] OTHER -> ~IsObject(a) /\ ~IsObject(b) /\ Undefined \notin {a, b} /\ AsString(a) = AsString(b)

\* looseIndexOf, vue.js:309-315; 0 when there is none
LooseIndexOf(s, arr, v) == SelectInSeq(arr, LAMBDA x : LooseEqual(s, x, v))

\* the value of a select, as the code of genSelect, vue.js:7932-7942, takes it: a
\* list of what is selected, or the first of it
SelectedValue(s, e) ==
  LET values == ValuesOf(s, SelectSeq(OptionNodes(s, e), LAMBDA o : IsSelected(s, o)))
  IN IF IsMultiple(s, e) THEN NewValue(s, TRUE, values)
     ELSE [s |-> s, v |-> IF values = <<>> THEN Undefined ELSE values[1]]

Binary(s, env, e, op(_, _)) ==
  LET a == Eval(s, env, e[2])
      b == Eval(a.s, env, e[3])
  IN [s |-> b.s, v |-> IF b.s.thrown THEN Undefined ELSE op(a.v, b.v)]

\* an expression of the application
Eval(s, env, e) ==
  LET a == Eval(s, env, e[2])
      then(r) == [s |-> a.s, v |-> IF a.s.thrown THEN Undefined ELSE r]
  IN CASE s.thrown       -> [s |-> s, v |-> Undefined]
       [] OTHER ->
     CASE e[1] = "lit"   -> [s |-> s, v |-> e[2]]
       [] e[1] = "var"   -> IF e[2] \in DOMAIN env.loc THEN [s |-> s, v |-> env.loc[e[2]]]
                            ELSE ReadVar(s, env.vm, e[2])
       [] e[1] = "dot"   -> IF a.s.thrown THEN a ELSE Property(a.s, a.v, e[3])
       [] e[1] = "at"    -> LET k == Eval(a.s, env, e[3])
                            IN IF k.s.thrown THEN k ELSE Property(k.s, a.v, k.v[2])
       [] e[1] = "len"   -> IF a.s.thrown \/ ~IsArrayValue(a.s, a.v)
                            THEN [s |-> Throw(a.s), v |-> Undefined]
                            ELSE then(Num(Len(a.s.obj[a.v[2]].val)))
       [] e[1] = "target" -> LET node == s.dom[env.loc["$event"][2]]
                             IN [s |-> s, v |-> CASE e[2] = "composing" -> Bool(node.composing)
                                                  [] e[2] \in DOMAIN node.props -> node.props[e[2]]
                                                  [] OTHER -> Undefined]
       [] e[1] = "selected" -> SelectedValue(s, env.loc["$event"][2])
       [] e[1] = "isArray" -> then(Bool(IsArrayValue(a.s, a.v)))
       [] e[1] = "has"   -> Binary(s, env, e, LAMBDA x, y : Bool(LooseIndexOf(a.s, a.s.obj[x[2]].val, y) # 0))
       [] e[1] = "not"   -> then(Bool(~Truthy(a.v)))
       [] e[1] = "eq"    -> Binary(s, env, e, LAMBDA x, y : Bool(x = y))
       [] e[1] = "loose" -> Binary(s, env, e, LAMBDA x, y : Bool(LooseEqual(a.s, x, y)))
       [] e[1] = "gt"    -> Binary(s, env, e, LAMBDA x, y : Bool(NumberOf(x) > NumberOf(y)))
       [] e[1] = "add"   -> Binary(s, env, e, Plus)
       [] e[1] = "and"   -> IF Truthy(a.v) THEN Eval(a.s, env, e[3]) ELSE a
       [] e[1] = "cond"  -> Eval(a.s, env, IF Truthy(a.v) THEN e[3] ELSE e[4])
       [] e[1] = "arr"   -> LET r == EvalAll(s, env, e[2]) IN NewValue(r.s, TRUE, r.v)
       [] e[1] = "obj"   -> LET r == EvalAll(s, env, e[2]) IN NewValue(r.s, FALSE, r.v)
       [] e[1] = "concat" -> Concat(s, env, e)
       [] e[1] = "filter" -> IF a.s.thrown THEN a ELSE Filter(s, env, e)
       [] OTHER          -> [s |-> Throw(s), v |-> Undefined]

\* the values of a hash or a sequence of expressions
EvalAll(s, env, es) ==
  EachOf(LAMBDA k, acc : LET r == Eval(acc.s, env, es[k])
                          IN [s |-> r.s, v |-> (k :> r.v) @@ acc.v],
          [s |-> s, v |-> <<>>], DOMAIN es)

-----------------------------------------------------------------------------
\* Watcher.get, vue.js:4191-4216: a user watcher's exception is handled here,
\* any other goes on; the dependencies are settled in both cases
Get(s, w) ==
  LET r == s.watcher[w]
      t == PushTarget(s, w)
      g == IF r.exp = <<"render">> THEN [s |-> UpdateComponent(t, r.vm), v |-> Undefined]
           ELSE Eval(t, Env(r.vm), r.exp)
      caught == IF g.s.thrown /\ r.user THEN HandleError(g.s, r.vm) ELSE g.s
      deep == IF r.deep THEN Traverse(caught, g.v, {}) ELSE caught
  IN [s |-> CleanupDeps(PopTarget(deep), w), v |-> g.v]

\* recordEffectScope, vue.js:2893-2898: what ends with the instance
RecordEffectScope(s, vm, w) == [s EXCEPT !.vm[vm].effects = Append(@, w)]

\* Watcher, vue.js:4136-4187: the kinds are render, computed and user
NewWatcher(s, vm, kind, exp, cb, deep, sync) ==
  LET w == Len(s.watcher) + 1
      lazy == kind = "computed"
      t == [RecordEffectScope(s, vm, w) EXCEPT !.watcher = Append(@,
              [vm |-> vm, kind |-> kind, exp |-> exp, cb |-> cb, deps |-> <<>>, newDeps |-> <<>>,
               active |-> TRUE, lazy |-> lazy, sync |-> sync, deep |-> deep,
               user |-> kind = "user", dirty |-> lazy, value |-> Undefined]),
              !.vm[vm].watcher = IF kind = "render" THEN w ELSE @]
      g == Get(t, w)
  IN IF lazy THEN t ELSE [g.s EXCEPT !.watcher[w].value = g.v]

\* a call of a function with its arguments
Invoke(s, fn, args) ==
  CASE fn[1] = "fn" -> Exec(s, [fn[3] EXCEPT !.loc =
                              (IF args = <<>> THEN <<>> ELSE "$event" :> args[1]) @@ @], fn[2])
    [] fn[1] = "method" -> CallMethod(s, fn[2], fn[3], args)
    [] OTHER -> Builtin(s, fn, args)

\* invokeWithErrorHandling, vue.js:3715-3728
InvokeWithErrorHandling(s, fn, args, vm) ==
  LET t == Invoke(s, fn, args) IN IF t.thrown THEN HandleError(t, vm) ELSE t

\* Watcher.run, vue.js:4270-4291: objects and deep watchers fire for the same value too
Run(s, w) ==
  LET r == s.watcher[w]
      g == Get(s, w)
      t == [g.s EXCEPT !.watcher[w].value = g.v]
  IN IF ~r.active THEN s
     ELSE IF g.v = g.s.watcher[w].value /\ ~IsObject(g.v) /\ ~r.deep THEN g.s
     ELSE IF r.user THEN InvokeWithErrorHandling(t, r.cb, <<g.v, g.s.watcher[w].value>>, r.vm)
     ELSE t

\* Watcher.update, vue.js:4254-4265
WatcherUpdate(s, w) ==
  CASE s.watcher[w].lazy -> [s EXCEPT !.watcher[w].dirty = TRUE]
    [] ~s.watcher[w].lazy /\ s.watcher[w].sync -> Run(s, w)
    [] OTHER -> QueueWatcher(s, w)

\* $forceUpdate, vue.js:2980-2985
ForceUpdate(s, vm) ==
  IF s.vm[vm].watcher = NoWatcher THEN s ELSE WatcherUpdate(s, s.vm[vm].watcher)

-----------------------------------------------------------------------------
\* logError, vue.js:3744-3755: the console counts it, and nothing is thrown on
LogError(s) == [s EXCEPT !.thrown = FALSE, !.errors = @ + 1]

\* handleError, vue.js:3694-3706: the errorCaptured hooks of one ancestor; a
\* hook that ends in <<"false">> stops the error, one that throws is reported
Capturing(s, vm) ==
  LET hooks == IF "errorCaptured" \in DOMAIN OptionsOf(s, vm).hooks
               THEN OptionsOf(s, vm).hooks["errorCaptured"] ELSE <<>>
      one(acc, body) ==
        LET t == Exec(acc.s, Env(vm), body)
        IN CASE acc.stop -> acc
             [] ~acc.stop /\ t.thrown -> [s |-> LogError(t), stop |-> FALSE]
             [] OTHER -> [s |-> t, stop |-> body # <<>> /\ Last(body) = <<"false">>]
  IN Each(one, [s |-> s, stop |-> FALSE], hooks)

\* globalHandleError, vue.js:3729-3743: reported
RECURSIVE Propagate(_, _)
Propagate(s, vm) ==
  IF vm = 0 THEN LogError(s)
  ELSE LET c == Capturing(s, vm) IN IF c.stop THEN c.s ELSE Propagate(c.s, s.vm[vm].parent)

\* handleError, vue.js:3686-3714: the hooks of the ancestors, nearest first,
\* without tracking
HandleError(s, vm) ==
  PopTarget(Propagate(PushTarget([s EXCEPT !.thrown = FALSE], NoWatcher),
                      IF vm = 0 THEN 0 ELSE s.vm[vm].parent))

-----------------------------------------------------------------------------
\* an assignment to a path: an array's item and a new key are set without notice
Assign(s, env, target, v) ==
  LET o == Eval(s, env, target[2])
      k == Eval(o.s, env, target[3])
      key == IF target[1] = "dot" THEN target[3] ELSE k.v[2]
      t == IF target[1] = "dot" THEN o.s ELSE k.s
      i == o.v[2]
  IN CASE target[1] = "var" -> WriteVar(s, env.vm, target[2], v)
       [] target[1] # "var" /\ (t.thrown \/ ~IsObject(o.v)) -> Throw(t)
       [] OTHER ->
            IF t.obj[i].isArray THEN [t EXCEPT !.obj[i].val =
                 IF key + 1 \in DOMAIN @ THEN [@ EXCEPT ![key + 1] = v] ELSE Append(@, v)]
            ELSE IF key \in DOMAIN t.obj[i].val THEN ReactiveSetter(t, i, key, v)
            ELSE [t EXCEPT !.obj[i].val = (key :> v) @@ @]

\* a statement of the application
Step(s, env, x) ==
  LET a == Eval(s, env, x[2])
      args == EvalAll(s, env, x[3])
      unlessThrown(r, t) == IF r.s.thrown THEN r.s ELSE t
  IN CASE s.thrown -> s
       [] OTHER ->
     CASE x[1] = "set"    -> LET r == Eval(s, env, x[3])
                             IN unlessThrown(r, Assign(r.s, env, x[2], r.v))
       [] x[1] = "$set"   -> LET k == Eval(a.s, env, x[3])
                                 r == Eval(k.s, env, x[4])
                             IN unlessThrown(r, Set(r.s, a.v[2], k.v[2], r.v))
       [] x[1] = "$delete" -> unlessThrown(a, Del(a.s, a.v[2], x[3]))
       [] x[1] = "call"   -> LET r == EvalAll(a.s, env, x[4])
                             IN unlessThrown(r, Mutator(r.s, a.v[2], x[3], r.v))
       [] x[1] = "splice" -> LET r == EvalAll(a.s, env, x[5])
                             IN unlessThrown(r, Splice(r.s, a.v[2], x[3], x[4], r.v))
       [] x[1] = "emit"   -> unlessThrown(args, Emit(args.s, env.vm, x[2], args.v))
       [] x[1] = "do"     -> unlessThrown(args, CallMethod(args.s, env.vm, x[2], args.v))
       [] x[1] = "if"     -> unlessThrown(a, IF Truthy(a.v) THEN Exec(a.s, env, x[3]) ELSE a.s)
       [] x[1] = "ifelse" -> unlessThrown(a, Exec(a.s, env, IF Truthy(a.v) THEN x[3] ELSE x[4]))
       [] x[1] = "tick"   -> NextTick(s, <<"method", env.vm, x[2]>>)
       [] x[1] = "force"  -> ForceUpdate(s, env.vm)
       [] x[1] = "destroy" -> Destroy(s, env.vm)
       [] x[1] = "throw"  -> Throw(s)
       [] x[1] = "vue"    -> Builtin(s, <<x[2], env.vm>>, <<>>)
       [] OTHER           -> s

\* a body of the application
Exec(s, env, body) == Each(LAMBDA t, x : Step(t, env, x), s, body)

\* initMethods, vue.js:4539-4557: a method is bound to its instance
CallMethod(s, vm, name, args) ==
  LET m == OptionsOf(s, vm).methods[name]
      params == {i \in DOMAIN m.params : i \in DOMAIN args}
  IN Exec(s, [vm |-> vm, loc |-> [p \in {m.params[i] : i \in params} |->
                                   args[CHOOSE i \in params : m.params[i] = p]]], m.body)
=============================================================================
