------------------------------ MODULE VuePatch ------------------------------
(***************************************************************************)
(* The patch (vue.js: createPatchFunction): from the vnode tree a          *)
(* component rendered last and the one it renders now to the fewest        *)
(* changes of the document.  Components, transitions and directives enter  *)
(* through hooks; what they do is defined where components can run, and    *)
(* given to this module as operators.  s.inserted is the stack of          *)
(* insertedVnodeQueues, one for each patch in progress; s.rm the pending   *)
(* removals of elements that wait for a leaving transition.                *)
(***************************************************************************)
EXTENDS VueDom

CONSTANTS InitHook(_, _),           \* componentVNodeHooks.init
          PrepatchHook(_, _, _),    \* componentVNodeHooks.prepatch
          InsertHook(_, _),         \* componentVNodeHooks.insert and what was merged with it
          MergedInsertHook(_, _),   \* only what was merged with it
          DestroyHook(_, _),        \* componentVNodeHooks.destroy
          DirectiveHook(_, _, _, _),\* updateDirectives(old vnode, vnode), and is it an update
          PostpatchHook(_, _, _),   \* componentUpdated of its directives
          Enter(_, _),              \* the transition module's create
          Leave(_, _, _)            \* and its remove

IsComponent(s, v) == s.vn[v].co.comp # ""
OldData(s, old) == IF old = 0 THEN EmptyData ELSE s.vn[old].data
Queue(s, v) == [s EXCEPT !.inserted = [@ EXCEPT ![Len(@)] = Append(@, v)]]

-----------------------------------------------------------------------------
\* registerRef, vue.js:6396-6450: in a v-for the name holds a list; a removal
\* only clears a ref that is still this node's
RegisterRef(s, v, isRemoval) ==
  LET n == s.vn[v]
      mine == IF n.ci # 0 THEN <<"vm", n.ci>> ELSE <<"el", n.elm>>
      had == IF n.data.ref \in DOMAIN s.vm[n.ctx].refs THEN s.vm[n.ctx].refs[n.data.ref] ELSE <<>>
      now == CASE ~n.data.refInFor /\ ~isRemoval -> <<mine>>
               [] ~n.data.refInFor /\ isRemoval -> IF had = <<mine>> THEN <<>> ELSE had
               [] n.data.refInFor /\ isRemoval -> SelectSeq(had, LAMBDA x : x # mine)
               [] OTHER -> IF Contains(had, mine) THEN had ELSE Append(had, mine)
  IN IF n.data.ref = "" THEN s
     ELSE [s EXCEPT !.vm[n.ctx].refs = (n.data.ref :> now) @@ @]

\* updateDirectives, vue.js:7202-7206
UpdateDirectives(s, old, v) ==
  IF OldData(s, old).dirs = <<>> /\ OldData(s, v).dirs = <<>> THEN s
  ELSE DirectiveHook(s, old, v, old # 0 /\ v # 0)

\* invokeCreateHooks, vue.js:6688-6699: every module, then the insert hook is queued
InvokeCreateHooks(s, v) ==
  LET e == s.vn[v].elm
      d == s.vn[v].data
      s1 == UpdateClass(UpdateAttrs(s, e, EmptyData, d), e, EmptyData, v)
      s2 == UpdateDOMProps(UpdateDOMListeners(s1, e, EmptyData, v), e, EmptyData, d)
      s3 == RegisterRef(Enter(UpdateStyle(s2, e, EmptyData, v), v), v, FALSE)
      s4 == UpdateDirectives(s3, 0, v)
  IN IF s4.vn[v].data.hook # <<>> THEN Queue(s4, v) ELSE s4

\* patchVnode, vue.js:6935-6940: the modules' update
UpdateModules(s, old, v) ==
  LET e == s.vn[v].elm
      o == s.vn[old].data
      d == s.vn[v].data
      s1 == UpdateClass(UpdateAttrs(s, e, o, d), e, o, v)
      s2 == UpdateDOMProps(UpdateDOMListeners(s1, e, o, v), e, o, d)
      s3 == UpdateStyle(s2, e, o, v)
      s4 == IF o.ref # d.ref THEN RegisterRef(RegisterRef(s3, old, TRUE), v, FALSE) ELSE s3
  IN UpdateDirectives(s4, old, v)

-----------------------------------------------------------------------------
RECURSIVE CreateElm(_, _, _, _, _, _, _)

\* Mutant: a vnode that already stands for an element is used as it is
Mut_NeverFresh(s, v, own, i) == [s |-> s, v |-> v]

\* createElm, vue.js:6546-6554: a vnode that already stands for an element is
\* copied before it is used for another one
Fresh(s, v, own, i) ==
  LET c == CloneVNode(s, v)
  IN IF s.vn[v].elm = 0 \/ own = 0 THEN [s |-> s, v |-> v]
     ELSE [s |-> [c.s EXCEPT !.vn[own].ch[i] = c.v], v |-> c.v]

\* initComponent, vue.js:6618-6635
InitComponent(s, v) ==
  LET t == [s EXCEPT !.inserted = [@ EXCEPT ![Len(@)] = @ \o s.vn[v].data.pendingInsert],
                     !.vn[v].data.pendingInsert = <<>>,
                     !.vn[v].elm = s.vm[s.vn[v].ci].el]
  IN IF IsPatchable(t, v) THEN InvokeCreateHooks(t, v)
     ELSE Queue(RegisterRef(t, v, FALSE), v)

\* reactivateComponent, vue.js:6636-6656: the transition inside a kept component
\* is entered again
RECURSIVE InnerTransition(_, _)
InnerTransition(s, v) ==
  IF s.vn[v].ci = 0 THEN 0
  ELSE LET inner == s.vm[s.vn[v].ci].vnode
       IN IF s.vn[inner].data.transition.on THEN inner ELSE InnerTransition(s, inner)
ReactivateComponent(s, v, p, ref) ==
  LET inner == InnerTransition(s, v)
      t == IF inner = 0 THEN s ELSE Queue(Enter(s, inner), inner)
  IN Insert(t, p, s.vn[v].elm, ref)

\* createComponent, vue.js:6597-6617
CreateComponent(s, v, p, ref) ==
  LET again == s.vn[v].ci # 0 /\ s.vn[v].data.keepAlive
      t == InitHook(s, v)
      u == InitComponent(t, v)
      w == Insert(u, p, u.vn[v].elm, ref)
  IN IF again THEN ReactivateComponent(w, v, p, ref) ELSE w

\* createChildren, vue.js:6669-6681
CreateChildren(s, v) ==
  FoldLeftDomain(LAMBDA t, i : CreateElm(t, t.vn[v].ch[i], t.vn[v].elm, 0, TRUE, v, i),
                 s, s.vn[v].ch)

\* createElm, vue.js:6546-6596
CreateElm(s, v0, p, ref, nested, own, i) ==
  LET f == Fresh(s, v0, own, i)
      v == f.v
      t == [f.s EXCEPT !.vn[v].rootInsert = ~nested]
      n == t.vn[v]
      d == CASE n.tag # ""  -> DomElement(t, n.tag, n.data)
             [] n.isComment -> DomComment(t, n.text)
             [] OTHER       -> DomText(t, n.text)
      u == [d.s EXCEPT !.vn[v].elm = d.e]
      w == IF n.tag = "" THEN u
           ELSE LET c == CreateChildren(u, v) IN IF n.data.def THEN InvokeCreateHooks(c, v) ELSE c
  IN IF IsComponent(t, v) THEN CreateComponent(t, v, p, ref) ELSE Insert(w, p, d.e, ref)

\* addVnodes, vue.js:6725-6729
AddVnodes(s, p, ref, own, from, to) ==
  Each(LAMBDA t, i : CreateElm(t, t.vn[own].ch[i], p, ref, FALSE, own, i),
           s, [k \in 1 .. (IF to < from THEN 0 ELSE to - from + 1) |-> from + k - 1])

-----------------------------------------------------------------------------
\* invokeDestroyHook, vue.js:6730-6744: component, listeners, ref and
\* directives of the vnode, then its children
RECURSIVE InvokeDestroyHook(_, _)
InvokeDestroyHook(s, v) ==
  LET t == IF IsComponent(s, v) THEN DestroyHook(s, v) ELSE s
      l == IF t.vn[v].elm = 0 THEN t ELSE RemoveDOMListeners(t, t.vn[v].elm, t.vn[v].data)
      u == IF s.vn[v].data.def THEN UpdateDirectives(RegisterRef(l, v, TRUE), v, 0) ELSE t
  IN Each(InvokeDestroyHook, u, s.vn[v].ch)

\* createRmCb, vue.js:6518-6526: the element goes when the last listener calls
CallRm(s, r) ==
  LET t == [s EXCEPT !.rm[r].listeners = @ - 1]
  IN IF t.rm[r].listeners = 0 THEN RemoveNode(t, t.rm[r].elm) ELSE t

\* removeAndInvokeRemoveHook, vue.js:6760-6792: one count for the module and
\* one for the vnode itself, on every level down to a component's root
RECURSIVE RemoveAndInvokeRemoveHook(_, _, _)
RemoveAndInvokeRemoveHook(s, v, rm) ==
  LET t == IF rm = 0 THEN [s EXCEPT !.rm = Append(@, [elm |-> s.vn[v].elm, listeners |-> 2])]
           ELSE [s EXCEPT !.rm[rm].listeners = @ + 2]
      r == IF rm = 0 THEN Len(t.rm) ELSE rm
      inner == IF s.vn[v].ci = 0 THEN 0 ELSE s.vm[s.vn[v].ci].vnode
      u == IF inner # 0 /\ s.vn[inner].data.def THEN RemoveAndInvokeRemoveHook(t, inner, r) ELSE t
  IN IF rm = 0 /\ ~s.vn[v].data.def THEN RemoveNode(s, s.vn[v].elm)
     ELSE CallRm(Leave(u, v, r), r)

\* removeVnodes, vue.js:6745-6759
RemoveVnodes(s, vs) ==
  LET one(t, v) ==
        CASE v = 0 -> t
          [] v # 0 /\ t.vn[v].tag # "" ->
               InvokeDestroyHook(RemoveAndInvokeRemoveHook(t, v, 0), v)
          [] OTHER -> RemoveNode(t, t.vn[v].elm)
  IN Each(one, s, vs)

-----------------------------------------------------------------------------
RECURSIVE PatchVnode(_, _, _, _, _)
RECURSIVE UpdateChildren(_, _, _, _, _, _, _, _)

\* updateChildren, vue.js:6827-6834: where a node that moved right goes
AfterOldEnd(s, old, oe) == NextSibling(s, s.vn[old[oe]].elm)

\* updateChildren, vue.js:6843-6866: a new node no end matches, looked up by
\* its key or by comparison; at 0 it is created
PlaceNew(s, p, old, own, os, oe, ns, at) ==
  LET v == s.vn[own].ch[ns]
      ref == s.vn[old[os]].elm
      known == at # 0 /\ SameVnode(s.vn[old[at]], s.vn[v])
      t == PatchVnode(s, old[at], v, own, ns)
  IN IF known THEN [s |-> DomInsertBefore(t, p, s.vn[old[at]].elm, ref),
                    old |-> [old EXCEPT ![at] = 0]]
     ELSE [s |-> CreateElm(s, v, p, ref, FALSE, own, ns), old |-> old]

\* updateChildren, vue.js:6793-6876: both ends of both lists are compared, a
\* node found at the other end is moved, the rest is looked up by key
UpdateChildren(s, p, old, own, os, oe, ns, ne) ==
  LET new == s.vn[own].ch
      at == IF IsDefKey(s.vn[new[ns]].key) THEN IdxByKey(s, old, os, oe, s.vn[new[ns]].key)
            ELSE FindIdxInOld(s, new[ns], old, os, oe)
      placed == PlaceNew(s, p, old, own, os, oe, ns, at)
      same(i, j) == SameVnode(s.vn[old[i]], s.vn[new[j]])
      moved(i, j, ref) == DomInsertBefore(PatchVnode(s, old[i], new[j], own, j), p, s.vn[old[i]].elm, ref)
  IN CASE os > oe ->
            AddVnodes(s, p, IF ne = Len(new) THEN 0 ELSE s.vn[new[ne + 1]].elm, own, ns, ne)
       [] os <= oe /\ ns > ne -> RemoveVnodes(s, SubSeq(old, os, oe))
       [] os <= oe /\ ns <= ne /\ old[os] = 0 ->
            UpdateChildren(s, p, old, own, os + 1, oe, ns, ne)
       [] os <= oe /\ ns <= ne /\ old[os] # 0 /\ old[oe] = 0 ->
            UpdateChildren(s, p, old, own, os, oe - 1, ns, ne)
       [] OTHER ->
            IF same(os, ns)
            THEN UpdateChildren(PatchVnode(s, old[os], new[ns], own, ns), p, old, own,
                                os + 1, oe, ns + 1, ne)
            ELSE IF same(oe, ne)
            THEN UpdateChildren(PatchVnode(s, old[oe], new[ne], own, ne), p, old, own,
                                os, oe - 1, ns, ne - 1)
            ELSE IF same(os, ne)
            THEN UpdateChildren(moved(os, ne, AfterOldEnd(s, old, oe)), p, old, own,
                                os + 1, oe, ns, ne - 1)
            ELSE IF same(oe, ns)
            THEN UpdateChildren(moved(oe, ns, s.vn[old[os]].elm), p, old, own,
                                os, oe - 1, ns + 1, ne)
            ELSE UpdateChildren(placed.s, p, placed.old, own, os, oe, ns + 1, ne)

\* patchVnode, vue.js:6941-6963: text, or the children of both sides
PatchContent(s, old, v) ==
  LET o == s.vn[old]
      n == s.vn[v]
      e == n.elm
  IN CASE n.text # NoText -> IF o.text # n.text THEN SetTextContent(s, e, n.text) ELSE s
       [] n.text = NoText /\ o.hasCh /\ n.hasCh ->
            UpdateChildren(s, e, o.ch, v, 1, Len(o.ch), 1, Len(n.ch))
       [] n.text = NoText /\ ~o.hasCh /\ n.hasCh ->
            AddVnodes(IF o.text # NoText THEN SetTextContent(s, e, <<>>) ELSE s,
                      e, 0, v, 1, Len(n.ch))
       [] n.text = NoText /\ o.hasCh /\ ~n.hasCh -> RemoveVnodes(s, o.ch)
       [] OTHER -> IF o.text # NoText THEN SetTextContent(s, e, <<>>) ELSE s

\* patchVnode, vue.js:6917-6927: a static tree that was reused is left alone
ReusesStatic(s, old, v) ==
  /\ s.vn[v].isStatic
  /\ s.vn[old].isStatic
  /\ s.vn[v].key = s.vn[old].key
  /\ s.vn[v].isCloned \/ s.vn[v].isOnce

\* patchVnode, vue.js:6899-6968: the directives hear of it when the children are done
PatchVnode(s, old, v0, own, i) ==
  LET f == Fresh(s, v0, own, i)
      v == f.v
      t == [f.s EXCEPT !.vn[v].elm = f.s.vn[old].elm]
      u == IF IsComponent(t, v) THEN PrepatchHook(t, old, v) ELSE t
      w == IF u.vn[v].data.def /\ IsPatchable(u, v) THEN UpdateModules(u, old, v) ELSE u
      done == PatchContent(w, old, v)
  IN IF old = v0 THEN s
     ELSE IF ReusesStatic(t, old, v) THEN [t EXCEPT !.vn[v].ci = t.vn[old].ci]
     ELSE IF w.vn[v].data.def THEN PostpatchHook(done, old, v) ELSE done

-----------------------------------------------------------------------------
\* invokeInsertHook, vue.js:6969-6980: a component's own patch leaves its
\* inserted nodes to the parent, whose patch calls the hooks when the whole
\* tree is in the document
InvokeInsertHook(s, v, initial) ==
  LET q == Last(s.inserted)
      t == [s EXCEPT !.inserted = Front(@)]
  IN IF initial /\ s.vn[v].parent # 0 THEN [t EXCEPT !.vn[s.vn[v].parent].data.pendingInsert = q]
     ELSE Each(InsertHook, t, q)

\* patch, vue.js:7147-7179: the placeholders above follow a root that changed,
\* with the insert hooks their modules' create has added
RECURSIVE UpdateAncestors(_, _, _, _)
UpdateAncestors(s, a, v, patchable) ==
  IF a = 0 THEN s
  ELSE LET d == RegisterRef(RemoveDOMListeners(s, s.vn[a].elm, s.vn[a].data), a, TRUE)
           t == [UpdateDirectives(d, a, 0) EXCEPT !.vn[a].elm = s.vn[v].elm]
           e == s.vn[v].elm
           fresh == [t EXCEPT !.inserted = Append(@, <<>>)]
           u == IF patchable THEN MergedInsertHook([InvokeCreateHooks(fresh, a) EXCEPT !.inserted = s.inserted], a)
                ELSE RegisterRef(t, a, FALSE)
       IN UpdateAncestors(u, s.vn[a].parent, v, patchable)

\* patch, vue.js:7093-7191: real is the element a root is mounted on, 0 when
\* old is a vnode; v = 0 takes the tree down; what replaces an element that is
\* leaving is not inserted
Patch(s, real, old, v) ==
  LET q == [s EXCEPT !.inserted = Append(@, <<>>)]
      empty == NewVNode(q, [VNode EXCEPT !.tag = q.dom[real].tag, !.data = EmptyData, !.elm = real])
      t == IF real # 0 THEN empty.s ELSE q
      o == IF real # 0 THEN empty.v ELSE old
      oldElm == t.vn[o].elm
      p == t.dom[oldElm].parent
      at == IF t.dom[oldElm].leaveCb # 0 THEN 0 ELSE p
      c == CreateElm(t, v, at, IF at = 0 THEN 0 ELSE NextSibling(t, oldElm), FALSE, 0, 0)
      a == UpdateAncestors(c, c.vn[v].parent, v, IsPatchable(c, v))
      replaced == IF p # 0 THEN RemoveVnodes(a, <<o>>)
                  ELSE IF a.vn[o].tag # "" THEN InvokeDestroyHook(a, o) ELSE a
  IN CASE v = 0 -> IF old = 0 THEN s ELSE InvokeDestroyHook(s, old)
       [] v # 0 /\ real = 0 /\ old = 0 ->
            InvokeInsertHook(CreateElm(q, v, 0, 0, FALSE, 0, 0), v, TRUE)
       [] v # 0 /\ real = 0 /\ old # 0 /\ SameVnode(s.vn[old], s.vn[v]) ->
            InvokeInsertHook(PatchVnode(q, old, v, 0, 0), v, FALSE)
       [] OTHER -> InvokeInsertHook(replaced, v, FALSE)
=============================================================================
