------------------------------- MODULE VueDom -------------------------------
(***************************************************************************)
(* The virtual nodes a render function makes (vue.js: VNode, the children  *)
(* normalisation, the marks of static trees, the sorting of children into  *)
(* slots) and the comparisons the patch decides by.                        *)
(*                                                                         *)
(* vnodes are mutable and shared (a static tree by all renders, a slot's   *)
(* nodes by parent and child), so they live in a heap, s.vn, and are       *)
(* referred to by index; 0 is no vnode.  A text is a sequence of values.   *)
(*                                                                         *)
(* The document as Vue writes it (vue.js: nodeOps and the platform modules *)
(* attrs, class, events, domProps, style and the directives v-show and     *)
(* v-model).  s.dom is the heap of DOM nodes; 0 is no node.  A node keeps  *)
(* its parent, its children and what the modules set on it.  A module gets *)
(* the old and the new vnode's data (EmptyData when there was none) and    *)
(* the element.                                                            *)
(***************************************************************************)
EXTENDS Integers, Sequences, SequencesExt, FiniteSetsExt, TLC, EagerFolds

NoKey == <<"u">>
NoText == <<<<"none">>>>
IsDefKey(k) == k # NoKey

\* what <transition> hands to its child: appear, and the <transition> that
\* waits for it to leave (out-in) or makes it wait (in-out)
NoTransition == [on |-> FALSE, appear |-> FALSE, outIn |-> 0, inOut |-> 0, delayed |-> 0]

\* an absent data object: every module skips the vnode
NoData == [def |-> FALSE, key |-> NoKey, attrs |-> <<>>, on |-> <<>>, nativeOn |-> <<>>,
           domProps |-> <<>>, cls |-> <<>>, style |-> <<>>, dirs |-> <<>>, slot |-> "",
           scoped |-> <<>>, stable |-> TRUE, scopedKey |-> <<>>, hasScoped |-> FALSE, keepAlive |-> FALSE,
           ref |-> "", refInFor |-> FALSE, hook |-> <<>>, pendingInsert |-> <<>>,
           model |-> <<>>, show |-> FALSE, pre |-> FALSE, transition |-> NoTransition]
EmptyData == [NoData EXCEPT !.def = TRUE]
NoOptions == [comp |-> ""]

\* VNode, vue.js:588-612
VNode == [tag |-> "", data |-> NoData, hasCh |-> FALSE, ch |-> <<>>, text |-> NoText,
          elm |-> 0, key |-> NoKey, ctx |-> 0, co |-> NoOptions, ci |-> 0, parent |-> 0,
          isStatic |-> FALSE, isOnce |-> FALSE, isCloned |-> FALSE, isComment |-> FALSE,
          rootInsert |-> TRUE, factory |-> ""]

\* what an operator that makes a vnode returns: the state and the vnode
NewVNode(s, n) == [s |-> [s EXCEPT !.vn = Append(@, n)], v |-> Len(s.vn) + 1]

\* createEmptyVNode, vue.js:624-630
CreateEmptyVNode(s) == NewVNode(s, [VNode EXCEPT !.text = <<>>, !.isComment = TRUE])

\* createTextVNode, vue.js:631-633
CreateTextVNode(s, text) == NewVNode(s, [VNode EXCEPT !.text = text])

\* cloneVNode, vue.js:638-654: no component instance, no parent, not once
CloneVNode(s, v) ==
  NewVNode(s, [s.vn[v] EXCEPT !.ci = 0, !.parent = 0, !.isOnce = FALSE,
                              !.isCloned = TRUE])

\* isTextNode, vue.js:1691-1693
IsTextNode(s, v) == v # 0 /\ s.vn[v].text # NoText /\ ~s.vn[v].isComment

-----------------------------------------------------------------------------
\* Children: an item is <<"v", vnode>>, <<"l", items, from v-for>> or <<"u">>

\* simpleNormalizeChildren, vue.js:1672-1679: flattens one level
SimpleNormalizeChildren(items) ==
  FlattenSeq([i \in DOMAIN items |->
    CASE items[i][1] = "v" -> <<items[i][2]>>
      [] items[i][1] = "l" -> [j \in DOMAIN items[i][2] |-> items[i][2][j][2]]
      [] OTHER -> <<>>])

\* the last text and the text of v in one new text vnode
MergeText(s, out, v) ==
  LET m == CreateTextVNode(s, s.vn[Last(out)].text \o s.vn[v].text)
  IN [s |-> m.s, out |-> Append(Front(out), m.v)]

LastIsText(s, out) == out # <<>> /\ IsTextNode(s, Last(out))

\* normalizeArrayChildren, vue.js:1694-1745: nested arrays flattened, adjacent
\* texts merged, unkeyed elements of a v-for given a key by their position
RECURSIVE NormalizeArrayChildren(_, _, _, _)
NormalizeArrayChildren(s, items, isVList, path) ==
  LET step(acc, i) ==
        LET c == items[i] IN
        CASE c[1] = "u" -> acc
          [] c[1] = "l" ->
               LET n == NormalizeArrayChildren(acc.s, c[2], c[3], Append(path, i))
                   joins == n.out # <<>> /\ IsTextNode(n.s, n.out[1]) /\ LastIsText(n.s, acc.out)
                   m == MergeText(n.s, acc.out, n.out[1])
               IN IF joins THEN [s |-> m.s, out |-> m.out \o Tail(n.out)]
                  ELSE [s |-> n.s, out |-> acc.out \o n.out]
          [] c[1] = "v" /\ IsTextNode(acc.s, c[2]) /\ LastIsText(acc.s, acc.out) ->
               MergeText(acc.s, acc.out, c[2])
          [] OTHER ->
               LET v == acc.s.vn[c[2]]
                   keyed == isVList /\ v.tag # "" /\ ~IsDefKey(v.key) /\ path # <<>>
               IN [s |-> IF keyed THEN [acc.s EXCEPT !.vn[c[2]].key = <<"vlist", path, i>>]
                         ELSE acc.s,
                   out |-> Append(acc.out, c[2])]
  IN FoldLeftDomain(step, [s |-> s, out |-> <<>>], items)

\* _createElement, vue.js:1786-1791: by the compiler's normalizationType
Children(s, items, type) ==
  CASE type = 2 -> NormalizeArrayChildren(s, items, FALSE, <<>>)
    [] type = 1 -> [s |-> s, out |-> SimpleNormalizeChildren(items)]
    [] OTHER -> [s |-> s, out |-> SimpleNormalizeChildren(items)]

\* markStatic$1, vue.js:2043-2054: a tree, or each node of a list of them
MarkStatic(s, items, key, isOnce) ==
  LET one(t, i) == [t EXCEPT !.vn[items[i]].isStatic = TRUE, !.vn[items[i]].isOnce = isOnce,
                             !.vn[items[i]].key = IF Len(items) = 1 THEN key ELSE Append(key, i)]
  IN FoldLeftDomain(one, s, items)

-----------------------------------------------------------------------------
\* isWhitespace, vue.js:2185-2187
IsWhitespace(s, v) ==
  \/ s.vn[v].isComment /\ s.vn[v].factory = ""
  \/ s.vn[v].text = <<<<"s", " ">>>>

\* named slots count only for nodes rendered in the same context
IsNamed(s, v, context) == s.vn[v].ctx = context /\ s.vn[v].data.def /\ s.vn[v].data.slot # ""
SlotName(s, v, context) == IF IsNamed(s, v, context) THEN s.vn[v].data.slot ELSE "default"

\* resolveSlots, vue.js:2147-2184: children by slot name, slots of nothing but
\* white space left out
ResolveSlots(s, children, context) ==
  LET names == {SlotName(s, children[i], context) : i \in DOMAIN children}
      nodes(name) ==
        FlattenSeq([i \in DOMAIN children |->
          CASE SlotName(s, children[i], context) # name -> <<>>
            [] s.vn[children[i]].tag = "template" /\ IsNamed(s, children[i], context) -> s.vn[children[i]].ch
            [] OTHER -> <<children[i]>>])
      full == {n \in names : \E i \in DOMAIN nodes(n) : ~IsWhitespace(s, nodes(n)[i])}
  IN [n \in full |-> nodes(n)]

\* getFirstComponentChild, vue.js:2676-2685
FirstComponentChild(s, children) ==
  LET at == SelectInSeq(children, LAMBDA v : s.vn[v].co.comp # "" \/ s.vn[v].factory # "")
  IN IF at = 0 THEN 0 ELSE children[at]

-----------------------------------------------------------------------------
\* Comparisons of the patch

AttrOf(d, k) == IF k \in DOMAIN d.attrs THEN d.attrs[k] ELSE NoKey
IsTextInputType(t) == t \in {<<"s", "text">>, <<"s", "number">>, <<"s", "search">>}

\* sameInputType, vue.js:6485-6492
SameInputType(a, b) ==
  \/ a.tag # "input"
  \/ AttrOf(a.data, "type") = AttrOf(b.data, "type")
  \/ IsTextInputType(AttrOf(a.data, "type")) /\ IsTextInputType(AttrOf(b.data, "type"))

Mut_SameVnodeByTag(a, b) ==
  a.tag = b.tag /\ a.isComment = b.isComment /\ a.data.def = b.data.def /\ SameInputType(a, b)

\* sameVnode, vue.js:6476-6484
SameVnode(a, b) ==
  /\ a.key = b.key
  /\ a.factory = b.factory
  /\ a.tag = b.tag
  /\ a.isComment = b.isComment
  /\ a.data.def = b.data.def
  /\ SameInputType(a, b)

\* createKeyToOldIdx, vue.js:6493-6502: with a duplicate key the last wins; 0 when absent
IdxByKey(s, old, from, to, key) ==
  LET at == {i \in from .. to : old[i] # 0 /\ s.vn[old[i]].key = key}
  IN IF at = {} THEN 0 ELSE Max(at)

\* findIdxInOld, vue.js:6892-6898: the node at end itself is not looked at
FindIdxInOld(s, node, old, from, to) ==
  LET at == {i \in from .. to - 1 : old[i] # 0 /\ SameVnode(s.vn[node], s.vn[old[i]])}
  IN IF at = {} THEN 0 ELSE Min(at)

\* isPatchable, vue.js:6682-6687: what the component renders has an element
RECURSIVE IsPatchable(_, _)
IsPatchable(s, v) ==
  IF s.vn[v].ci # 0 THEN IsPatchable(s, s.vm[s.vn[v].ci].vnode) ELSE s.vn[v].tag # ""

-----------------------------------------------------------------------------
\* The document

NoDomNode == [tag |-> "", text |-> <<>>, comment |-> FALSE, kids |-> <<>>, parent |-> 0,
              attrs |-> <<>>, cls |-> {}, style |-> <<>>, props |-> <<>>, on |-> <<>>,
              composing |-> FALSE, vmodel |-> FALSE, display |-> <<>>, enterCb |-> 0, leaveCb |-> 0, tcls |-> {}, waiting |-> <<>>]

NewDom(s, n) == [s |-> [s EXCEPT !.dom = Append(@, n)], e |-> Len(s.dom) + 1]

\* createElement, vue.js:6319-6331: a select knows that it takes several before
\* it gets its options
DomElement(s, tag, data) ==
  LET several == tag = "select" /\ "multiple" \in DOMAIN data.attrs /\ data.attrs["multiple"] # NoKey
  IN NewDom(s, [NoDomNode EXCEPT !.tag = tag,
                                 !.attrs = IF several THEN "multiple" :> <<"s", "multiple">> ELSE <<>>])

\* the options of a select, and which are selected
OptionNodes(s, e) == SelectSeq(s.dom[e].kids, LAMBDA k : s.dom[k].tag = "option")
IsMultiple(s, e) == "multiple" \in DOMAIN s.dom[e].attrs
IsSelected(s, e) == "selected" \in DOMAIN s.dom[e].props /\ s.dom[e].props["selected"] = <<"b", TRUE>>
SelectOnly(s, e, on) ==
  Each(LAMBDA t, o : [t EXCEPT !.dom[o].props = ("selected" :> <<"b", o \in on>>) @@ @], s, OptionNodes(s, e))

\* what the browser does when the options of a select for one choice change:
\* it shows the one that came selected, else the one that was, else the first
AfterOptions(s, p, came) ==
  LET opts == OptionNodes(s, p)
      on == {o \in ToSet(opts) : IsSelected(s, o)}
  IN IF s.dom[p].tag # "select" \/ IsMultiple(s, p) \/ opts = <<>> THEN s
     ELSE SelectOnly(s, p, CASE came \in on -> {came} [] came \notin on /\ on # {} -> on [] OTHER -> {opts[1]})

\* createTextNode, vue.js:6335-6337
DomText(s, text) == NewDom(s, [NoDomNode EXCEPT !.text = text])

\* createComment, vue.js:6338-6340
DomComment(s, text) == NewDom(s, [NoDomNode EXCEPT !.comment = TRUE, !.text = text])

\* removeChild, vue.js:6344-6346
RemoveChild(s, p, e) ==
  AfterOptions([s EXCEPT !.dom[p].kids = SelectSeq(@, LAMBDA x : x # e), !.dom[e].parent = 0], p, 0)

Detached(s, e) == IF s.dom[e].parent = 0 THEN s ELSE RemoveChild(s, s.dom[e].parent, e)

\* appendChild, vue.js:6347-6349: a node already in the document is moved
AppendChild(s, p, e) ==
  LET t == Detached(s, e)
  IN AfterOptions([t EXCEPT !.dom[p].kids = Append(@, e), !.dom[e].parent = p], p, e)

\* insertBefore, vue.js:6341-6343: at the end when there is no reference
DomInsertBefore(s, p, e, ref) ==
  LET t == Detached(s, e)
      at == SelectInSeq(t.dom[p].kids, LAMBDA x : x = ref)
  IN IF ref = e THEN s
     ELSE IF ref = 0 THEN AppendChild(s, p, e)
     ELSE AfterOptions([t EXCEPT !.dom[p].kids = InsertAt(@, at, e), !.dom[e].parent = p], p, e)

\* nextSibling, vue.js:6353-6355
NextSibling(s, e) ==
  LET kids == s.dom[s.dom[e].parent].kids
      at == SelectInSeq(kids, LAMBDA x : x = e)
  IN IF s.dom[e].parent = 0 \/ at = Len(kids) THEN 0 ELSE kids[at + 1]

\* setTextContent, vue.js:6359-6361
SetTextContent(s, e, text) ==
  IF s.dom[e].tag = "" THEN [s EXCEPT !.dom[e].text = text]
  ELSE LET t == Each(LAMBDA u, k : RemoveChild(u, e, k), s, s.dom[e].kids)
       IN IF text = <<>> THEN t
          ELSE LET n == DomText(t, text) IN AppendChild(n.s, e, n.e)

\* insert, vue.js:6657-6668: beside ref only if ref is still in this parent
Insert(s, p, e, ref) ==
  CASE p = 0 -> s
    [] p # 0 /\ ref = 0 -> AppendChild(s, p, e)
    [] OTHER -> IF s.dom[ref].parent = p THEN DomInsertBefore(s, p, e, ref) ELSE s

\* removeNode, vue.js:6527-6533
RemoveNode(s, e) == Detached(s, e)

-----------------------------------------------------------------------------
\* The modules.  Maps of names to values; Undefined removes.

Undef == <<"u">>
Falsy(v) == v \in {Undef, <<"n", 0>>, <<"s", "">>, <<"b", FALSE>>}
FalsyAttr(v) == v \in {Undef, <<"b", FALSE>>}
At(f, k) == IF k \in DOMAIN f THEN f[k] ELSE Undef
Without(f, K) == [k \in DOMAIN f \ K |-> f[k]]

\* String(value)
AsString(v) ==
  <<"s", CASE v[1] = "u" -> ""
           [] v[1] = "s" -> v[2]
           [] v[1] = "b" -> IF v[2] THEN "true" ELSE "false"
           [] OTHER -> ToString(v[2])>>

\* isBooleanAttr, vue.js:6153-6158: those the pages use
BooleanAttrs == {"disabled", "hidden", "multiple", "readonly", "required"}

\* convertEnumeratedValue, vue.js:6143-6152: of the values only true and false
EnumeratedAttrs == {"contenteditable", "draggable", "spellcheck"}
ConvertEnumeratedValue(k, v) ==
  CASE FalsyAttr(v) \/ v = <<"s", "false">> -> <<"s", "false">>
    [] k = "contenteditable" /\ v \in {<<"s", "events">>, <<"s", "caret">>, <<"s", "typing">>} -> v
    [] OTHER -> <<"s", "true">>

\* baseSetAttr, vue.js:7385-7409, on the attributes an element has
BaseSetAttr(attrs, k, v) == IF FalsyAttr(v) THEN Without(attrs, {k}) ELSE (k :> AsString(v)) @@ attrs

\* setAttr, vue.js:7353-7384: one that only is or is not there, one of an
\* enumeration, any other; inside v-pre as it is written
SetAttr(attrs, k, v, pre) ==
  CASE pre -> BaseSetAttr(attrs, k, v)
    [] ~pre /\ k \in BooleanAttrs -> BaseSetAttr(attrs, k, IF FalsyAttr(v) THEN v ELSE <<"s", k>>)
    [] ~pre /\ k \in EnumeratedAttrs -> (k :> ConvertEnumeratedValue(k, v)) @@ attrs
    [] OTHER -> BaseSetAttr(attrs, k, v)

\* updateAttrs, vue.js:7313-7352: what changed is set; what the vnode names no
\* more goes, but for the enumerated ones
UpdateAttrs(s, e, old, new) ==
  LET changed == {k \in DOMAIN new.attrs : At(old.attrs, k) # new.attrs[k]}
      gone == {k \in DOMAIN old.attrs \ EnumeratedAttrs : At(new.attrs, k) = Undef}
  IN [s EXCEPT !.dom[e].attrs =
        Without(EachOf(LAMBDA k, f : SetAttr(f, k, new.attrs[k], new.pre), @, changed), gone)]

\* genClassForVnode, vue.js:6170-6187: the placeholder's classes and those of
\* the component's root meet on one element
RECURSIVE ClassBelow(_, _), ClassAbove(_, _)
ClassBelow(s, v) ==
  IF s.vn[v].ci = 0 THEN <<>>
  ELSE LET root == s.vm[s.vn[v].ci].vnode
       IN IF root = 0 THEN <<>> ELSE s.vn[root].data.cls \o ClassBelow(s, root)
ClassAbove(s, v) ==
  IF s.vn[v].parent = 0 THEN <<>>
  ELSE s.vn[s.vn[v].parent].data.cls \o ClassAbove(s, s.vn[v].parent)

\* updateClass, vue.js:7416-7437
UpdateClass(s, e, old, v) ==
  IF s.vn[v].data.cls = <<>> /\ old.cls = <<>> THEN s
  ELSE [s EXCEPT !.dom[e].cls = ToSet(ClassBelow(s, v) \o s.vn[v].data.cls \o ClassAbove(s, v))]

\* updateStyle, vue.js:8281-8312, with getStyle: the parent's style over the child's
RECURSIVE StyleAbove(_, _)
StyleAbove(s, v) ==
  IF s.vn[v].parent = 0 THEN <<>>
  ELSE StyleAbove(s, s.vn[v].parent) @@ s.vn[s.vn[v].parent].data.style
UpdateStyle(s, e, old, v) ==
  IF s.vn[v].data.style = <<>> /\ old.style = <<>> THEN s
  ELSE LET new == StyleAbove(s, v) @@ s.vn[v].data.style
       IN [s EXCEPT !.dom[e].style = new @@ Without(@, DOMAIN old.style \ DOMAIN new)]

\* shouldUpdateValue, vue.js:8142-8175: not while the user composes, and only
\* when what the box shows differs
ShouldUpdateValue(s, e, v) == ~s.dom[e].composing /\ At(s.dom[e].props, "value") # v

\* updateDOMProps, vue.js:8070-8141: a value is compared, as a string, with what
\* the element shows, any other property with the old vnode; an option keeps the
\* value itself as well
UpdateDOMProps(s, e, old, new) ==
  LET isText(k) == k = "value" /\ s.dom[e].tag # "progress"
      cleared == DOMAIN old.domProps \ DOMAIN new.domProps
      written == {k \in DOMAIN new.domProps :
                    IF isText(k) THEN ShouldUpdateValue(s, e, AsString(new.domProps[k]))
                    ELSE At(old.domProps, k) # new.domProps[k]}
      kept == IF s.dom[e].tag = "option" /\ "value" \in DOMAIN new.domProps
              THEN "_value" :> new.domProps["value"] ELSE <<>>
  IN [s EXCEPT !.dom[e].props = kept @@ [k \in written |-> IF isText(k) THEN AsString(new.domProps[k]) ELSE new.domProps[k]]
                                @@ [k \in cleared |-> <<"s", "">>] @@ @]

\* getValue, vue.js:8912-8914: the value an option was given, else its attribute
OptionValue(node) == IF "_value" \in DOMAIN node.props THEN node.props["_value"] ELSE At(node.attrs, "value")
ValuesOf(s, opts) == [i \in DOMAIN opts |-> OptionValue(s.dom[opts[i]])]

-----------------------------------------------------------------------------
\* Listeners: a listener is [fn, once, at], fn an index into s.fn, where the
\* invoker keeps its current functions and whose error handling it uses; at
\* is the time of the flush it was attached in.  A vnode's on[event] is
\* [fns, inv, once]: the functions of this render and the invoker, 0 when new.

ListenersOf(m, ev) == IF ev \in DOMAIN m THEN m[ev] ELSE <<>>

\* createFnInvoker, vue.js:1529-1545: one function for the life of the listener
CreateFnInvoker(s, fns, vm) ==
  [s |-> [s EXCEPT !.fn = Append(@, [fns |-> fns, vm |-> vm])], inv |-> Len(s.fn) + 1]

\* add, vue.js:8011-8043: with the time of the flush that attaches it
Listener(s, inv, once) == [fn |-> inv, once |-> once, at |-> s.flushAt]

\* updateListeners, vue.js:1546-1575: a listener that stays keeps its invoker
\* and gets the new functions (a once listener's wrapper does not pass them on)
UpdateListeners(s, on, oldOn, vm) ==
  LET keep(t, ev) ==
        IF ev \in DOMAIN oldOn
        THEN [s |-> IF oldOn[ev].once = "" THEN [t.s EXCEPT !.fn[oldOn[ev].inv].fns = on[ev].fns]
                    ELSE t.s,
              on |-> [t.on EXCEPT ![ev].inv = oldOn[ev].inv], add |-> t.add]
        ELSE LET c == CreateFnInvoker(t.s, on[ev].fns, vm)
             IN [s |-> c.s, on |-> [t.on EXCEPT ![ev].inv = c.inv],
                 add |-> (ev :> Listener(s, c.inv, on[ev].once)) @@ t.add]
  IN EachOf(LAMBDA ev, t : keep(t, ev), [s |-> s, on |-> on, add |-> <<>>], DOMAIN on)

\* the listeners of a target after updateListeners: removed, then added
Relisten(m, gone, add) ==
  LET kept == [ev \in DOMAIN m |->
                 IF ev \in DOMAIN gone THEN SelectSeq(m[ev], LAMBDA l : l.fn # gone[ev].inv)
                 ELSE m[ev]]
  IN [ev \in DOMAIN add |-> Append(ListenersOf(kept, ev), add[ev])] @@ kept

Gone(on, oldOn) == [ev \in DOMAIN oldOn \ DOMAIN on |-> oldOn[ev]]

\* updateDOMListeners, vue.js:8049-8061
UpdateDOMListeners(s, e, old, v) ==
  LET on == s.vn[v].data.on
      u == UpdateListeners(s, on, old.on, s.vn[v].ctx)
  IN [u.s EXCEPT !.vn[v].data.on = u.on,
                 !.dom[e].on = Relisten(@, Gone(on, old.on), u.add)]

\* events.destroy, vue.js:8066-8073
RemoveDOMListeners(s, e, old) == [s EXCEPT !.dom[e].on = Relisten(@, old.on, <<>>)]

-----------------------------------------------------------------------------
\* An event on its way up: where it is, the nodes of its path that are left and
\* the listeners of this one

NoEvent == [type |-> "", target |-> 0, at |-> 0, time |-> 0, key |-> [code |-> 0, name |-> ""],
            held |-> {}, stopped |-> FALSE, path |-> <<>>, rest |-> <<>>]
RECURSIVE PathOf(_, _)
PathOf(dom, e) == IF dom[e].parent = 0 THEN <<e>> ELSE <<e>> \o PathOf(dom, dom[e].parent)
EventFor(s, type, e, time) ==
  [NoEvent EXCEPT !.type = type, !.target = e, !.time = time, !.path = PathOf(s.dom, e)]

\* the nodes of the path still ahead, from the first that listens
Ahead(s) ==
  LET at == SelectInSeq(s.event.path, LAMBDA e : ListenersOf(s.dom[e].on, s.event.type) # <<>>)
  IN IF at = 0 \/ s.event.stopped THEN <<>> ELSE SubSeq(s.event.path, at, Len(s.event.path))

\* the event at its next listener: those of a node are looked up when it is reached
AtListener(s) ==
  IF s.event.rest # <<>> THEN s
  ELSE [s EXCEPT !.event.at = Ahead(s)[1], !.event.path = Tail(Ahead(s)),
                 !.event.rest = ListenersOf(s.dom[Ahead(s)[1]].on, s.event.type)]

\* it has been everywhere, or was stopped
Arrived(s) == s.event.rest = <<>> /\ Ahead(s) = <<>>
=============================================================================
