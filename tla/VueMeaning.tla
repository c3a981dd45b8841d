----------------------------- MODULE VueMeaning -----------------------------
(***************************************************************************)
(* What an author writes, and what it promises to show: templates as       *)
(* trees, their tokens for the compiler, and the document a template       *)
(* stands for, read off the tree and the data with no compiler, virtual    *)
(* nodes, watchers or patch: the abstract view of Vue.                     *)
(*                                                                         *)
(* A tree is [tag, attrs, kids] with the parser's attributes, or a text    *)
(* [tag |-> "", parts].  The document is a sequence of texts, strings in   *)
(* <<"text", x>>, and elements <<"element", record>>.  White space between *)
(* elements and empty texts are left out.                                  *)
(***************************************************************************)
EXTENDS Integers, Sequences, SequencesExt, FiniteSetsExt, TLC, EagerFolds

-----------------------------------------------------------------------------
\* Writing templates

Says(parts) == [tag |-> "", attrs |-> <<>>, kids |-> <<>>, parts |-> parts]
El(tag, attrs, kids) == [tag |-> tag, attrs |-> attrs, kids |-> kids, parts |-> <<>>]
Blank == Says(<<>>)

Attribute(name, k, arg, val) == [name |-> name, k |-> k, arg |-> arg, mods |-> <<>>, val |-> val, raw |-> name]
Static(name, val) == Attribute(name, "attr", name, val)
Bind(name, exp) == Attribute(":" \o name, "bind", name, exp)
Directive(name, exp) == Attribute("v-" \o name, "dir", name, exp)
VSlot(name, alias) == Attribute("v-slot:" \o name, "slot", name, alias)
VOn(ev, mods, val) == [Attribute("@" \o ev, "on", ev, val) EXCEPT !.mods = mods]
Calls(method) == [kind |-> "method", name |-> method]
Does(body) == [kind |-> "inline", body |-> body]
For(alias, exp) == Attribute("v-for", "dir", "for", [exp |-> exp, alias |-> alias, it |-> "$i"])
Flag(name) == Attribute(name, "dir", name, "")

Lt(v) == <<"lit", v>>
N(n) == Lt(<<"n", n>>)
W(x) == Lt(<<"s", x>>)
V(name) == <<"var", name>>
Arr(es) == <<"arr", es>>

\* the tokens the scanner finds in a template: an author leaves out the end of
\* <li> and <td> where HTML implies it
RECURSIVE Tokens(_)
Tokens(ts) ==
  LET closed(i) == \/ ts[i].tag \notin {"li", "td"}
                   \/ IF i = Len(ts) THEN FALSE ELSE ts[i + 1].tag # ts[i].tag
      one(t, close) ==
        IF t.tag = "" THEN <<[t |-> "text", parts |-> t.parts, raw |-> "raw"]>>
        ELSE <<[t |-> "open", tag |-> t.tag, attrs |-> t.attrs, unary |-> FALSE]>>
             \o Tokens(t.kids) \o (IF close THEN <<[t |-> "close", tag |-> t.tag]>> ELSE <<>>)
  IN FlattenSeq([i \in DOMAIN ts |-> one(ts[i], closed(i))])

-----------------------------------------------------------------------------
\* Values: heap is the data, env the variables in scope

True(v) == v \notin {<<"u">>, <<"n", 0>>, <<"s", "">>, <<"b", FALSE>>}
NumberFor(v) == IF v[1] = "s" THEN CHOOSE n \in 0 .. 99 : ToString(n) = v[2] ELSE v[2]
Shown(v) ==
  CASE v[1] = "u" -> ""
    [] v[1] = "s" -> v[2]
    [] v[1] = "b" -> IF v[2] THEN "true" ELSE "false"
    [] OTHER -> ToString(v[2])

RECURSIVE Value(_, _, _)
Value(heap, env, e) ==
  LET sub(x) == Value(heap, env, x)
      a == sub(e[2])
  IN CASE e[1] = "lit"  -> e[2]
       [] e[1] = "var"  -> IF e[2] \in DOMAIN env THEN env[e[2]] ELSE <<"u">>
       [] e[1] = "dot"  -> IF a[1] = "p" THEN a[2][e[3]] ELSE heap[a[2]].val[e[3]]
       [] e[1] = "len"  -> <<"n", Len(heap[a[2]].val)>>
       [] e[1] = "not"  -> <<"b", ~True(a)>>
       [] e[1] = "eq"   -> <<"b", a = sub(e[3])>>
       [] e[1] = "gt"   -> <<"b", NumberFor(a) > NumberFor(sub(e[3]))>>
       [] e[1] = "and"  -> IF True(a) THEN sub(e[3]) ELSE a
       [] e[1] = "cond" -> IF True(a) THEN sub(e[3]) ELSE sub(e[4])
       [] e[1] = "obj"  -> <<"p", [k \in DOMAIN e[2] |-> sub(e[2][k])]>>
       [] OTHER         -> <<"u">>

-----------------------------------------------------------------------------
\* What a tree stands for.  Slots: name -> [kids, env, alias], what the user of
\* a component put into it, in the user's scope.  Parts: name -> [trees, props]
\* of each component, own: the data of one that has some.  first: the
\* values v-once keeps.

HasAttr(t, name) == \E i \in DOMAIN t.attrs : t.attrs[i].name = name
AttrVal(t, name) == t.attrs[SelectInSeq(t.attrs, LAMBDA a : a.name = name)].val
Drop(t, names) == [t EXCEPT !.attrs = SelectSeq(@, LAMBDA a : a.name \notin names)]
IsBlank(t) == t.tag = "" /\ t.parts = <<>>
Else(t) == HasAttr(t, "v-else") \/ HasAttr(t, "v-else-if")

\* the siblings after a v-if: without its other branches when it held, with the
\* next branch in its place when it did not
RECURSIVE PastElse(_), Promoted(_)
PastElse(ts) ==
  IF ts = <<>> THEN ts
  ELSE IF Else(ts[1]) \/ (IsBlank(ts[1]) /\ Len(ts) > 1 /\ Else(ts[2])) THEN PastElse(Tail(ts)) ELSE ts
Promoted(ts) ==
  IF ts = <<>> THEN ts
  ELSE IF IsBlank(ts[1]) THEN Promoted(Tail(ts))
  ELSE IF HasAttr(ts[1], "v-else") THEN <<Drop(ts[1], {"v-else"})>> \o PastElse(Tail(ts))
  ELSE IF HasAttr(ts[1], "v-else-if")
  THEN <<[ts[1] EXCEPT !.attrs = [i \in DOMAIN @ |->
            IF @[i].name = "v-else-if" THEN [@[i] EXCEPT !.name = "v-if"] ELSE @[i]]]>> \o Tail(ts)
  ELSE ts

Attrs(t, names(_)) == SelectSeq(t.attrs, LAMBDA a : names(a))
\* what is given to an element or a component; a text box shows strings
Given(heap, env, t, own) ==
  LET list == Attrs(t, LAMBDA a : a.k \in {"attr", "bind"}
                                  /\ a.arg \notin own \cup {"class", "style", "key", "ref", "slot", "is", "name"})
      value(a) == Value(heap, env, a.val)
      val(a) == CASE a.k = "attr" -> <<"s", a.val>>
                  [] a.k # "attr" /\ a.arg = "value" /\ t.tag \in {"input", "option"} -> <<"s", Shown(value(a))>>
                  [] OTHER -> value(a)
      given == [n \in {list[i].arg : i \in DOMAIN list} |-> val(list[SelectInSeq(list, LAMBDA a : a.arg = n)])]
      model == Value(heap, env, AttrVal(t, "v-model"))
  IN CASE ~HasAttr(t, "v-model") -> given
       [] HasAttr(t, "v-model") /\ t.tag = "select" -> given
       [] HasAttr(t, "v-model") /\ t.tag \notin {"input", "select"} -> ("value" :> model) @@ given
       [] OTHER -> IF HasAttr(t, "type") /\ AttrVal(t, "type") = "checkbox"
                   THEN ("checked" :> <<"b", True(model)>>) @@ given
                   ELSE ("value" :> <<"s", Shown(model)>>) @@ given
\* as attributes: texts; disabled is or is not there, draggable is true or false;
\* what is a property of the element stays a value
Present(attrs) ==
  LET absent(k) == attrs[k] \in {<<"u">>, <<"b", FALSE>>}
      shown(k) == CASE k \in {"value", "checked"} -> attrs[k]
                    [] k \in {"disabled", "multiple"} -> <<"s", k>>
                    [] k = "draggable" -> <<"s", IF absent(k) THEN "false" ELSE "true">>
                    [] OTHER -> <<"s", Shown(attrs[k])>>
  IN [k \in {k \in DOMAIN attrs : ~absent(k) \/ k = "draggable"} |-> shown(k)]
Classes(heap, env, t) ==
  (IF HasAttr(t, "class") THEN ToSet(AttrVal(t, "class")) ELSE {})
  \cup (IF ~HasAttr(t, ":class") THEN {}
        ELSE LET v == Value(heap, env, AttrVal(t, ":class"))
             IN IF v[1] = "p" THEN {k \in DOMAIN v[2] : True(v[2][k])} ELSE {v[2]} \ {""})
Unshown(heap, env, t) == HasAttr(t, "v-show") /\ ~True(Value(heap, env, AttrVal(t, "v-show")))

RECURSIVE Many(_, _, _, _), One(_, _, _, _), Raw(_)

\* inside v-pre: what is written
Raw(t) ==
  IF t.tag = "" THEN <<"text", IF t.parts = <<>> THEN " " ELSE "raw">>
  ELSE <<"element", [tag |-> t.tag, cls |-> {}, hidden |-> FALSE,
          attrs |-> LET l == Attrs(t, LAMBDA a : a.name # "v-pre")
                    IN [n \in {l[i].name : i \in DOMAIN l} |-> <<"s", n>>],
          kids |-> [i \in DOMAIN t.kids |-> Raw(t.kids[i])]]>>

\* what a user puts into a component: template and slot attributes by name, the
\* rest is the default
SlotsOf(t, env) ==
  LET named(k) == IF \E i \in DOMAIN k.attrs : k.attrs[i].k = "slot"
                  THEN k.attrs[SelectInSeq(k.attrs, LAMBDA a : a.k = "slot")].arg
                  ELSE IF HasAttr(k, "slot") THEN AttrVal(k, "slot") ELSE "default"
      alias(k) == IF \E i \in DOMAIN k.attrs : k.attrs[i].k = "slot"
                  THEN k.attrs[SelectInSeq(k.attrs, LAMBDA a : a.k = "slot")].val ELSE ""
      kids(n) == SelectSeq(t.kids, LAMBDA k : named(k) = n /\ ~IsBlank(k))
      plain(k) == [Drop(k, {"slot"}) EXCEPT !.attrs = SelectSeq(@, LAMBDA a : a.k # "slot")]
  IN [n \in {named(t.kids[i]) : i \in {i \in DOMAIN t.kids : ~IsBlank(t.kids[i])}} |->
       [kids |-> [i \in DOMAIN kids(n) |-> plain(kids(n)[i])], env |-> env, alias |-> alias(kids(n)[1])]]

\* a slot's place: what was put into it, else its own content
Outlet(w, t, env, slots) ==
  LET name == IF HasAttr(t, "name") THEN AttrVal(t, "name") ELSE "default"
      f == slots[name]
      props == <<"p", Given(w.heap, env, t, {})>>
      filled == IF name \notin DOMAIN slots THEN <<>>
                ELSE Many(w, f.kids, IF f.alias = "" THEN f.env ELSE (f.alias :> props) @@ f.env,
                          f.env["$slots"][2])
  IN IF filled = <<>> THEN Many(w, t.kids, env, slots) ELSE filled

\* a component: its own template under its props; attributes that are not
\* props, classes and v-show meet on its root
Component(w, t, name, env, slots) ==
  LET c == w.parts[name]
      given == Given(w.heap, env, t, {})
      props == [p \in c.props |-> IF p \in DOMAIN given THEN given[p] ELSE <<"u">>]
      inner == SlotsOf(t, ("$slots" :> <<"p", slots>>) @@ env)
      own == IF name \in DOMAIN w.own THEN w.own[name] ELSE <<>>
      root == Many(w, c.trees, own @@ props, inner)[1]
      rest == Present([k \in DOMAIN given \ c.props |-> given[k]])
  IN <<<<"element", [root[2] EXCEPT !.attrs = rest @@ @, !.cls = @ \cup Classes(w.heap, env, t),
                                    !.hidden = @ \/ Unshown(w.heap, env, t)]>>>>

\* the options of a select: those whose value it has are selected, of a single
\* choice the first, which is what a select without a value shows
Offered(heap, env, t, kids) ==
  LET model == Value(heap, env, AttrVal(t, "v-model"))
      several == HasAttr(t, "multiple")
      is(i, v) == v # <<"u">> /\ kids[i][2].attrs["value"] = <<"s", Shown(v)>>
      fits(i) == IF several THEN \E j \in DOMAIN heap[model[2]].val : is(i, heap[model[2]].val[j]) ELSE is(i, model)
      on(i) == IF ~HasAttr(t, "v-model") THEN i = 1 ELSE fits(i) /\ (several \/ \A j \in 1 .. i - 1 : ~fits(j))
  IN IF t.tag # "select" THEN kids
     ELSE [i \in DOMAIN kids |-> <<"element", [kids[i][2] EXCEPT !.attrs = ("selected" :> <<"b", on(i)>>) @@ @]>>]

\* one tree, in its loop, as a place for others, a component or an element
One(w, t, env, slots) ==
  LET f == AttrVal(t, "v-for")
      list == Value(w.heap, env, f.exp)
      items == IF list[1] = "n" THEN [i \in 1 .. list[2] |-> <<"n", i>>] ELSE w.heap[list[2]].val
      name == IF ~HasAttr(t, ":is") THEN t.tag ELSE Shown(Value(w.heap, env, AttrVal(t, ":is")))
      nowEnv == IF HasAttr(t, "v-once") THEN w.first @@ env ELSE env
      given == Given(w.heap, nowEnv, t, {})
  IN CASE IsBlank(t) -> <<<<"text", " ">>>>
       [] t.tag = "" /\ ~IsBlank(t) -> <<<<"text", Each(LAMBDA x, p : x \o Shown(Value(w.heap, env, p)), "", t.parts)>>>>
       [] HasAttr(t, "v-for") ->
            FlattenSeq([i \in DOMAIN items |->
              Many(w, <<Drop(t, {"v-for"})>>, (f.alias :> items[i]) @@ ("$i" :> <<"n", i - 1>>) @@ env, slots)])
       [] ~HasAttr(t, "v-for") /\ HasAttr(t, "v-pre") -> <<Raw(t)>>
       [] ~HasAttr(t, "v-for") /\ t.tag = "template" -> Many(w, t.kids, env, slots)
       [] ~HasAttr(t, "v-for") /\ t.tag = "slot" -> Outlet(w, t, env, slots)
       [] ~HasAttr(t, "v-for") /\ name \in DOMAIN w.parts -> Component(w, t, name, env, slots)
       [] OTHER ->
            <<<<"element", [tag |-> name, attrs |-> Present(given), cls |-> Classes(w.heap, env, t),
                            hidden |-> Unshown(w.heap, env, t), kids |-> Offered(w.heap, nowEnv, t, Many(w, t.kids, nowEnv, slots))]>>>>

\* texts side by side are one text, empty ones and white space are not there
Joined(ns) ==
  LET one(out, n) == IF n[1] = "text" /\ out # <<>> /\ Last(out)[1] = "text"
                     THEN Append(Front(out), <<"text", Last(out)[2] \o n[2]>>) ELSE Append(out, n)
  IN SelectSeq(Each(one, <<>>, ns), LAMBDA n : n \notin {<<"text", "">>, <<"text", " ">>})

\* trees side by side: a v-if takes the first branch that holds
Many(w, ts, env, slots) ==
  LET t == ts[1]
      holds == True(Value(w.heap, env, AttrVal(t, "v-if")))
  IN CASE ts = <<>> -> <<>>
       [] ts # <<>> /\ HasAttr(t, "v-if") /\ ~HasAttr(t, "v-for") ->
            IF holds THEN Joined(One(w, Drop(t, {"v-if"}), env, slots) \o Many(w, PastElse(Tail(ts)), env, slots))
            ELSE Many(w, Promoted(Tail(ts)), env, slots)
       [] OTHER -> Joined(One(w, t, env, slots) \o Many(w, Tail(ts), env, slots))

-----------------------------------------------------------------------------
\* the document there is, in the same form
\* what Vue keeps on an element for itself
BesideNotes(props) == [k \in DOMAIN props \ {"_value", "_vOptions"} |-> props[k]]
RECURSIVE Document(_, _)
Document(dom, e) ==
  LET n == dom[e]
      kids == SelectSeq(n.kids, LAMBDA k : ~dom[k].comment)
  IN IF n.tag = "" THEN <<"text", Each(LAMBDA x, v : x \o Shown(v), "", n.text)>>
     ELSE <<"element", [tag |-> n.tag, attrs |-> [k \in DOMAIN n.attrs \ {"slot"} |-> n.attrs[k]]
                                              @@ BesideNotes(n.props), cls |-> n.cls,
                        hidden |-> "display" \in DOMAIN n.style /\ n.style["display"] = <<"s", "none">>,
                        kids |-> Joined([i \in DOMAIN kids |-> Document(dom, kids[i])])]>>
=============================================================================
