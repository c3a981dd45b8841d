----------------------------- MODULE VueCompiler -----------------------------
(***************************************************************************)
(* Vue's template compiler (vue.js).  Its front half makes the syntax tree *)
(* from the tags of a template.  The scanning of characters is abstracted: *)
(* a template is a sequence of tokens,                                     *)
(*   [t |-> "open", tag, attrs, unary], [t |-> "close", tag],              *)
(*   [t |-> "text", parts, raw] (parts of expressions; <<>>: white space)  *)
(*   and [t |-> "comment"];                                                *)
(* an attribute is [name, k, arg, mods, val, raw], its kind k one of       *)
(* "attr", "bind", "on", "dir" and "slot".  raw is the source text.        *)
(* JavaScript in a template is already an expression, <<"var", x>>, ...,   *)
(* so filters and the dynamic arguments of directives are left out.        *)
(*   In its back half the optimizer marks the static trees, the code       *)
(* generator makes the render function, a Code as VueRender runs it, and   *)
(* the static trees hoisted out of it.  An element's parents are given as  *)
(* a sequence, nearest first (anc); the generator's state st is            *)
(* [statics, onceId, pre], and done says which of "static", "once", "for"  *)
(* and "if" an element has behind it.                                      *)
(***************************************************************************)
EXTENDS Integers, Sequences, SequencesExt, FiniteSetsExt, TLC, EagerFolds

CONSTANTS ReservedTags, KeepComments

\* isUnaryTag, vue.js:9482-9483
UnaryTags == {"area", "base", "br", "col", "embed", "hr", "img", "input", "link", "meta",
              "param", "source", "track", "wbr"}
\* canBeLeftOpenTag, vue.js:9486-9486
LeftOpenTags == {"colgroup", "dd", "dt", "li", "options", "p", "td", "tfoot", "th", "thead",
                 "tr", "source"}
\* isNonPhrasingTag, vue.js:9489-9493
NonPhrasingTags == {"article", "aside", "blockquote", "div", "dl", "dt", "dd", "footer", "form",
                    "h1", "h2", "h3", "header", "hr", "li", "option", "section", "tbody", "td",
                    "tr", "ul"}

Lit(v) == <<"lit", v>>
Text(x) == Lit(<<"s", x>>)
Space == Text(" ")

\* createASTElement, vue.js:9805-9815; <<>> and "" stand for what an element has not
NoElement ==
  [type |-> "element", tag |-> "", map |-> <<>>, list |-> <<>>, kids |-> <<>>, key |-> <<>>,
   ref |-> "", refInFor |-> FALSE, for |-> <<>>, if |-> <<>>, elseif |-> <<>>, else |-> FALSE,
   conds |-> <<>>, once |-> FALSE, pre |-> FALSE, plain |-> FALSE, slotTarget |-> <<>>,
   slotDynamic |-> FALSE, slotScope |-> "", slots |-> <<>>, slotName |-> <<>>,
   component |-> <<>>, staticClass |-> <<>>, class |-> <<>>, staticStyle |-> <<>>,
   style |-> <<>>, attrs |-> <<>>, props |-> <<>>, events |-> <<>>, nativeEvents |-> <<>>,
   dirs |-> <<>>, model |-> <<>>, obj |-> <<>>, hasBindings |-> FALSE, forbidden |-> FALSE,
   processed |-> FALSE, isStatic |-> FALSE, staticRoot |-> FALSE, staticInFor |-> FALSE]
TextNode == [type |-> "text", parts |-> <<>>, bound |-> FALSE, comment |-> FALSE, isStatic |-> FALSE]
EmptySlotScope == "_empty_"

IsElement(c) == c.type = "element"
IsSpace(c) == c.type = "text" /\ c.parts = <<Space>>

-----------------------------------------------------------------------------
\* Attributes: map keeps all an element was written with, list what is not processed yet

Has(el, name) == \E i \in DOMAIN el.map : el.map[i].name = name
ValueOf(el, name) == el.map[SelectInSeq(el.map, LAMBDA a : a.name = name)].val

\* getAndRemoveAttr, vue.js:7692-7707
Take(el, name) == [el EXCEPT !.list = SelectSeq(@, LAMBDA a : a.name # name)]
TakeAway(el, name) == [Take(el, name) EXCEPT !.map = SelectSeq(@, LAMBDA a : a.name # name)]

\* getBindingAttr, vue.js:7676-7687: the expression, or the literal written
BindingAttr(el, name) ==
  CASE Has(el, ":" \o name) -> ValueOf(el, ":" \o name)
    [] ~Has(el, ":" \o name) /\ Has(el, name) -> Text(ValueOf(el, name))
    [] OTHER -> <<>>
TakeBinding(el, name) == Take(el, IF Has(el, ":" \o name) THEN ":" \o name ELSE name)

\* addRawAttr, vue.js:7586-7589
AddRawAttr(el, a) == [el EXCEPT !.map = Append(@, a), !.list = Append(@, a)]

\* addProp, vue.js:7574-7577
AddProp(el, name, exp) == [el EXCEPT !.props = Append(@, <<name, exp>>), !.plain = FALSE]

\* addAttr, vue.js:7578-7584
AddAttr(el, name, exp) == [el EXCEPT !.attrs = Append(@, <<name, exp>>), !.plain = FALSE]

\* addDirective, vue.js:7590-7600
AddDirective(el, a) ==
  [el EXCEPT !.dirs = Append(@, [name |-> a.arg, val |-> a.val, mods |-> a.mods]), !.plain = FALSE]

\* addHandler, vue.js:7604-7670: modifiers of the listener become part of the
\* event; an important handler comes before the others
AddHandler(el, name, h, mods, important) ==
  LET has(m) == Contains(mods, m)
      ev == CASE name = "click" /\ has("right") -> "contextmenu"
              [] name = "click" /\ has("middle") -> "mouseup"
              [] OTHER -> name
      rest == SelectSeq(mods, LAMBDA m : m \notin {"capture", "once", "passive", "native"}
                                         /\ ~(m = "right" /\ name = "click"))
      handler == [handler |-> h, mods |-> rest]
      with(events) ==
        LET had == IF ev \in DOMAIN events THEN events[ev].handlers ELSE <<>>
        IN (ev :> [handlers |-> IF important THEN <<handler>> \o had ELSE Append(had, handler),
                   once |-> IF has("once") THEN "~" ELSE ""]) @@ events
  IN IF has("native") THEN [el EXCEPT !.nativeEvents = with(@), !.plain = FALSE]
     ELSE [el EXCEPT !.events = with(@), !.plain = FALSE]

Inline(body) == [kind |-> "inline", body |-> body]

\* parseModel, vue.js:7780-7816: a path's base and its last key, <<>> for none
ParseModel(path) ==
  CASE path[1] = "var" -> [exp |-> path, key |-> <<>>]
    [] path[1] = "dot" -> [exp |-> path[2], key |-> Text(path[3])]
    [] OTHER           -> [exp |-> path[2], key |-> path[3]]

\* genAssignmentCode, vue.js:7756-7764: a last key goes through $set
GenAssignmentCode(path, exp) ==
  LET res == ParseModel(path)
  IN IF res.key = <<>> THEN <<"set", path, exp>> ELSE <<"$set", res.exp, res.key, exp>>

\* mustUseProp, vue.js:6137-6142
MustUseProp(tag, type, name) ==
  \/ name = "value" /\ tag \in {"input", "textarea", "option", "select", "progress"} /\ type # "button"
  \/ name = "selected" /\ tag = "option"
  \/ name = "checked" /\ tag = "input"
  \/ name = "muted" /\ tag = "video"

-----------------------------------------------------------------------------
\* What an element's attributes mean

TypeOf(el) == IF Has(el, "type") THEN ValueOf(el, "type") ELSE ""

\* processPre, vue.js:10117-10121
ProcessPre(el) == [Take(el, "v-pre") EXCEPT !.pre = Has(el, "v-pre")]

\* processRawAttrs, vue.js:10122-10142: inside v-pre every attribute is what it says
ProcessRawAttrs(el) ==
  [el EXCEPT !.attrs = [i \in DOMAIN el.list |-> <<el.list[i].name, Text(el.list[i].raw)>>],
             !.plain = el.list = <<>> /\ ~el.pre]

\* processKey, vue.js:10159-10180
ProcessKey(el) == [TakeBinding(el, "key") EXCEPT !.key = BindingAttr(el, "key")]

\* processRef, vue.js:10181-10187, with checkInFor, vue.js:10517-10526
ProcessRef(el, parents) ==
  IF ~Has(el, "ref") THEN el
  ELSE [Take(el, "ref") EXCEPT !.ref = ValueOf(el, "ref"),
          !.refInFor = el.for # <<>> \/ \E i \in DOMAIN parents : parents[i].for # <<>>]

\* processFor, vue.js:10188-10219: [exp, alias, it], it the index or ""
ProcessFor(el) ==
  IF Has(el, "v-for") THEN [Take(el, "v-for") EXCEPT !.for = ValueOf(el, "v-for")] ELSE el

\* processIf, vue.js:10220-10238
ProcessIf(el) ==
  LET e == IF Has(el, "v-else") THEN [Take(el, "v-else") EXCEPT !.else = TRUE] ELSE el
  IN CASE Has(el, "v-if") -> [Take(el, "v-if") EXCEPT !.if = ValueOf(el, "v-if")]
       [] ~Has(el, "v-if") /\ Has(el, "v-else-if") ->
            [Take(e, "v-else-if") EXCEPT !.elseif = ValueOf(el, "v-else-if")]
       [] OTHER -> e

\* addIfCondition, vue.js:10267-10272; the element's own condition is not listed
AddIfCondition(el, block) == [el EXCEPT !.conds = Append(@, [exp |-> block.elseif, block |-> block])]

\* processOnce, vue.js:10273-10278
ProcessOnce(el) == IF Has(el, "v-once") THEN [Take(el, "v-once") EXCEPT !.once = TRUE] ELSE el

WithoutScope(kids) == SelectSeq(kids, LAMBDA c : IsElement(c) => c.slotScope = "")

\* the slot a v-slot names; a later one of the same name replaces it
PutSlot(slots, name, el) == Append(SelectSeq(slots, LAMBDA x : x.name # name), [name |-> name, el |-> el])

\* processSlotContent, vue.js:10281-10313: the older slot and slot-scope
ProcessOldSlot(el) ==
  LET e == IF Has(el, "slot-scope") THEN [Take(el, "slot-scope") EXCEPT !.slotScope = ValueOf(el, "slot-scope")]
           ELSE el
      given == BindingAttr(e, "slot")
      target == IF given = Text("") THEN Text("default") ELSE given
      f == [TakeBinding(e, "slot") EXCEPT !.slotTarget = target, !.slotDynamic = Has(e, ":slot")]
  IN IF given = <<>> THEN e
     ELSE IF e.tag # "template" /\ e.slotScope = "" THEN AddAttr(f, "slot", given) ELSE f

\* processSlotContent, vue.js:10314-10371: v-slot on a template, or on the
\* component itself, whose children then are its default slot
ProcessSlotContent(el) ==
  LET e == ProcessOldSlot(el)
      at == SelectInSeq(e.list, LAMBDA a : a.k = "slot")
      a == e.list[at]
      f == [e EXCEPT !.list = SelectSeq(@, LAMBDA x : x.name # a.name)]
      scope == IF a.val = "" THEN EmptySlotScope ELSE a.val
      container == [NoElement EXCEPT !.tag = "template", !.slotTarget = Text(a.arg),
                                     !.slotScope = scope, !.kids = WithoutScope(e.kids)]
  IN CASE at = 0 -> e
       [] at # 0 /\ e.tag = "template" -> [f EXCEPT !.slotTarget = Text(a.arg), !.slotScope = scope]
       [] OTHER -> [f EXCEPT !.slots = PutSlot(@, Text(a.arg), container), !.kids = <<>>, !.plain = FALSE]

\* processSlotOutlet, vue.js:10389-10398
ProcessSlotOutlet(el) ==
  IF el.tag = "slot" THEN [TakeBinding(el, "name") EXCEPT !.slotName = BindingAttr(el, "name")] ELSE el

\* processComponent, vue.js:10399-10407
ProcessComponent(el) == [TakeBinding(el, "is") EXCEPT !.component = BindingAttr(el, "is")]

\* transformNode, vue.js:9400-9419: class
TransformClass(el) ==
  LET static == IF Has(el, "class") THEN ValueOf(el, "class") ELSE <<>>
      bound == IF Has(el, ":class") THEN ValueOf(el, ":class") ELSE <<>>
  IN [Take(Take(el, "class"), ":class") EXCEPT !.staticClass = static, !.class = bound]

\* transformNode, vue.js:9436-9456: style
TransformStyle(el) ==
  LET static == IF Has(el, "style") THEN ValueOf(el, "style") ELSE <<>>
      bound == IF Has(el, ":style") THEN ValueOf(el, ":style") ELSE <<>>
  IN [Take(Take(el, "style"), ":style") EXCEPT !.staticStyle = static, !.style = bound]

\* processAttrs, vue.js:10423-10465: v-bind; .sync listens for the update
ProcessBind(el, a) ==
  LET e == IF Contains(a.mods, "sync")
           THEN AddHandler(el, "update:" \o a.arg,
                           Inline(<<GenAssignmentCode(a.val, <<"var", "$event">>)>>), <<>>, FALSE)
           ELSE el
  IN IF Contains(a.mods, "prop") \/ (el.component = <<>> /\ MustUseProp(el.tag, TypeOf(el), a.arg))
     THEN AddProp(e, a.arg, a.val) ELSE AddAttr(e, a.arg, a.val)

\* processAttrs, vue.js:10408-10516
ProcessAttrs(el) ==
  LET one(e, a) ==
        LET f == [e EXCEPT !.hasBindings = @ \/ a.k # "attr"] IN
        CASE a.k = "bind" -> ProcessBind(f, a)
          [] a.k = "on"   -> AddHandler(f, a.arg, a.val, a.mods, FALSE)
          [] a.k = "dir"  -> AddDirective(f, a)
          [] OTHER        -> AddAttr(f, a.arg, Text(a.val))
  IN Each(one, el, el.list)

\* processElement, vue.js:10143-10158: plain, when nothing is said about the element
ProcessElement(el, parents) ==
  LET k == ProcessKey(el)
      plain == [k EXCEPT !.plain = k.key = <<>> /\ k.slots = <<>> /\ k.list = <<>>]
      e == ProcessComponent(ProcessSlotOutlet(ProcessSlotContent(ProcessRef(plain, parents))))
  IN ProcessAttrs(TransformStyle(TransformClass(e)))

\* isForbiddenTag, vue.js:10551-10555
IsForbiddenTag(el) ==
  el.tag = "style" \/ (el.tag = "script" /\ TypeOf(el) \in {"", "text/javascript"})

\* preTransformNode, vue.js:10593-10650: an input with v-model whose type is
\* bound becomes three, one for each way v-model works
PreTransformNode(el, parents) ==
  LET type == BindingAttr(el, "type")
      cond == IF Has(el, "v-if") THEN ValueOf(el, "v-if") ELSE <<>>
      is(t) == LET eq == <<"eq", type, Text(t)>> IN IF cond = <<>> THEN eq ELSE <<"and", eq, cond>>
      base == TakeAway(TakeAway(TakeAway(Take(el, ":type"), "v-if"), "v-else"), "v-else-if")
      clone == [NoElement EXCEPT !.tag = el.tag, !.map = base.list, !.list = base.list]
      typed(e, a) == ProcessElement(AddRawAttr(e, a), parents)
      static(t) == [name |-> "type", k |-> "attr", arg |-> "type", mods |-> <<>>, val |-> t, raw |-> t]
      bound == [name |-> ":type", k |-> "bind", arg |-> "type", mods |-> <<>>, val |-> type, raw |-> "type"]
      branch0 == typed(ProcessFor(clone), static("checkbox"))
      branch1 == typed(TakeAway(clone, "v-for"), static("radio"))
      branch2 == typed(TakeAway(clone, "v-for"), bound)
  IN IF el.tag # "input" \/ ~Has(el, "v-model") \/ ~Has(el, ":type") THEN el
     ELSE [branch0 EXCEPT !.processed = TRUE, !.if = is("checkbox"), !.else = Has(el, "v-else"),
             !.elseif = IF Has(el, "v-else-if") THEN ValueOf(el, "v-else-if") ELSE <<>>,
             !.conds = <<[exp |-> is("radio"), block |-> branch1], [exp |-> cond, block |-> branch2]>>]

-----------------------------------------------------------------------------
\* parse: b has the open elements, the root when there is one, and whether
\* v-pre or <pre> is open

\* trimEndingWhitespace, vue.js:9905-9915
TrimEndingWhitespace(b, el) ==
  LET last == SelectLastInSeq(el.kids, LAMBDA c : ~IsSpace(c))
  IN IF b.inPre THEN el ELSE [el EXCEPT !.kids = SubSeq(@, 1, last)]

\* processIfConditions, vue.js:10239-10266: with the element before, what is
\* between them is dropped; the element before may be a scoped slot as well
ProcessIfConditions(p, el) ==
  LET at == SelectLastInSeq(p.kids, IsElement)
      prev == p.kids[at]
      joined == AddIfCondition(prev, el)
      kept == [p EXCEPT !.kids = SubSeq(@, 1, at)]
  IN IF at = 0 THEN kept
     ELSE IF prev.if = <<>> THEN kept
     ELSE [kept EXCEPT !.kids = [@ EXCEPT ![at] = joined],
                       !.slots = [i \in DOMAIN @ |-> IF @[i].el = prev THEN [@[i] EXCEPT !.el = joined] ELSE @[i]]]

SlotNameOf(el) == IF el.slotTarget = <<>> THEN Text("default") ELSE el.slotTarget
IsElse(el) == el.else \/ el.elseif # <<>>

\* closeElement, vue.js:9872-9887: the element becomes a child of the open one
AddChild(p, el) ==
  CASE el.forbidden -> p
    [] ~el.forbidden /\ IsElse(el) -> ProcessIfConditions(p, el)
    [] OTHER -> [p EXCEPT !.kids = Append(@, el),
                          !.slots = IF el.slotScope = "" THEN @ ELSE PutSlot(@, SlotNameOf(el), el)]

\* closeElement, vue.js:9849-9904
CloseElement(b, el) ==
  LET e1 == TrimEndingWhitespace(b, el)
      e2 == IF b.inVPre \/ e1.processed THEN e1 ELSE ProcessElement(e1, b.stack)
      e3 == TrimEndingWhitespace(b, [e2 EXCEPT !.kids = WithoutScope(@)])
      c == [b EXCEPT !.inVPre = @ /\ ~e3.pre, !.inPre = @ /\ e3.tag # "pre"]
  IN IF b.stack # <<>> THEN [c EXCEPT !.stack = Append(Front(@), AddChild(Last(@), e3))]
     ELSE IF b.root = <<>> THEN [c EXCEPT !.root = <<e3>>]
     ELSE IF b.root[1].if # <<>> /\ IsElse(e3) THEN [c EXCEPT !.root = <<AddIfCondition(@[1], e3)>>]
     ELSE c

\* parse, vue.js:9935-10011: start
Start(b, tag, attrs, unary) ==
  LET el == [NoElement EXCEPT !.tag = tag, !.map = attrs, !.list = attrs]
      e1 == PreTransformNode([el EXCEPT !.forbidden = IsForbiddenTag(el)], b.stack)
      e2 == IF b.inVPre THEN e1 ELSE ProcessPre(e1)
      c == [b EXCEPT !.inVPre = @ \/ e2.pre, !.inPre = @ \/ tag = "pre"]
      e3 == CASE c.inVPre -> ProcessRawAttrs(e2)
              [] ~c.inVPre /\ e2.processed -> e2
              [] OTHER -> ProcessOnce(ProcessIf(ProcessFor(e2)))
  IN IF unary THEN CloseElement(c, e3) ELSE [c EXCEPT !.stack = Append(@, e3)]

\* parse, vue.js:10012-10021: end
End(b) == CloseElement([b EXCEPT !.stack = Front(@)], Last(b.stack))

\* parse, vue.js:10022-10097: chars; white space only between siblings, once
Chars(b, tok) ==
  LET p == Last(b.stack)
      blank == tok.parts = <<>>
      bound == ~blank /\ ~b.inVPre /\ \E i \in DOMAIN tok.parts : tok.parts[i][1] # "lit"
      node == CASE blank -> [TextNode EXCEPT !.parts = <<Space>>]
                [] ~blank /\ b.inVPre -> [TextNode EXCEPT !.parts = <<Text(tok.raw)>>]
                [] OTHER -> [TextNode EXCEPT !.parts = tok.parts, !.bound = bound]
      dropped == blank /\ (p.kids = <<>> \/ IsSpace(Last(p.kids)))
  IN IF b.stack = <<>> THEN b
     ELSE IF dropped /\ ~(b.inPre /\ p.kids = <<>>) THEN b
     ELSE [b EXCEPT !.stack = Append(Front(@), [p EXCEPT !.kids = Append(@, node)])]

\* parse, vue.js:10098-10113: comment
Comment(b) ==
  IF b.stack = <<>> \/ ~KeepComments THEN b
  ELSE [b EXCEPT !.stack = Append(Front(@), [Last(@) EXCEPT !.kids =
                              Append(@, [TextNode EXCEPT !.comment = TRUE])])]

-----------------------------------------------------------------------------
\* parseHTML

TopTag(b) == IF b.stack = <<>> THEN "" ELSE Last(b.stack).tag

\* parseEndTag, vue.js:9728-9777: what was left open inside is closed too; a
\* stray </br> and a stray </p> are elements; "" closes everything
ParseEndTag(b, tag) ==
  LET at == IF tag = "" THEN 1 ELSE SelectLastInSeq(b.stack, LAMBDA e : e.tag = tag)
      close(c, i) == End(c)
  IN CASE at # 0 -> Each(close, b, [i \in 1 .. Len(b.stack) - at + 1 |-> i])
       [] at = 0 /\ tag = "br" -> Start(b, "br", <<>>, TRUE)
       [] at = 0 /\ tag = "p" -> End(Start(b, "p", <<>>, FALSE))
       [] OTHER -> b

\* handleStartTag, vue.js:9685-9727: HTML's tags that end by what follows
HandleStartTag(b, tok) ==
  LET c == IF TopTag(b) = "p" /\ tok.tag \in NonPhrasingTags THEN ParseEndTag(b, "p") ELSE b
      d == IF tok.tag \in LeftOpenTags /\ TopTag(c) = tok.tag THEN ParseEndTag(c, tok.tag) ELSE c
  IN Start(d, tok.tag, tok.attrs, tok.unary \/ tok.tag \in UnaryTags)

\* parseHTML, vue.js:9533-9655, token by token
ParseToken(b, tok) ==
  CASE tok.t = "open"  -> HandleStartTag(b, tok)
    [] tok.t = "close" -> ParseEndTag(b, tok.tag)
    [] tok.t = "text"  -> Chars(b, tok)
    [] OTHER           -> Comment(b)

\* parse, vue.js:9819-9848: the root element, <<>> when there is none
Parse(template) ==
  ParseEndTag(Each(ParseToken, [stack |-> <<>>, root |-> <<>>, inVPre |-> FALSE, inPre |-> FALSE],
                       template), "").root

-----------------------------------------------------------------------------
\* The optimizer

\* isDirectChildOfTemplateFor, vue.js:10795-10806
IsDirectChildOfTemplateFor(anc) ==
  \E i \in DOMAIN anc : anc[i].for # <<>> /\ \A j \in 1 .. i : anc[j].tag = "template"

\* Mutant: bound classes and styles do not keep an element from being static
Mut_StaticKeys(node, anc) ==
  IF ~IsElement(node) THEN ~node.bound
  ELSE \/ node.pre
       \/ /\ node.tag \in ReservedTags \ {"slot", "component"}
          /\ ~node.hasBindings /\ ~node.once /\ ~node.processed /\ ~node.forbidden
          /\ node.if = <<>> /\ node.for = <<>> /\ ~IsElse(node)
          /\ node.key = <<>> /\ node.ref = "" /\ node.component = <<>>
          /\ node.slotTarget = <<>> /\ node.slotScope = "" /\ node.slots = <<>>
          /\ node.tag # "template" \/ \E i \in DOMAIN anc : anc[i].pre
          /\ ~IsDirectChildOfTemplateFor(anc)

\* isStatic, vue.js:10777-10794, with the keys a static element may have,
\* vue.js:10715-10718; a <template> has a slotScope, vue.js:10292, but in v-pre
IsStatic(node, anc) ==
  IF ~IsElement(node) THEN ~node.bound
  ELSE \/ node.pre
       \/ /\ node.tag \in ReservedTags \ {"slot", "component"}
          /\ ~node.hasBindings /\ ~node.once /\ ~node.processed /\ ~node.forbidden
          /\ node.if = <<>> /\ node.for = <<>> /\ ~IsElse(node)
          /\ node.key = <<>> /\ node.ref = "" /\ node.component = <<>>
          /\ node.class = <<>> /\ node.style = <<>>
          /\ node.slotTarget = <<>> /\ node.slotScope = "" /\ node.slots = <<>>
          /\ node.tag # "template" \/ \E i \in DOMAIN anc : anc[i].pre
          /\ ~IsDirectChildOfTemplateFor(anc)

\* markStatic, vue.js:10719-10747: static with all its children and the blocks
\* of its conditions; what a component gets is not looked at
RECURSIVE MarkStatic(_, _)
MarkStatic(node, anc) ==
  LET kids == [i \in DOMAIN node.kids |-> MarkStatic(node.kids[i], <<node>> \o anc)]
      conds == [i \in DOMAIN node.conds |-> [node.conds[i] EXCEPT !.block = MarkStatic(@, anc)]]
      static == /\ IsStatic(node, anc)
                /\ \A i \in DOMAIN kids : kids[i].isStatic
                /\ \A i \in DOMAIN conds : conds[i].block.isStatic
  IN IF ~IsElement(node) \/ (node.tag \notin ReservedTags /\ node.tag # "slot")
     THEN [node EXCEPT !.isStatic = IsStatic(node, anc)]
     ELSE [node EXCEPT !.kids = kids, !.conds = conds, !.isStatic = static]

\* markStaticRoots, vue.js:10748-10776: a static tree of more than a text
RECURSIVE MarkStaticRoots(_, _)
MarkStaticRoots(node, inFor) ==
  LET root == node.isStatic /\ node.kids # <<>> /\ ~(Len(node.kids) = 1 /\ ~IsElement(node.kids[1]))
      n == [node EXCEPT !.staticInFor = inFor /\ (node.isStatic \/ node.once), !.staticRoot = root]
      below == inFor \/ node.for # <<>>
  IN IF ~IsElement(node) THEN node
     ELSE IF root THEN n
     ELSE [n EXCEPT !.kids = [i \in DOMAIN @ |-> MarkStaticRoots(@[i], below)],
                    !.conds = [i \in DOMAIN @ |-> [@[i] EXCEPT !.block = MarkStaticRoots(@, inFor)]]]

\* optimize, vue.js:10705-10714
Optimize(root) == MarkStaticRoots(MarkStatic(root, <<>>), FALSE)

-----------------------------------------------------------------------------
\* Handlers and directives

Event == <<"var", "$event">>
\* keyCodes, vue.js:10812-10822
KeyCodes ==
  [esc |-> {27}, tab |-> {9}, enter |-> {13}, space |-> {32}, up |-> {38}, left |-> {37}, right |-> {39},
   down |-> {40}, delete |-> {8, 46}]

\* keyNames, vue.js:10824-10838
KeyNames ==
  [esc |-> {"Esc", "Escape"}, tab |-> {"Tab"}, enter |-> {"Enter"}, space |-> {" ", "Spacebar"},
   up |-> {"Up", "ArrowUp"}, left |-> {"Left", "ArrowLeft"}, right |-> {"Right", "ArrowRight"},
   down |-> {"Down", "ArrowDown"}, delete |-> {"Backspace", "Delete", "Del"}]

\* genFilterCode, vue.js:10944-10957: the key with what is built in for it
GenFilterCode(key) ==
  [key |-> key, codes |-> IF key \in DOMAIN KeyCodes THEN KeyCodes[key] ELSE {},
                names |-> IF key \in DOMAIN KeyNames THEN KeyNames[key] ELSE {}]

\* genKeyFilter, vue.js:10936-10943: one of the keys, for events of the keyboard
GenKeyFilter(keys) == IF keys = {} THEN <<>> ELSE <<<<"keys", {GenFilterCode(k) : k \in keys}>>>>

SystemKeys == {"ctrl", "shift", "alt", "meta"}
\* modifierCode, vue.js:10843-10854: those that look at the event; of the
\* mouse's buttons only the first is pressed
GuardOf(m, mods) == IF m = "exact" THEN <<m, SystemKeys \ ToSet(mods)>> ELSE <<m>>

\* genHandler, vue.js:10877-10935: the keys are asked for first, then the other
\* modifiers in the order they are written; left and right are keys too
GenHandler(h) ==
  LET guards == SelectSeq(h.mods, LAMBDA m : m \in {"stop", "self", "exact"} \cup SystemKeys)
      keys == ToSet(h.mods) \ ({"stop", "prevent", "self", "exact", "middle"} \cup SystemKeys)
      mods == GenKeyFilter(keys) \o [i \in DOMAIN guards |-> GuardOf(guards[i], h.mods)]
  IN h.handler @@ [mods |-> mods]

\* genHandlers, vue.js:10855-10876
GenHandlers(events) ==
  [ev \in DOMAIN events |->
     [handlers |-> [i \in DOMAIN events[ev].handlers |-> GenHandler(events[ev].handlers[i])],
      once |-> events[ev].once]]

\* genComponentModel, vue.js:7733-7752
GenComponentModel(el, value) ==
  [el EXCEPT !.model = <<value, GenHandler([handler |-> Inline(<<GenAssignmentCode(value, Event)>>),
                                            mods |-> <<>>])>>]

\* genCheckboxModel, vue.js:7905-7924: a list of the values checked, or one value
GenCheckboxModel(el, value) ==
  LET own == BindingAttr(el, "value")
      val == IF own = <<>> THEN Lit(<<"u">>) ELSE own
      yes == IF BindingAttr(el, "true-value") = <<>> THEN Lit(<<"b", TRUE>>) ELSE BindingAttr(el, "true-value")
      no == IF BindingAttr(el, "false-value") = <<>> THEN Lit(<<"b", FALSE>>) ELSE BindingAttr(el, "false-value")
      in == <<"has", value, val>>
      now == <<"target", "checked">>
      whole == IF yes = Lit(<<"b", TRUE>>) THEN value ELSE <<"loose", value, yes>>
      put == <<"if", <<"and", now, <<"not", in>>>>, <<GenAssignmentCode(value, <<"concat", value, val>>)>>>>
      others == <<"filter", value, "$$x", <<"not", <<"loose", <<"var", "$$x">>, val>>>>>>
      drop == <<"if", <<"and", <<"not", now>>, in>>, <<GenAssignmentCode(value, others)>>>>
      body == <<<<"ifelse", <<"isArray", value>>, <<<<"ifelse", now, <<put>>, <<drop>>>>>>,
                  <<GenAssignmentCode(value, <<"cond", now, yes, no>>)>>>>>>
      e == AddProp(el, "checked", <<"cond", <<"isArray", value>>, in, whole>>)
  IN AddHandler(e, "change", Inline(body), <<>>, TRUE)

\* genRadioModel, vue.js:7925-7931
GenRadioModel(el, value) ==
  LET own == BindingAttr(el, "value")
      val == IF own = <<>> THEN Lit(<<"u">>) ELSE own
  IN AddHandler(AddProp(el, "checked", <<"loose", value, val>>), "change",
                Inline(<<GenAssignmentCode(value, val)>>), <<>>, TRUE)

\* genSelect, vue.js:7932-7942
GenSelect(el, value) ==
  AddHandler(el, "change", Inline(<<GenAssignmentCode(value, <<"selected">>)>>), <<>>, TRUE)

\* genDefaultModel, vue.js:7943-7975: not while a text is being composed
GenDefaultModel(el, value, mods) ==
  LET lazy == Contains(mods, "lazy")
      set == GenAssignmentCode(value, <<"target", "value">>)
      body == IF lazy \/ TypeOf(el) = "range" THEN <<set>>
              ELSE <<<<"if", <<"not", <<"target", "composing">>>>, <<set>>>>>>
  IN AddHandler(AddProp(el, "value", value), IF lazy THEN "change" ELSE "input", Inline(body), <<>>, TRUE)

\* model$1, vue.js:7860-7904: by what the element is; whether the directive is
\* needed at runtime too
GenModel(el, d) ==
  LET yes(e) == [el |-> e, runtime |-> TRUE]
  IN CASE el.component # <<>> \/ el.tag \notin ReservedTags ->
            [el |-> GenComponentModel(el, d.val), runtime |-> FALSE]
       [] el.tag = "input" /\ el.component = <<>> /\ TypeOf(el) = "checkbox" -> yes(GenCheckboxModel(el, d.val))
       [] el.tag = "input" /\ el.component = <<>> /\ TypeOf(el) = "radio" -> yes(GenRadioModel(el, d.val))
       [] el.tag = "select" /\ el.component = <<>> -> yes(GenSelect(el, d.val))
       [] OTHER -> yes(GenDefaultModel(el, d.val, d.mods))

\* genDirectives, vue.js:11255-11281, with bind and on, vue.js:10959-10964: a
\* directive of the compiler changes the element before its data is generated
GenDirectives(el) ==
  LET one(acc, d) ==
        LET m == GenModel(acc.el, d)
            kept == Append(acc.dirs, [name |-> d.name, exp |-> d.val, mods |-> d.mods])
        IN CASE d.name = "model" -> [el |-> m.el, dirs |-> IF m.runtime THEN kept ELSE acc.dirs]
             [] d.name = "bind"  -> [el |-> [acc.el EXCEPT !.obj = d.val], dirs |-> acc.dirs]
             [] d.name = "cloak" -> acc
             [] OTHER            -> [el |-> acc.el, dirs |-> kept]
  IN Each(one, [el |-> el, dirs |-> <<>>], el.dirs)

-----------------------------------------------------------------------------
\* Code

NoDataCode == [def |-> FALSE, key |-> <<>>, ref |-> "", refInFor |-> FALSE, slot |-> <<>>,
               attrs |-> <<>>, domProps |-> <<>>, staticClass |-> <<>>, class |-> <<>>,
               staticStyle |-> <<>>, style |-> <<>>, on |-> <<>>, nativeOn |-> <<>>, dirs |-> <<>>,
               scoped |-> <<>>, hasScoped |-> FALSE, dynamicSlots |-> FALSE, slotKey |-> <<>>,
               model |-> <<>>, obj |-> <<>>, pre |-> FALSE]
Empty == [op |-> "e"]
Nothing == [op |-> "u"]
MaybeComponent(el) == el.component # <<>> \/ el.tag \notin ReservedTags

\* genProps, vue.js:11468-11488: of two with one name the last counts
GenProps(list) ==
  [n \in {list[i][1] : i \in DOMAIN list} |-> list[SelectLastInSeq(list, LAMBDA p : p[1] = n)][2]]

\* needsNormalization, vue.js:11417-11419
NeedsNormalization(el) == el.for # <<>> \/ el.tag \in {"template", "slot"}
AnyBlock(el, P(_)) == P(el) \/ \E i \in DOMAIN el.conds : P(el.conds[i].block)

\* getNormalizationType, vue.js:11397-11416
GetNormalizationType(kids) ==
  LET some(P(_)) == \E i \in DOMAIN kids : IsElement(kids[i]) /\ AnyBlock(kids[i], P)
  IN CASE some(NeedsNormalization) -> 2
       [] ~some(NeedsNormalization) /\ some(MaybeComponent) -> 1
       [] OTHER -> 0

\* containsSlotChild, vue.js:11342-11350
RECURSIVE ContainsSlotChild(_)
ContainsSlotChild(el) ==
  IsElement(el) /\ (el.tag = "slot" \/ \E i \in DOMAIN el.kids : ContainsSlotChild(el.kids[i]))

\* genScopedSlots, vue.js:11298-11303: slots that may be others next time
OwnForce(el) ==
  \/ el.for # <<>>
  \/ \E i \in DOMAIN el.slots :
       LET x == el.slots[i].el
       IN x.slotDynamic \/ x.if # <<>> \/ x.for # <<>> \/ ContainsSlotChild(x)

\* genScopedSlots, vue.js:11308-11328: inside a v-for or another scoped slot
\* its variables may be seen; a v-if around may show other slots in its place
Scoping(p) == p.for # <<>> \/ p.slotScope \notin {"", EmptySlotScope}
NeedsForce(el, anc) == OwnForce(el) \/ \E i \in DOMAIN anc : Scoping(anc[i])
NeedsKey(el, anc) == el.if # <<>> \/ \E i \in DOMAIN anc : anc[i].if # <<>>

RECURSIVE Gen(_, _, _, _), GenSlotBlocks(_, _, _, _), GenOnce(_, _, _, _)

\* genNode, vue.js:11420-11430, with genText and genComment
GenNode(node, anc, st) ==
  CASE IsElement(node) -> Gen(node, anc, st, {})
    [] ~IsElement(node) /\ node.comment -> [st |-> st, code |-> Empty]
    [] OTHER -> [st |-> st, code |-> [op |-> "v", parts |-> node.parts]]

\* genChildren, vue.js:11370-11392: one after the other
GenKids(el, anc, st) ==
  Each(LAMBDA acc, c : LET g == GenNode(c, <<el>> \o anc, acc.st)
                           IN [st |-> g.st, codes |-> Append(acc.codes, g.code)],
           [st |-> st, codes |-> <<>>], el.kids)

\* genChildren, vue.js:11370-11392: a lone v-for is the list of the children
LoneFor(el) ==
  /\ Len(el.kids) = 1
  /\ IsElement(el.kids[1])
  /\ el.kids[1].for # <<>> /\ el.kids[1].tag \notin {"template", "slot"}
NormOf(el) ==
  IF LoneFor(el) THEN IF MaybeComponent(el.kids[1]) THEN 1 ELSE 0 ELSE GetNormalizationType(el.kids)

\* the children as one value
GenBody(el, anc, st) ==
  LET k == GenKids(el, anc, st)
  IN [st |-> k.st, code |-> CASE el.kids = <<>> -> Nothing
                              [] el.kids # <<>> /\ LoneFor(el) -> k.codes[1]
                              [] OTHER -> [op |-> "ch", list |-> k.codes]]

\* genScopedSlot, vue.js:11351-11369: the older slot-scope has its v-if inside
GenSlotFn(el, anc, st, cond) ==
  LET body == GenBody(el, anc, st)
      whole == Gen(el, anc, st, {"if", "for"})
      old == Has(el, "slot-scope")
      code == IF old /\ el.if # <<>> THEN [op |-> "if", c |-> el.if, a |-> body.code, b |-> Nothing] ELSE body.code
      element == IF old /\ el.if # <<>> THEN Gen(el, anc, st, {"for"}) ELSE whole
      alias == IF el.slotScope = EmptySlotScope THEN "" ELSE el.slotScope
      key == IF el.slotTarget = <<>> THEN Text("default") ELSE el.slotTarget
      g == IF el.tag = "template" THEN [st |-> body.st, code |-> code] ELSE element
  IN [st |-> g.st, slot |-> [key |-> key, cond |-> cond, alias |-> alias, body |-> g.code]]

\* genIf, vue.js:11130-11153, for slots: each one under its own condition and
\* not those before it
GenSlotBlocks(el, anc, st, slots) ==
  LET blocks == <<[exp |-> el.if, block |-> el]>> \o el.conds
      and(a, b) == IF a = <<>> THEN b ELSE IF b = <<>> THEN a ELSE <<"and", a, b>>
      one(acc, c) ==
        LET g == GenSlotFn(c.block, anc, acc.st, and(acc.none, c.exp))
        IN [st |-> g.st, slots |-> Append(acc.slots, g.slot), none |-> and(acc.none, <<"not", c.exp>>)]
      f == GenSlotFn(el, anc, st, <<>>)
      all == Each(one, [st |-> st, slots |-> slots, none |-> <<>>], blocks)
  IN IF el.if # <<>> /\ ~Has(el, "slot-scope") THEN [st |-> all.st, slots |-> all.slots]
     ELSE [st |-> f.st, slots |-> Append(slots, f.slot)]

\* genScopedSlots, vue.js:11294-11333: the code of all slots
GenScopedSlots(el, anc, st) ==
  Each(LAMBDA acc, x : GenSlotBlocks(x.el, <<el>> \o anc, acc.st, acc.slots),
           [st |-> st, slots |-> <<>>], el.slots)

\* genData, vue.js:11173-11254: directives first, they add to the element;
\* slots that are keyed by their code, vue.js:11309-11333
GenData(el, anc, st) ==
  LET d == GenDirectives(el)
      e == d.el
      sc == GenScopedSlots(e, anc, st)
      force == e.slots # <<>> /\ NeedsForce(e, anc)
  IN [st |-> sc.st, el |-> e, data |-> [NoDataCode EXCEPT
       !.def = TRUE, !.key = e.key, !.ref = e.ref, !.refInFor = e.refInFor, !.pre = e.pre,
       !.attrs = GenProps(e.attrs), !.domProps = GenProps(e.props), !.staticClass = e.staticClass,
       !.class = e.class, !.staticStyle = e.staticStyle, !.style = e.style, !.on = GenHandlers(e.events),
       !.nativeOn = GenHandlers(e.nativeEvents), !.dirs = d.dirs, !.model = e.model, !.obj = e.obj,
       !.slot = IF e.slotScope = "" THEN e.slotTarget ELSE <<>>,
       !.scoped = sc.slots, !.hasScoped = e.slots # <<>>, !.dynamicSlots = force,
       !.slotKey = IF e.slots # <<>> /\ ~force /\ NeedsKey(e, anc) THEN sc.slots ELSE <<>>]]

\* genElement, vue.js:11032-11061, with genComponent, vue.js:11464-11467
GenTag(el, anc, st) ==
  LET wanted == el.component # <<>> \/ ~el.plain \/ (el.pre /\ MaybeComponent(el))
      d == IF wanted THEN GenData(el, anc, st) ELSE [st |-> st, el |-> el, data |-> NoDataCode]
      k == GenKids(d.el, anc, d.st)
  IN [st |-> k.st, code |-> [op |-> "c", tag |-> IF el.component = <<>> THEN Text(el.tag) ELSE el.component,
                             data |-> d.data, ch |-> k.codes, norm |-> NormOf(el)]]

\* genSlot, vue.js:11439-11462
GenSlot(el, anc, st) ==
  LET k == GenKids(el, anc, st)
  IN [st |-> k.st, code |-> [op |-> "t", name |-> IF el.slotName = <<>> THEN Text("default") ELSE el.slotName,
                             fallback |-> k.codes, props |-> GenProps(el.attrs)]]

\* genStatic, vue.js:11091-11103
GenStatic(el, anc, st, done) ==
  LET g == Gen(el, anc, [st EXCEPT !.pre = @ \/ el.pre], done \cup {"static"})
  IN [st |-> [g.st EXCEPT !.pre = st.pre, !.statics = Append(@, g.code)],
      code |-> [op |-> "m", i |-> Len(g.st.statics) + 1, inFor |-> el.staticInFor]]

\* genIf, vue.js:11130-11153: of the blocks the first whose condition holds
GenIf(el, anc, st, done) ==
  LET blocks == <<[exp |-> el.if, block |-> el]>> \o el.conds
      gen(i, acc) ==
        LET b == blocks[i].block
            behind == IF i = 1 THEN done \cup {"if"} ELSE {}
        IN IF b.once THEN GenOnce(b, anc, acc, behind) ELSE Gen(b, anc, acc, behind)
      one(acc, c) == LET g == gen(Len(acc.codes) + 1, acc.st)
                     IN [st |-> g.st, codes |-> Append(acc.codes, g.code)]
      all == Each(one, [st |-> st, codes |-> <<>>], blocks)
      join(i, rest) == IF blocks[i].exp = <<>> THEN all.codes[i]
                       ELSE [op |-> "if", c |-> blocks[i].exp, a |-> all.codes[i], b |-> rest]
  IN [st |-> all.st, code |-> FoldRight(join, [i \in DOMAIN blocks |-> i], Empty)]

\* genOnce, vue.js:11105-11129: in a v-for by the key of the item
GenOnce(el, anc, st, done0) ==
  LET done == done0 \cup {"once"}
      at == SelectInSeq(anc, LAMBDA p : p.for # <<>>)
      g == Gen(el, anc, st, done)
  IN CASE el.if # <<>> /\ "if" \notin done -> GenIf(el, anc, st, done)
       [] ~(el.if # <<>> /\ "if" \notin done) /\ el.staticInFor ->
            IF at = 0 THEN g
            ELSE IF anc[at].key = <<>> THEN g
            ELSE [st |-> [g.st EXCEPT !.onceId = @ + 1],
                  code |-> [op |-> "o", node |-> g.code, id |-> g.st.onceId, key |-> anc[at].key]]
       [] OTHER -> GenStatic(el, anc, st, done)

\* genFor, vue.js:11154-11172
GenFor(el, anc, st, done) ==
  LET g == Gen(el, anc, st, done \cup {"for"})
  IN [st |-> g.st, code |-> [op |-> "l", exp |-> el.for.exp, alias |-> el.for.alias,
                             it |-> el.for.it, body |-> g.code]]

\* genElement, vue.js:11008-11035: a static tree, v-once, v-for and v-if in this
\* order, and then the element itself
Gen(el0, anc, st, done) ==
  LET el == [el0 EXCEPT !.pre = @ \/ (anc # <<>> /\ anc[1].pre)]
  IN IF el.staticRoot /\ "static" \notin done THEN GenStatic(el, anc, st, done)
     ELSE IF el.once /\ "once" \notin done THEN GenOnce(el, anc, st, done)
     ELSE IF el.for # <<>> /\ "for" \notin done THEN GenFor(el, anc, st, done)
     ELSE IF el.if # <<>> /\ "if" \notin done THEN GenIf(el, anc, st, done)
     ELSE IF el.tag = "template" /\ el.slotTarget = <<>> /\ ~st.pre THEN GenBody(el, anc, st)
     ELSE IF el.tag = "slot" THEN GenSlot(el, anc, st)
     ELSE GenTag(el, anc, st)

\* generate, vue.js:10995-11007
Generate(root) ==
  LET g == Gen(root[1], <<>>, [statics |-> <<>>, onceId |-> 0, pre |-> FALSE], {})
      div == [op |-> "c", tag |-> Text("div"), data |-> NoDataCode, ch |-> <<>>, norm |-> 0]
  IN CASE root = <<>> -> [render |-> div, statics |-> <<>>]
       [] root # <<>> /\ root[1].tag = "script" -> [render |-> Nothing, statics |-> <<>>]
       [] OTHER -> [render |-> g.code, statics |-> g.st.statics]

\* baseCompile, vue.js:11803-11814: what a component's render and static trees are
Compile(template) ==
  LET ast == Parse(template) IN Generate(IF ast = <<>> THEN <<>> ELSE <<Optimize(ast[1])>>)
=============================================================================
