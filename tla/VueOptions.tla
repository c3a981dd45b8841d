---------------------------- MODULE VueOptions ----------------------------
(***************************************************************************)
(* The options of Vue components (vue.js): how the options of a component, *)
(* of what it extends and of its mixins become one, and how props are      *)
(* declared, extracted and cast.  Pure functions of records.               *)
(*                                                                         *)
(* An option that is a hash is a function from names, <<>> when absent.    *)
(* An initial value is an expression: <<"lit", value>>, <<"obj", hash>> or *)
(* <<"arr", items>>; a prop is [types, hasDefault, default].  Props and     *)
(* injections are <<"array", names>> or <<"object", hash>>.                *)
(***************************************************************************)
EXTENDS Integers, Sequences, SequencesExt, FiniteSetsExt, TLC, EagerFolds

Empty == <<"object", <<>>>>
NoComponent == [extends |-> <<>>, mixins |-> <<>>, props |-> Empty, data |-> <<>>,
                computed |-> <<>>, watch |-> <<>>, methods |-> <<>>, hooks |-> <<>>,
                provide |-> <<>>, inject |-> Empty, components |-> <<>>,
                model |-> <<"value", "input">>, functional |-> FALSE, abstract |-> FALSE]

AnyProp == [types |-> <<>>, hasDefault |-> FALSE, default |-> <<"lit", <<"u">>>>]

-----------------------------------------------------------------------------
\* mergeData, vue.js:5222-5247: what the component has stays, objects that
\* both have are merged
RECURSIVE MergeData(_, _)
MergeData(to, from) ==
  [k \in DOMAIN to \cup DOMAIN from |->
     IF k \notin DOMAIN to THEN from[k]
     ELSE IF k \in DOMAIN from /\ to[k][1] = "obj" /\ from[k][1] = "obj"
     THEN <<"obj", MergeData(to[k][2], from[k][2])>>
     ELSE to[k]]

\* mergeDataOrFn, vue.js:5251-5286, for a component and for an instance alike
MergeDataOrFn(parent, child) == MergeData(child, parent)

\* dedupeHooks, vue.js:5312-5320
DedupeHooks(hooks) ==
  Each(LAMBDA out, h : IF Contains(out, h) THEN out ELSE Append(out, h), <<>>, hooks)

HookOf(o, k) == IF k \in DOMAIN o THEN o[k] ELSE <<>>

\* mergeLifecycleHook, vue.js:5302-5311: the parent's first
MergeLifecycleHooks(parent, child) ==
  [k \in DOMAIN parent \cup DOMAIN child |-> DedupeHooks(HookOf(parent, k) \o HookOf(child, k))]

\* mergeAssets, vue.js:5331-5340: the parent's stay reachable behind the child's
MergeAssets(parent, child) == child @@ parent

\* strats.watch, vue.js:5350-5377: watchers of one expression do not replace each other
MergeWatch(parent, child) ==
  [k \in DOMAIN parent \cup DOMAIN child |-> HookOf(parent, k) \o HookOf(child, k)]

\* strats.props, vue.js:5381-5396: methods, inject and computed alike
MergeHash(parent, child) == child @@ parent

\* strats.provide, vue.js:5397-5409
MergeProvide(parent, child) == child @@ parent

\* normalizeProps, vue.js:5441-5472: the array form declares names only
NormalizeProps(props) ==
  IF props[1] = "array" THEN [n \in ToSet(props[2]) |-> AnyProp] ELSE props[2]

\* normalizeInject, vue.js:5476-5498: an array of names injects each from its own name
NormalizeInject(inject) ==
  IF inject[1] = "array" THEN [n \in ToSet(inject[2]) |-> [from |-> n, default |-> <<>>]]
  ELSE inject[2]

\* mergeOptions, vue.js:5523-5563: what is extended, then the mixins in their
\* order, then the component itself
RECURSIVE MergeOptions(_, _)
MergeOptions(parent, child) ==
  LET p == Each(MergeOptions, parent, child.extends \o child.mixins)
  IN [child EXCEPT !.extends = <<>>, !.mixins = <<>>,
        !.props = <<"object", MergeHash(NormalizeProps(p.props), NormalizeProps(@))>>,
        !.inject = <<"object", MergeHash(NormalizeInject(p.inject), NormalizeInject(@))>>,
        !.computed = MergeHash(p.computed, @),
        !.methods = MergeHash(p.methods, @),
        !.data = MergeDataOrFn(p.data, @),
        !.hooks = MergeLifecycleHooks(p.hooks, @),
        !.watch = MergeWatch(p.watch, @),
        !.provide = MergeProvide(p.provide, @),
        !.components = MergeAssets(p.components, @)]

\* resolveAsset, vue.js:5569-5590: the name as a template writes it, "" when unknown
ResolveAsset(assets, id) == IF id \in DOMAIN assets THEN assets[id] ELSE ""

-----------------------------------------------------------------------------
\* extractPropsFromVNodeData, vue.js:1609-1655: a declared prop is taken out
\* of the attributes; what was not declared stays an attribute
ExtractProps(declared, attrs) ==
  [props |-> [k \in DOMAIN declared \cap DOMAIN attrs |-> attrs[k]],
   attrs |-> [k \in DOMAIN attrs \ DOMAIN declared |-> attrs[k]]]

\* getTypeIndex, vue.js:5738-5748: 0 when the type is not among them
TypeIndex(type, types) == SelectInSeq(types, LAMBDA t : t = type)

\* validateProp, vue.js:5592-5609: casting to Boolean, which an empty string
\* is only when Boolean comes before String
CastBoolean(name, prop, absent, v) ==
  LET b == TypeIndex("Boolean", prop.types)
      str == TypeIndex("String", prop.types)
  IN CASE b # 0 /\ absent /\ ~prop.hasDefault -> <<"b", FALSE>>
       [] b # 0 /\ ~absent /\ (v = <<"s", "">> \/ v = <<"s", name>>) /\ (str = 0 \/ b < str) -> <<"b", TRUE>>
       [] OTHER -> v

\* transformModel, vue.js:5093-5110: a component's v-model is a prop and a
\* listener in front of the others
TransformModel(model, data) ==
  IF data.model = <<>> THEN data
  ELSE LET ev == model[2]
           cb == data.model[2]
           had == IF ev \in DOMAIN data.on THEN data.on[ev].fns ELSE <<>>
           fns == IF Contains(had, cb) THEN had ELSE <<cb>> \o had
       IN [data EXCEPT !.attrs = (model[1] :> data.model[1]) @@ @,
                       !.on = (ev :> [fns |-> fns, inv |-> 0, once |-> ""]) @@ @]
=============================================================================
