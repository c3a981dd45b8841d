---------------------------- MODULE VueTransition ----------------------------
(***************************************************************************)
(* Transitions (vue.js): the transition module of the patch, which keeps   *)
(* an element in the document until its leaving ended and lets a new one   *)
(* enter, the callbacks the browser makes later, and the render function   *)
(* of <transition>.  s.tr[i] is one entering or leaving: its vnode, its    *)
(* element, the removal it owes (0: the display of v-show), the            *)
(* <transition> that waits for its end, cancelled and done.  s.frames are  *)
(* those that wait for the next frame, s.timers those whose CSS            *)
(* transitions run, each with how many of them ended.                      *)
(***************************************************************************)
EXTENDS VueDom

CONSTANTS CssTransitions,           \* how many CSS transitions a tag has, where it has any
          CallRm(_, _),             \* one listener less before the element goes
          ForceUpdate(_, _),        \* $forceUpdate of a component
          KeepAliveVNode(_, _, _)   \* h("keep-alive") with the props of a vnode

IsElementNode(s, e) == s.dom[e].tag # ""

\* addTransitionClass, vue.js:8441-8447
AddTransitionClass(s, e, C) == [s EXCEPT !.dom[e].tcls = @ \cup C]

\* removeTransitionClass, vue.js:8448-8453
RemoveTransitionClass(s, e, C) == [s EXCEPT !.dom[e].tcls = @ \ C]

NewTransition(s, kind, v, rm) ==
  [s EXCEPT !.tr = Append(@, [kind |-> kind, v |-> v, elm |-> s.vn[v].elm, rm |-> rm,
                              tells |-> IF kind = "enter" THEN s.vn[v].data.transition.inOut
                                        ELSE s.vn[v].data.transition.outIn,
                              cancelled |-> FALSE, done |-> FALSE])]

\* nextFrame, vue.js:8435-8440
NextFrame(s, i) == [s EXCEPT !.frames = Append(@, i)]

\* leave, vue.js:8698-8733: performLeave; a delayed leave may have been cancelled
PerformLeave(s, i) ==
  LET t == s.tr[i]
      p == s.dom[t.elm].parent
      w == IF s.vn[t.v].data.show \/ p = 0 THEN s
           ELSE [s EXCEPT !.dom[p].waiting = (s.vn[t.v].key :> t.v) @@ @]
  IN IF t.cancelled THEN s
     ELSE NextFrame(AddTransitionClass(w, t.elm, {"leave", "leave-active"}), i)

Mut_CancelledEnterTellsNobody(s, i) ==
  LET t == s.tr[i]
      c == RemoveTransitionClass([s EXCEPT !.tr[i].done = TRUE, !.dom[t.elm].enterCb = 0], t.elm,
             {"enter-to", "enter-active"} \cup (IF t.cancelled THEN {"enter"} ELSE {}))
      held == IF t.tells = 0 \/ t.cancelled THEN 0 ELSE s.vm[t.tells].delayedLeave
  IN IF t.done THEN s
     ELSE IF held = 0 THEN c
     ELSE PerformLeave([c EXCEPT !.vm[t.tells].delayedLeave = 0], held)

\* enter, vue.js:8590-8606: the end of entering, run once: finished or cancelled
EnterCb(s, i) ==
  LET t == s.tr[i]
      c == RemoveTransitionClass([s EXCEPT !.tr[i].done = TRUE, !.dom[t.elm].enterCb = 0], t.elm,
             {"enter-to", "enter-active"} \cup (IF t.cancelled THEN {"enter"} ELSE {}))
      held == IF t.tells = 0 THEN 0 ELSE s.vm[t.tells].delayedLeave
  IN IF t.done THEN s
     ELSE IF held = 0 THEN c
     ELSE PerformLeave([c EXCEPT !.vm[t.tells].delayedLeave = 0], held)

\* leave, vue.js:8671-8691: the end of leaving, run once: the element goes
\* unless the leaving was cancelled, and an out-in <transition> renders again
LeaveCb(s, i) ==
  LET t == s.tr[i]
      p == s.dom[t.elm].parent
      w == IF p = 0 THEN s ELSE [s EXCEPT !.dom[p].waiting = Without(@, {s.vn[t.v].key})]
      c == RemoveTransitionClass([w EXCEPT !.tr[i].done = TRUE, !.dom[t.elm].leaveCb = 0], t.elm,
             {"leave-to", "leave-active"} \cup (IF t.cancelled THEN {"leave"} ELSE {}))
      gone == IF t.rm = 0 THEN [c EXCEPT !.dom[t.elm].style = ("display" :> <<"s", "none">>) @@ @]
              ELSE CallRm(c, t.rm)
  IN CASE t.done -> s
       [] ~t.done /\ t.cancelled -> c
       [] OTHER -> IF t.tells = 0 THEN gone
                   ELSE ForceUpdate([gone EXCEPT !.vm[t.tells].leaving = FALSE], t.tells)

CancelLeave(s, e) ==
  LET i == s.dom[e].leaveCb IN IF i = 0 THEN s ELSE LeaveCb([s EXCEPT !.tr[i].cancelled = TRUE], i)
CancelEnter(s, e) ==
  LET i == s.dom[e].enterCb IN IF i = 0 THEN s ELSE EnterCb([s EXCEPT !.tr[i].cancelled = TRUE], i)

-----------------------------------------------------------------------------
\* enter, vue.js:8565-8570: whose mounting decides whether this is the first
\* appearance
RECURSIVE AppearContext(_, _, _)
AppearContext(s, context, node) ==
  IF node = 0 \/ s.vn[node].parent = 0 THEN context
  ELSE AppearContext(s, s.vn[node].ctx, s.vn[node].parent)

\* enter, vue.js:8545-8648; shown is the display v-show restores, <<>> otherwise
EnterWith(s, v, shown) ==
  LET n == s.vn[v]
      e == n.elm
      s1 == CancelLeave(s, e)
      context == AppearContext(s, s.active, s.vm[s.active].pvnode)
      isAppear == ~s.vm[context].mounted \/ ~n.rootInsert
      i == Len(s1.tr) + 1
      s2 == [NewTransition(s1, "enter", v, 0) EXCEPT !.dom[e].enterCb = i]
      s3 == IF n.data.show THEN s2 ELSE [s2 EXCEPT !.vn[v].data.hook = Append(@, "enter")]
      s4 == NextFrame(AddTransitionClass(s3, e, {"enter", "enter-active"}), i)
  IN IF ~n.data.transition.on \/ s1.dom[e].enterCb # 0 \/ ~IsElementNode(s, e)
        \/ (isAppear /\ ~n.data.transition.appear)
     THEN s1
     ELSE IF n.data.show THEN [s4 EXCEPT !.dom[e].style = shown @@ Without(@, {"display"})] ELSE s4

\* _enter, vue.js:8770-8774
Enter(s, v) == IF s.vn[v].data.show THEN s ELSE EnterWith(s, v, <<>>)

\* enter, vue.js:8607-8619: when it is inserted, one of its kind that still
\* leaves is taken out at once
EnterInserted(s, v) ==
  LET p == s.dom[s.vn[v].elm].parent
      w == IF p = 0 \/ s.vn[v].key \notin DOMAIN s.dom[p].waiting THEN 0
           ELSE s.dom[p].waiting[s.vn[v].key]
  IN IF w = 0 \/ s.vn[w].tag # s.vn[v].tag \/ s.dom[s.vn[w].elm].leaveCb = 0 THEN s
     ELSE LeaveCb(s, s.dom[s.vn[w].elm].leaveCb)

\* leave, vue.js:8649-8734
LeaveWith(s, v, rm) ==
  LET n == s.vn[v]
      e == n.elm
      s1 == CancelEnter(s, e)
      i == Len(s1.tr) + 1
      s2 == [NewTransition(s1, "leave", v, rm) EXCEPT !.dom[e].leaveCb = i]
      owner == n.data.transition.delayed
      now == IF rm = 0 THEN [s1 EXCEPT !.dom[e].style = ("display" :> <<"s", "none">>) @@ @]
             ELSE CallRm(s1, rm)
  IN CASE ~n.data.transition.on \/ ~IsElementNode(s, e) -> now
       [] n.data.transition.on /\ IsElementNode(s, e) /\ s1.dom[e].leaveCb # 0 -> s1
       [] OTHER -> IF owner # 0 THEN [s2 EXCEPT !.vm[owner].delayedLeave = i]
                   ELSE PerformLeave(s2, i)

\* the transition module's remove, vue.js:8779-8788
Leave(s, v, rm) == IF s.vn[v].data.show THEN CallRm(s, rm) ELSE LeaveWith(s, v, rm)

\* the end of entering or leaving
CallEnd(s, i) == IF s.tr[i].kind = "enter" THEN EnterCb(s, i) ELSE LeaveCb(s, i)

\* getTransitionInfo, vue.js:8479-8527: an element without one has nothing to wait for
PropCount(s, e) == IF s.dom[e].tag \in DOMAIN CssTransitions THEN CssTransitions[s.dom[e].tag] ELSE 0

\* whenTransitionEnds, vue.js:8454-8477
WhenTransitionEnds(s, i) ==
  IF PropCount(s, s.tr[i].elm) = 0 THEN CallEnd(s, i) ELSE [s EXCEPT !.timers = (i :> 0) @@ @]

\* whenTransitionEnds, vue.js:8465-8471: one of them ended; the last one ends it all
OnEnd(s, i) ==
  IF s.timers[i] + 1 < PropCount(s, s.tr[i].elm) THEN [s EXCEPT !.timers[i] = @ + 1]
  ELSE CallEnd([s EXCEPT !.timers = Without(@, {i})], i)

\* whenTransitionEnds, vue.js:8472-8476: they never all ended
OnTimeout(s, i) == CallEnd([s EXCEPT !.timers = Without(@, {i})], i)

\* enter, vue.js:8625-8639, and leave: in the next frame the first class goes
\* and, unless cancelled, the transition runs to its end
RunFrames(s) ==
  LET one(t, i) ==
        LET r == t.tr[i]
            u == RemoveTransitionClass(t, r.elm, {r.kind})
        IN IF r.cancelled THEN u
           ELSE WhenTransitionEnds(AddTransitionClass(u, r.elm, {r.kind \o "-to"}), i)
  IN Each(one, [s EXCEPT !.frames = <<>>], s.frames)

-----------------------------------------------------------------------------
\* getRealChild, vue.js:9011-9019
RECURSIVE RealChild(_, _)
RealChild(s, v) ==
  IF v # 0 /\ s.vn[v].co.comp = "keep-alive" THEN RealChild(s, FirstComponentChild(s, s.vn[v].co.children))
  ELSE v

\* hasParentTransition, vue.js:9043-9049
RECURSIVE HasParentTransition(_, _)
HasParentTransition(s, v) ==
  v # 0 /\ s.vn[v].parent # 0
  /\ (s.vn[s.vn[v].parent].data.transition.on \/ HasParentTransition(s, s.vn[v].parent))

\* isSameChild, vue.js:9050-9052
IsSameChild(s, a, b) == s.vn[a].key = s.vn[b].key /\ s.vn[a].tag = s.vn[b].tag

\* Transition.render, vue.js:9090-9106: a key of this <transition>
TransitionKey(s, vm, v) ==
  LET n == s.vn[v] IN
  CASE ~IsDefKey(n.key) -> <<"tr", vm, IF n.isComment THEN "comment" ELSE n.tag>>
    [] IsDefKey(n.key) /\ n.key[1] = "tr" -> n.key
    [] OTHER -> <<"tr", vm, n.key>>

\* extractTransitionData, vue.js:9020-9034
TransitionData(s, vm) ==
  [NoTransition EXCEPT !.on = TRUE, !.appear = "appear" \in DOMAIN s.vm[vm].propsData]

ModeOf(s, vm) ==
  IF "mode" \in DOMAIN s.vm[vm].propsData THEN s.vm[vm].propsData["mode"] ELSE Undef

Mut_NoPlaceholder(s, vm, raw) == [s |-> s, it |-> <<"v", raw>>]

\* placeholder, vue.js:9035-9042
Placeholder(s, vm, raw) ==
  IF s.vn[raw].co.comp = "keep-alive" THEN KeepAliveVNode(s, vm, raw) ELSE [s |-> s, it |-> <<"u">>]

\* Transition.render, vue.js:9059-9156: the child with the transition's data;
\* out-in shows nothing until the old child is gone, in-out keeps the old one
\* until the new one has entered, and while the new one is not loaded
TransitionRender(s, vm) ==
  LET slot == IF "default" \in DOMAIN s.vm[vm].slots THEN s.vm[vm].slots["default"] ELSE <<>>
      children == SelectSeq(slot, LAMBDA v : s.vn[v].tag # "" \/ s.vn[v].factory # "")
      raw == children[1]
      child == RealChild(s, raw)
      data == TransitionData(s, vm)
      isShow == \E i \in DOMAIN s.vn[child].data.dirs : s.vn[child].data.dirs[i].name = "show"
      t == [s EXCEPT !.vn[child].key = TransitionKey(s, vm, child),
                     !.vn[child].data = [@ EXCEPT !.def = TRUE, !.transition = data, !.show = isShow]]
      old == RealChild(s, s.vm[vm].vnode)
      ci == IF old = 0 THEN 0 ELSE s.vn[old].ci
      changed == /\ old # 0 /\ s.vn[old].data.def
                 /\ ~IsSameChild(t, child, old)
                 /\ ~(s.vn[old].isComment /\ s.vn[old].factory # "")
                 /\ ~(ci # 0 /\ s.vn[s.vm[ci].vnode].isComment)
      mode == ModeOf(s, vm)
      loading == s.vn[child].isComment /\ s.vn[child].factory # ""
      held == [t EXCEPT !.vn[old].data.transition = data]
  IN CASE children = <<>> -> [s |-> s, it |-> <<"u">>]
       [] children # <<>> /\ (HasParentTransition(s, s.vm[vm].pvnode) \/ child = 0) ->
            [s |-> s, it |-> <<"v", raw>>]
       [] children # <<>> /\ ~HasParentTransition(s, s.vm[vm].pvnode) /\ child # 0 /\ s.vm[vm].leaving ->
            Placeholder(s, vm, raw)
       [] OTHER ->
            CASE ~changed -> [s |-> t, it |-> <<"v", raw>>]
              [] changed /\ mode = <<"s", "out-in">> ->
                   Placeholder([held EXCEPT !.vm[vm].leaving = TRUE,
                                            !.vn[old].data.transition.outIn = vm], vm, raw)
              [] changed /\ mode = <<"s", "in-out">> /\ loading ->
                   [s |-> held, it |-> <<"v", s.vm[vm].vnode>>]
              [] changed /\ mode = <<"s", "in-out">> /\ ~loading ->
                   [s |-> [held EXCEPT !.vn[child].data.transition.inOut = vm,
                                       !.vn[old].data.transition.delayed = vm],
                    it |-> <<"v", raw>>]
              [] OTHER -> [s |-> held, it |-> <<"v", raw>>]
=============================================================================
