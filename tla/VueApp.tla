-------------------------------- MODULE VueApp --------------------------------
(***************************************************************************)
(* A Vue application in the browser (vue.js in a page): one thread that    *)
(* runs tasks, and after each callback of a task the microtask Vue asked   *)
(* for.  The user's events bubble through the document listener by         *)
(* listener, so a flush may come between two listeners of one event; next  *)
(* frames, the ends of CSS transitions, the loading of asynchronous        *)
(* components and the application's own callbacks are tasks of their own.  *)
(***************************************************************************)
EXTENDS VueDom

CONSTANTS Turn(_, _),   \* what a call into Vue makes of its state (VueRuntime)
          Lazy,         \* the names of the asynchronous components
          Roots,        \* the components the page may be
          Tasks,        \* what the callbacks of a component do: a set of bodies
          Touched,      \* the tags the user clicks on
          Texts,        \* what the user types
          Keystrokes,   \* and the keys: [code, name, held], held the system keys
          MaxEvents     \* bound: events and callbacks of one behaviour

VARIABLE s

\* The state of the runtime before anything is mounted: one empty element in
\* the document, node 1

NewFactory == [resolved |-> "", error |-> FALSE, errorComp |-> "", loadingComp |-> "", loading |-> FALSE,
               asked |-> FALSE, settled |-> FALSE, owners |-> <<>>, timers |-> {}]
NewRuntime ==
  [obj |-> <<>>, subs |-> <<>>, unclean |-> {}, watcher |-> <<>>, targets |-> <<>>, shouldObserve |-> TRUE,
   queue |-> <<>>, has |-> {}, waiting |-> FALSE, flushing |-> FALSE, index |-> 0, circular |-> <<>>,
   activated |-> <<>>, callbacks |-> <<>>, pending |-> FALSE, cut |-> FALSE, clock |-> 0, flushAt |-> 0,
   vn |-> <<>>, dom |-> <<[NoDomNode EXCEPT !.tag = "body", !.kids = <<2>>],
                          [NoDomNode EXCEPT !.tag = "div", !.parent = 1]>>,
   fn |-> <<>>, rm |-> <<>>, tr |-> <<>>, frames |-> <<>>, timers |-> <<>>, inserted |-> <<>>,
   vm |-> <<>>, active |-> 0, rendering |-> 0, factory |-> [f \in Lazy |-> NewFactory],
   thrown |-> FALSE, errors |-> 0, event |-> NoEvent]

-----------------------------------------------------------------------------
Idle == s.vm # <<>> /\ ~s.pending /\ s.event = NoEvent
\* the browser paints between tasks, when no microtask waits
Painted == s.vm # <<>> /\ ~s.pending

InDocument(e) == Last(PathOf(s.dom, e)) = 1
Hidden(e) == "display" \in DOMAIN s.dom[e].style /\ s.dom[e].style["display"] = <<"s", "none">>
\* what the user can reach: in the document, and nothing around it is hidden
Elements(tags) ==
  {e \in DOMAIN s.dom : s.dom[e].tag \in tags /\ InDocument(e) /\ \A x \in ToSet(PathOf(s.dom, e)) : ~Hidden(x)}

Init == s = NewRuntime

\* the page's script creates the application, vue.js:4744-4746
Begin == s.vm = <<>> /\ \E r \in Roots : <<s' = Turn(s, <<"start", r>>)>>_s

-----------------------------------------------------------------------------
\* A task: its time is later than that of any flush before it
TimeLeft == Idle /\ s.clock < 2 * MaxEvents
Event(type, e) == EventFor(s, type, e, s.clock + 1)
Tick == [s EXCEPT !.clock = @ + 2]

\* an event nobody listens to changes nothing
Heard(e, type) == \E i \in DOMAIN PathOf(s.dom, e) : ListenersOf(s.dom[PathOf(s.dom, e)[i]].on, type) # <<>>

Click ==
  TimeLeft /\ \E e \in Elements(Touched) :
    Heard(e, "click") /\ s' = [Tick EXCEPT !.event = Event("click", e)]

KeyUp(e) ==
  /\ Heard(e, "keyup")
  /\ \E k \in Keystrokes :
       s' = [Tick EXCEPT !.event = [Event("keyup", e) EXCEPT !.key = [code |-> k.code, name |-> k.name],
                                                             !.held = k.held]]

\* the user changes what an input shows
KindOf(e) == IF "type" \in DOMAIN s.dom[e].attrs THEN s.dom[e].attrs["type"][2] ELSE "text"
Type(e) ==
  /\ KindOf(e) = "text"
  /\ \E t \in Texts : s' = [Tick EXCEPT !.event = Event("input", e),
                                       !.dom[e].props = ("value" :> t) @@ @]
Check(e) ==
  /\ KindOf(e) = "checkbox"
  /\ s' = [Tick EXCEPT !.event = Event("change", e),
              !.dom[e].props = ("checked" :> <<"b", Falsy(At(@, "checked"))>>) @@ @]
\* an option of a select, in place of the one that was chosen or besides
Pick(e) ==
  \E o \in ToSet(OptionNodes(s, e)) :
    LET now == {x \in ToSet(OptionNodes(s, e)) : IsSelected(s, x)}
        on == IF ~IsMultiple(s, e) THEN {o} ELSE IF o \in now THEN now \ {o} ELSE now \cup {o}
    IN on # now /\ s' = [SelectOnly(Tick, e, on) EXCEPT !.event = Event("change", e)]

\* onCompositionStart, vue.js:8915-8917
Compose(e) == s.dom[e].vmodel /\ ~s.dom[e].composing /\ s' = [Tick EXCEPT !.dom[e].composing = TRUE]

\* onCompositionEnd, vue.js:8918-8924, with trigger, vue.js:8925-8929
EndComposing(e) ==
  /\ s.dom[e].composing
  /\ s' = [Tick EXCEPT !.dom[e].composing = FALSE, !.event = Event("input", e)]

Edit ==
  /\ TimeLeft
  /\ \/ \E e \in Elements({"input"}) : Type(e) \/ Check(e) \/ KeyUp(e) \/ Compose(e) \/ EndComposing(e)
     \/ \E e \in Elements({"select"}) : Pick(e)

\* a callback of a component, a timer or an answer, whatever became of it
Task ==
  TimeLeft /\ \E vm \in DOMAIN s.vm : \E body \in IF s.vm[vm].comp \in DOMAIN Tasks THEN Tasks[s.vm[vm].comp] ELSE {} :
    <<s' = Turn(Tick, <<"run", vm, body>>)>>_s

-----------------------------------------------------------------------------
Bubbling == s.event # NoEvent /\ ~s.pending

\* the event goes on to its next listener
Deliver == Bubbling /\ ~Arrived(s) /\ <<s' = Turn(AtListener(s), <<"listener">>)>>_s

\* the event has been everywhere, or was stopped
EndEvent == Bubbling /\ Arrived(s) /\ s' = [s EXCEPT !.event = NoEvent]

\* flushCallbacks, vue.js:3761-3768, as timerFunc, vue.js:3788-3797, has it called
Microtask == s.pending /\ <<s' = Turn(s, <<"flush">>)>>_s

-----------------------------------------------------------------------------
\* nextFrame, vue.js:8435-8440
Frame == Idle /\ s.frames # <<>> /\ <<s' = Turn(s, <<"frames">>)>>_s

\* whenTransitionEnds, vue.js:8454-8477: a transitionend event, or the timer that
\* comes when they do not
TransitionEnd == Idle /\ \E i \in DOMAIN s.timers : <<s' = Turn(s, <<"transition end", i>>)>>_s
TransitionTimeout == Idle /\ \E i \in DOMAIN s.timers : <<s' = Turn(s, <<"transition timeout", i>>)>>_s

\* the factory's promise of an asynchronous component settles, vue.js:2630-2640
Settle ==
  /\ Idle
  /\ \E f \in Lazy :
       LET t == [s EXCEPT !.factory[f].settled = TRUE]
       IN /\ s.factory[f].asked /\ ~s.factory[f].settled
          /\ \E how \in {"resolve", "reject"} : <<s' = Turn(t, <<how, f>>)>>_s

\* the timers of its loading and its timeout, vue.js:2643-2667
FactoryTimer ==
  Idle /\ \E f \in Lazy : \E t \in s.factory[f].timers : <<s' = Turn(s, <<"timer", f, t>>)>>_s

Next ==
  \/ Begin
  \/ Click \/ Edit \/ Task
  \/ Deliver \/ EndEvent \/ Microtask
  \/ Frame \/ TransitionEnd \/ TransitionTimeout
  \/ Settle \/ FactoryTimer

\* The browser goes on with what is due: what the thread began ends, the next
\* frame comes, and a CSS transition ends.  The user, the application's callbacks
\* and the network promise nothing.  (Said of the state, and not with WF, since
\* TLC cannot tell cheaply whether a call of Turn is enabled.)
Fairness ==
  /\ []<>(~s.pending /\ s.event = NoEvent)
  /\ []<>(s.frames = <<>>)
  /\ \A i \in 1 .. 2 * MaxEvents + 2 : []<>(i \notin DOMAIN s.timers)

Spec == Init /\ [][Next]_s /\ Fairness
=============================================================================
