----------------------------- MODULE MCVuePages -----------------------------
(***************************************************************************)
(* Two small instances of VueApp.  Update: the pages of the repository and *)
(* some that react to themselves, while a user types, checks and clicks    *)
(* and answers arrive.  View: views that come and go.  The repository's    *)
(* router shows its views by name, one of them loaded when it is visited;  *)
(* kept tabs, a panel and a part that is slow to load do what the router's *)
(* documentation does with views.                                          *)
(***************************************************************************)
EXTENDS FrontPages

-----------------------------------------------------------------------------
(* Update *)

Plus1(name) == Is(name, <<"add", V(name), N(1)>>)

\* a panel that opens and closes at a click; both of its states are one element
Toggle == <<El("div", <<>>, <<
  El("div", <<Directive("if", V("open")), Static("class", <<"panel">>), VOn("click", <<>>, Does(<<Is("open", No)>>))>>, <<El("i", <<>>, <<Text("shut")>>)>>),
  Blank,
  El("div", <<Flag("v-else"), Static("class", <<"head">>)>>, <<El("i", <<VOn("click", <<>>, Does(<<Is("open", Yes)>>))>>, <<Text("open")>>)>>)>>)>>

\* a number kept below three by a watcher, and a part that mirrors it
Clamp == <<El("div", <<>>, <<
  El("b", <<Directive("if", V("even")), VOn("click", <<>>, Does(<<Plus1("n")>>))>>, <<Says(<<V("twice")>>)>>),
  El("i", <<VOn("click", <<>>, Calls("later"))>>, <<Says(<<V("n")>>)>>),
  El("mirror", <<Bind("p", V("n")), VOn("grow", <<>>, Does(<<Plus1("n")>>))>>, <<>>)>>)>>
Counted(o) == [o EXCEPT !.data = ("renders" :> N(0)) @@ @,
                        !.hooks = ("beforeUpdate" :> <<<<Plus1("renders")>>>>) @@ @]
On(method, deep) == [exp |-> <<"lit", <<"u">>>>, handler |-> method, deep |-> deep, sync |-> FALSE, immediate |-> FALSE]
ClampOptions ==
  Counted([O!NoComponent EXCEPT
    !.data = [n |-> N(1), even |-> Yes],
    !.computed = [twice |-> <<"add", V("n"), V("n")>>],
    !.watch = [n |-> <<[On("clamp", FALSE) EXCEPT !.exp = V("n")]>>],
    !.methods = [clamp |-> Method(<<<<"if", <<"gt", V("n"), N(2)>>, <<Is("n", N(0))>>>>>>),
                 later |-> Method(<<Is("even", <<"not", V("even")>>), <<"tick", "more">>>>),
                 more |-> Method(<<Plus1("n")>>)]])
MirrorOptions ==
  Counted([O!NoComponent EXCEPT
    !.props = <<"array", <<"p">>>>, !.data = [own |-> N(0)],
    !.watch = [p |-> <<[On("follow", FALSE) EXCEPT !.exp = V("p")]>>],
    !.methods = [follow |-> Method(<<Is("own", V("p"))>>)]])
Mirror == <<El("i", <<VOn("click", <<>>, Does(<<Is("own", N(9)), <<"emit", "grow", <<>>>>>>))>>, <<Says(<<V("p"), V("own")>>)>>)>>

\* a choice that is a list, in boxes to check, and a part that gives up
Choose == <<El("div", <<>>, <<
  El("input", <<Static("type", "checkbox"), Static("value", "x"), Directive("model", V("chosen"))>>, <<>>),
  El("input", <<Static("type", "checkbox"), Directive("model", V("all"))>>, <<>>),
  El("b", <<>>, <<Says(<<<<"len", V("chosen")>>>>)>>),
  El("total", <<Directive("if", <<"not", V("all")>>), Bind("p", V("chosen"))>>, <<>>)>>)>>
ChooseOptions == [O!NoComponent EXCEPT !.data = [chosen |-> Arr(<<>>), all |-> No]]
Total == <<El("em", <<>>, <<Says(<<V("count")>>)>>)>>
\* a box that keys empty and fill
Keyed == <<El("input", <<Directive("model", V("said")),
                         VOn("keyup", <<"enter", "page-down">>, Does(<<Is("said", W(""))>>)),
                         VOn("keyup", <<"go", "ctrl">>, Does(<<Is("said", W("70"))>>))>>, <<>>)>>
TotalOptions == [O!NoComponent EXCEPT !.props = <<"array", <<"p">>>>, !.computed = [count |-> <<"len", V("p")>>]]

\* one choice and several out of a list that changes; two selects that are one
\* element, the first without v-model
Letters(xs) == Arr([i \in DOMAIN xs |-> W(xs[i])])
EachLetter == El("option", <<For("o", V("list")), Bind("value", V("o"))>>, <<Says(<<V("o")>>)>>)
Select == <<El("div", <<>>, <<
  El("select", <<Directive("if", V("plain")), Bind("title", V("pick"))>>, <<El("option", <<Bind("value", W("A"))>>, <<Text("A")>>)>>), Blank,
  El("select", <<Flag("v-else"), Directive("model", V("pick"))>>, <<EachLetter>>), Blank,
  El("select", <<Static("multiple", "multiple"), Directive("model", V("some"))>>, <<EachLetter>>),
  El("b", <<VOn("click", <<>>, Does(<<Is("plain", <<"not", V("plain")>>)>>))>>, <<Says(<<V("pick"), W("-"), <<"len", V("some")>>>>)>>)>>)>>
SelectOptions ==
  [O!NoComponent EXCEPT !.data = [list |-> Letters(<<"A", "B", "C">>), pick |-> W("B"), some |-> Letters(<<"A", "C">>), plain |-> No, cut |-> No]]

-----------------------------------------------------------------------------
PageOf == [demo |-> VueDemo, demo2 |-> VueDemo2, demo3 |-> VueDemo3, demo4 |-> VueDemo4, axios |-> AxiosDemo,
           app |-> App, emp |-> EmpView, element |-> ElementView, toggle |-> Toggle, keyed |-> Keyed, select |-> Select]
PartOf ==
  ("user-view" :> [trees |-> UserView, props |-> {}]) @@ ("el-button" :> [trees |-> ElButton, props |-> {}])
  @@ ("el-input" :> [trees |-> ElInput, props |-> {"value"}])
  @@ ("el-dialog" :> [trees |-> ElDialog, props |-> {"visible"}])
  @@ ("el-table" :> [trees |-> ElTable, props |-> {"data"}])

OptionsFor ==
  [demo |-> VueDemoOptions, demo2 |-> VueDemo2Options, demo3 |-> VueDemo3Options, demo4 |-> VueDemo4Options, axios |-> AxiosDemoOptions,
   app |-> AppOptions, emp |-> EmpViewOptions, element |-> ElementViewOptions,
   select |-> SelectOptions,
   toggle |-> [O!NoComponent EXCEPT !.data = [open |-> No]],
   keyed |-> [O!NoComponent EXCEPT !.data = [said |-> W("")]]]
PartOptions(p) ==
  IF p = "user-view" THEN UserViewOptions
  ELSE [O!NoComponent EXCEPT !.props = <<"array", SetToSeq(PartOf[p].props)>>]

UpdateOptions ==
  [p \in DOMAIN PageOf |-> Written(OptionsFor[p], PageOf[p], DOMAIN PartOf)]
  @@ [p \in DOMAIN PartOf |-> Written(PartOptions(p), PartOf[p].trees, DOMAIN PartOf)]
  @@ ("clamp" :> Written(ClampOptions, Clamp, {"mirror"})) @@ ("mirror" :> Written(MirrorOptions, Mirror, {}))
  @@ ("choose" :> Written(ChooseOptions, Choose, {"total"})) @@ ("total" :> Written(TotalOptions, Total, {}))
  @@ BuiltInOptions
UpdateFactories == <<>>
UpdateCssTransitions == <<>>
UpdateRoots == DOMAIN PageOf \cup {"clamp", "choose"}

\* an answer to what was asked
Answer(body) == <<<<"if", V("asked"), <<Is("asked", <<"add", V("asked"), N(-1)>>)>> \o body>>>>
Film(title) == <<"obj", [title |-> W(title), cover_url |-> W("c")]>>
UpdateTasks ==
  [demo |-> {<<Is("url", W("2"))>>},
   demo4 |-> {<<<<"call", V("list"), "reverse", <<>>>>>>, <<<<"call", V("list"), "shift", <<>>>>>>,
              <<<<"call", V("list"), "push", <<W("C")>>>>>>},
   select |-> {<<<<"call", V("list"), "shift", <<>>>>>>, <<<<"call", V("list"), "reverse", <<>>>>>>,
               <<<<"call", V("list"), "pop", <<>>>>, Is("cut", Yes)>>,
               <<Is("list", Letters(<<"C", "D">>)), Is("pick", W("A"))>>, <<Is("pick", W("C"))>>},
   axios |-> {Answer(<<Is("resByAxios", W("res"))>>)},
   emp |-> {Answer(<<Is("tableData", Arr(<<Film("one"), Film("two")>>))>>)},
   clamp |-> {<<Is("n", N(5)), Is("even", No)>>, <<Plus1("n")>>}]
  @@ ("user-view" :> {Answer(<<Is("UserData", W("one"))>>), Answer(<<Is("UserData", W("two"))>>)})
MCKeystrokes ==
  {[code |-> 13, name |-> "Enter", held |-> {}], [code |-> 34, name |-> "PageDown", held |-> {}],
   [code |-> 71, name |-> "g", held |-> {"ctrl"}]}
MCTexts == {<<"s", "40">>, <<"s", "70">>}

-----------------------------------------------------------------------------
Comp == s.vm[1].comp
Data == s.obj[s.vm[1].data].val
\* the data a part keeps for itself
Kept(heap, p) ==
  LET at == SelectInSeq(s.vm, LAMBDA r : r.comp = p) IN IF at = 0 THEN <<>> ELSE s.obj[s.vm[at].data].val

Quiet == Painted /\ s.event = NoEvent /\ \A e \in DOMAIN s.dom : ~s.dom[e].composing
World == [heap |-> s.obj, parts |-> PartOf, own |-> [p \in {"user-view"} |-> Kept(s.obj, p)], first |-> <<>>]

\* Nothing stays chosen in the list of several that is no longer offered: but
\* for what was cut off at the end, and when no option is left (vue.js:8856 looks
\* at the options there are now).
OffersTheChosen ==
  Comp = "select" /\ Data["cut"] = <<"b", FALSE>> /\ s.obj[Data["list"][2]].val # <<>> =>
    ToSet(s.obj[Data["some"][2]].val) \subseteq ToSet(s.obj[Data["list"][2]].val)

\* Whenever the user is not in the middle of something, the page and what its
\* boxes show are what the template means for the data: both ways of v-model
\* agree, a dialog's visible.sync and every answer that came included; and what
\* is chosen from a list is on it.
ShowsItsData ==
  Quiet /\ Comp \in DOMAIN PageOf =>
    /\ Many(World, PageOf[Comp], Data, <<>>) = <<Document(s.dom, s.vm[1].el)>>
    /\ OffersTheChosen

\* Between tasks a watcher listens to what its last evaluation read, once each,
\* and to nothing more; a destroyed component's watchers listen to nothing.
SubscriptionsAgree ==
  Painted =>
    \A w \in DOMAIN s.watcher :
      LET r == s.watcher[w]
          to == {d \in DOMAIN s.subs : Contains(s.subs[d], w)}
      IN /\ to = (IF r.active THEN ToSet(r.deps) ELSE {})
         /\ \A d \in to : Len(SelectSeq(s.subs[d], LAMBDA x : x = w)) = 1
         /\ r.active => ~s.vm[r.vm].destroyed

\* The click that opens the panel does not reach the listener the flush put on
\* the panel on its way up: each click toggles it once.
NotByTheClickThatMadeIt ==
  Painted /\ s.event = NoEvent /\ Comp = "toggle" => (Data["open"] = <<"b", TRUE>> <=> (s.clock \div 2) % 2 = 1)

Renders(t, vm) == IF vm \in DOMAIN t.vm THEN t.obj[t.vm[vm].data].val["renders"][2] ELSE 0
\* A flush renders each component at most once, however its watchers answer
\* each other on the way: parents first, watchers before the rendering.
RenderedOncePerFlush ==
  [][s.vm # <<>> /\ Comp = "clamp" /\ s.pending =>
       \A vm \in DOMAIN s.vm : Renders(s', vm) <= Renders(s, vm) + 1]_s

-----------------------------------------------------------------------------
(* View *)

Sets(name, value) == VOn("click", <<>>, Does(<<Is(name, value)>>))

\* router-view, with the links that lead to its two views
Routed == <<El("div", <<>>, <<
  El("i", <<Sets("view", W(Routes.home))>>, <<>>), El("i", <<Sets("view", W(Routes.about))>>, <<>>),
  El("component", <<Directive("if", V("there")), Bind("is", V("view"))>>, <<>>)>>)>>

\* a part that may be slow or fail, and that is taken away again
Charted == <<El("div", <<>>, <<
  El("i", <<Sets("on", <<"not", V("on")>>)>>, <<>>),
  El("component", <<Directive("if", V("on")), Bind("is", V("view"))>>, <<>>)>>)>>

\* three tabs, two of which are kept, with links from one to another; one leaves
\* before the next one enters, and each counts how often it woke
Link(from, to) == El("i", <<Directive("if", <<"eq", V("view"), W(from)>>), Sets("view", W(to))>>, <<>>)
Tabs(around(_)) == <<El("div", <<>>, <<
  El("p", <<Directive("if", V("on"))>>, <<
    Link("tab-a", "tab-b"), Link("tab-b", "tab-a"), Link("tab-b", "tab-c"), Link("tab-c", "tab-a"), El("em", <<Sets("on", No)>>, <<>>),
    around(El("component", <<Bind("is", V("view"))>>, <<>>))>>)>>)>>
Bare(t) == t
Wrapped(t) == El("transition", <<Static("mode", "out-in")>>, <<El("keep-alive", <<Bind("max", N(2))>>, <<t>>)>>)
Tab == <<El("b", <<>>, <<Says(<<V("n")>>)>>)>>
TabOptions == [O!NoComponent EXCEPT !.data = [n |-> N(0)],
                 !.hooks = [activated |-> <<<<Is("n", <<"add", V("n"), N(1)>>)>>>>]]

\* a panel that is hidden and shown, without a style of its own, and two that take
\* turns and fade
Faded(mode) == <<El("div", <<>>, <<
  El("i", <<Sets("b", <<"not", V("b")>>)>>, <<>>),
  El("transition", <<Static("mode", mode)>>, <<
    El("p", <<Directive("if", V("b")), Bind("key", W("x"))>>, <<Text("one")>>),
    El("p", <<Flag("v-else"), Bind("key", W("y"))>>, <<Text("two")>>)>>)>>)>>
Hiding == <<El("div", <<>>, <<
  El("i", <<Sets("b", <<"not", V("b")>>)>>, <<>>),
  El("transition", <<Static("appear", "")>>, <<El("h1", <<Directive("show", V("b"))>>, <<Text("one")>>)>>)>>)>>

Data1(d) == [O!NoComponent EXCEPT !.data = d]
ViewOptions ==
  [routed |-> Written(Data1([view |-> W(Routes.home), there |-> Yes]), Routed, {"home-view", "about-view"}),
   charted |-> Written(Data1([view |-> W("chart"), on |-> Yes]), Charted, {"chart"}),
   tabs |-> Written(Data1([view |-> W("tab-a"), on |-> Yes]), Tabs(Wrapped), {"tab-a", "tab-b", "tab-c"}),
   faded |-> Written(Data1([b |-> Yes]), Faded("in-out"), {}),
   hiding |-> Written(Data1([b |-> Yes]), Hiding, {})]
  @@ ("home-view" :> Written(O!NoComponent, HomeView, {"hello-world"}))
  @@ ("hello-world" :> Written(HelloWorldOptions, HelloWorld, {}))
  @@ ("about-page" :> Written(O!NoComponent, AboutView, {}))
  @@ [c \in {"drawn", "failed", "wait"} |-> Written(O!NoComponent, <<El("b", <<>>, <<Text(c)>>)>>, {})]
  @@ ("tab-a" :> Written(TabOptions, Tab, {})) @@ ("tab-b" :> Written(TabOptions, Tab, {}))
  @@ ("tab-c" :> Written(TabOptions, Tab, {}))
  @@ BuiltInOptions
ViewFactories ==
  ("about-view" :> [comp |-> "about-page", error |-> "", loading |-> "", delay |-> 0, timeout |-> FALSE])
  @@ ("chart" :> [comp |-> "drawn", error |-> "failed", loading |-> "wait", delay |-> 1, timeout |-> TRUE])
MCLazy == DOMAIN ViewFactories
ViewCssTransitions == ("p" :> 2) @@ ("b" :> 1)
ViewRoots == {"routed", "charted", "tabs", "faded", "hiding"}
ViewTasks == <<>>

-----------------------------------------------------------------------------
Data0 == s.obj[s.vm[1].data].val
\* nothing moves: no user's event, no frame and no transition is under way
Calm == Painted /\ s.event = NoEvent /\ s.frames = <<>> /\ s.timers = <<>>

\* what an asynchronous component has come to
Stage(f) ==
  CASE s.factory[f].error -> "failed"
    [] ~s.factory[f].error /\ s.factory[f].resolved # "" -> s.factory[f].resolved
    [] OTHER -> IF s.factory[f].loading THEN "wait" ELSE ""

Alive(c) == {vm \in DOMAIN s.vm : s.vm[vm].comp = c /\ ~s.vm[vm].destroyed}
Tree(c) ==
  CASE c \in {"tab-a", "tab-b", "tab-c"} -> Tab
    [] c = "home-view" -> HomeView
    [] c = "hello-world" -> HelloWorld
    [] c = "about-page" -> AboutView
    [] OTHER -> <<El("b", <<>>, <<Text(c)>>)>>
Here == IF "view" \notin DOMAIN Data0 THEN "" ELSE Data0["view"][2]
Shows == IF Here \in Lazy THEN Stage(Here) ELSE Here
WorldOf(view) ==
  LET parts == {view, "hello-world"} \ {""}
  IN [heap |-> s.obj, first |-> <<>>,
      parts |-> [p \in parts |-> [trees |-> Tree(p), props |-> IF p = "hello-world" THEN {"msg"} ELSE {}]],
      own |-> [p \in {c \in parts : Alive(c) # {} /\ c \in {"tab-a", "tab-b", "tab-c"}} |->
                 s.obj[s.vm[CHOOSE vm \in Alive(p) : TRUE].data].val]]
Meant ==
  CASE Comp = "routed" -> Routed
    [] Comp = "charted" -> Charted
    [] Comp = "tabs" -> Tabs(Bare)
    [] Comp = "faded" -> <<[Faded("")[1] EXCEPT !.kids = <<@[1]>> \o @[2].kids]>>
    [] OTHER -> <<[Hiding[1] EXCEPT !.kids = <<@[1]>> \o @[2].kids]>>

\* With out-in a tab is never in the document before the one it replaces left.
OneTabAtATime == Painted /\ Comp = "tabs" => Cardinality(Elements({"b"})) <= 1

\* When nothing moves the page shows the view its data names, with what that
\* view kept: as if nothing wrapped it, and with an asynchronous one as far as it
\* has come.  A view that arrives, fails or is late for its timeout changes what
\* is shown at once, and never a second time.
NamedViewIsShown ==
  Calm =>
    LET there == IF Shows = "" /\ Here # "" THEN ("there" :> <<"b", FALSE>>) @@ ("on" :> <<"b", FALSE>>) ELSE <<>>
        view == IF Here = "" THEN <<>> ELSE "view" :> <<"s", Shows>>
    IN Many(WorldOf(Shows), Meant, there @@ view @@ Data0, <<>>) = <<Document(s.dom, s.vm[1].el)>>

\* What is on the page: the view its data names, and never two tabs of out-in.
ShowsTheView == NamedViewIsShown /\ OneTabAtATime

\* the instances <keep-alive> keeps
Cached == UNION {{s.vm[k].cache[key].ci : key \in DOMAIN s.vm[k].cache} : k \in Alive("keep-alive")}
\* An instance is alive for a reason: it is in the document or kept, and of the
\* kept ones, never more than max, all but the one in the document sleep.
KeptOrGone ==
  Calm =>
    /\ \A vm \in DOMAIN s.vm :
         ~s.vm[vm].destroyed <=> vm \in Cached \/ (s.vm[vm].el # 0 /\ InDocument(s.vm[vm].el))
    /\ \A k \in Alive("keep-alive") :
         /\ ToSet(s.vm[k].keys) = DOMAIN s.vm[k].cache
         /\ Len(s.vm[k].keys) = Cardinality(DOMAIN s.vm[k].cache) /\ Len(s.vm[k].keys) <= 2
    /\ \A vm \in Cached : s.vm[vm].inactive = (IF InDocument(s.vm[vm].el) THEN "no" ELSE "yes")

\* Every entering and every leaving ends, whatever cancels or delays it, and
\* what has left is gone: no page keeps two views for good.
TransitionsEnd == \A i \in 1 .. 2 * MaxEvents + 2 : i \in DOMAIN s.tr ~> i \in DOMAIN s.tr /\ s.tr[i].done
=============================================================================
