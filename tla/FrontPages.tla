----------------------------- MODULE FrontPages -----------------------------
(***************************************************************************)
(* The pages of the repository's front end (FrontBase): the first steps    *)
(* with Vue in VueDemo*.html and AxiosDemo.html, and the views of          *)
(* vue-project.  Each is a template, as trees, and options.  Of the        *)
(* component library (element-ui) they use the parts that keep or pass on  *)
(* state: el-button, el-input, el-dialog, el-table, as the views use them. *)
(* Texts are shortened; what only lays out or logs is left out.            *)
(***************************************************************************)
EXTENDS VueMeaning, VueApp, VueRuntime

O == INSTANCE VueOptions
C == INSTANCE VueCompiler WITH KeepComments <- FALSE

MCReservedTags == {"div", "p", "b", "i", "ul", "li", "em", "h1", "section", "table", "tr", "td", "span",
                   "input", "select", "option", "progress", "a", "button", "template", "slot"}

\* the page names one key itself
MCConfigKeyCodes == "go" :> {71}

\* Vue.options: what every component may use
BuiltIn == ("keep-alive" :> "keep-alive") @@ ("transition" :> "transition")
Known(names) == [O!NoComponent EXCEPT !.components = [n \in names |-> n] @@ BuiltIn]
BuiltInOptions ==
  ("keep-alive" :> (O!MergeOptions(Known({}), R!KeepAliveOptions) @@ [render |-> [op |-> "keep-alive"], statics |-> <<>>]))
  @@ ("transition" :> (O!MergeOptions(Known({}),
        [O!NoComponent EXCEPT !.abstract = TRUE, !.props = <<"array", <<"appear", "mode", "name">>>>])
      @@ [render |-> [op |-> "transition"], statics |-> <<>>]))

\* a component from its options and its template; every component knows names
Written(o, trees, names) ==
  O!MergeOptions(Known(names), o) @@ C!Compile(Tokens(trees))

-----------------------------------------------------------------------------
Is(name, e) == <<"set", V(name), e>>
Yes == Lt(<<"b", TRUE>>)
No == Lt(<<"b", FALSE>>)
Method(body) == [params |-> <<>>, body |-> body]
Text(x) == Says(<<W(x)>>)

-----------------------------------------------------------------------------
\* element-ui, as the views use it

\* el-button: its own button, whose click it passes on
ElButton == <<El("button", <<VOn("click", <<>>, Does(<<<<"emit", "click", <<>>>>>>))>>, <<El("slot", <<>>, <<>>)>>)>>

\* el-input: shows its value and emits what is typed
ElInput == <<El("div", <<>>, <<
  El("input", <<Bind("value", V("value")),
                VOn("input", <<>>, Does(<<<<"emit", "input", <<<<"target", "value">>>>>>>>))>>, <<>>)>>)>>

\* el-dialog: visible.sync, and a button that closes it
ElDialog == <<El("div", <<Directive("show", V("visible"))>>, <<
  El("button", <<VOn("click", <<>>, Does(<<<<"emit", "update:visible", <<No>>>>>>))>>, <<Text("x")>>),
  El("slot", <<>>, <<>>)>>)>>

\* el-table: a row for each item of data; its columns are the slot it is given
ElTable == <<El("table", <<>>, <<
  El("tr", <<For("row", V("data"))>>, <<El("slot", <<Static("name", "columns"), Bind("row", V("row"))>>, <<>>)>>)>>)>>

-----------------------------------------------------------------------------
\* VueDemo.html:13-22: two links whose address is typed
VueDemo == <<El("div", <<>>, <<
  El("a", <<Bind("href", V("url"))>>, <<Text("1")>>), Blank,
  El("a", <<Bind("href", V("url"))>>, <<Text("2")>>), Blank,
  El("input", <<Static("type", "text"), Directive("model", V("url"))>>, <<>>)>>)>>
\* VueDemo.html:26-34
VueDemoOptions == [O!NoComponent EXCEPT !.data = [url |-> W("0")]]

\* VueDemo2.html:13-17: two buttons with one handler, called and named
VueDemo2 == <<El("div", <<>>, <<
  El("input", <<Static("type", "button"), VOn("click", <<>>, Does(<<<<"do", "handle", <<>>>>>>))>>, <<>>),
  El("input", <<Static("type", "button"), VOn("click", <<>>, Does(<<<<"do", "handle", <<>>>>>>))>>, <<>>)>>)>>
\* VueDemo2.html:21-33: the handler only logs
VueDemo2Options == [O!NoComponent EXCEPT !.methods = [handle |-> Method(<<>>)]]

Above35 == <<"gt", V("age"), N(35)>>
From60 == <<"not", <<"gt", N(60), V("age")>>>>
Between == <<"and", Above35, <<"gt", N(60), V("age")>>>>
\* VueDemo3.html:13-29: an age in two boxes, judged by v-if and by v-show
VueDemo3 == <<El("div", <<>>, <<
  El("input", <<Static("type", "text"), Directive("model", V("age"))>>, <<>>), Text("is"),
  El("span", <<Directive("if", <<"not", Above35>>)>>, <<Text("young")>>), Blank,
  El("span", <<Directive("else-if", Between)>>, <<Text("middle-aged")>>), Blank,
  El("span", <<Flag("v-else")>>, <<Text("old")>>), Blank,
  El("input", <<Static("type", "text"), Directive("model", V("age"))>>, <<>>), Text("is"),
  El("span", <<Directive("show", <<"not", Above35>>)>>, <<Text("young")>>), Blank,
  El("span", <<Directive("show", Between)>>, <<Text("middle-aged")>>), Blank,
  El("span", <<Directive("show", From60)>>, <<Text("old")>>)>>)>>
\* VueDemo3.html:33-40
VueDemo3Options == [O!NoComponent EXCEPT !.data = [age |-> N(20)]]

\* VueDemo4.html:13-17: a list twice, keyed by the index and not keyed
VueDemo4 == <<El("div", <<>>, <<
  El("div", <<For("item", V("list")), Bind("key", V("$i"))>>, <<Says(<<V("$i"), W(": "), V("item")>>)>>), Blank,
  El("b", <<>>, <<>>), Blank,
  El("div", <<For("item", V("list"))>>, <<Says(<<V("item")>>)>>)>>)>>
\* VueDemo4.html:21-28: strings, numbers and a truth value
VueDemo4Options == [O!NoComponent EXCEPT !.data = [list |-> Arr(<<N(12), W("Java"), Yes>>)]]

\* AxiosDemo.html:13-15
AxiosDemo == <<El("div", <<>>, <<El("div", <<>>, <<Says(<<W("data: "), V("resByAxios")>>)>>)>>)>>
\* AxiosDemo.html:18-31: asks when it is mounted
AxiosDemoOptions ==
  [O!NoComponent EXCEPT !.data = [resByAxios |-> W(""), asked |-> N(0)],
                        !.hooks = [mounted |-> <<<<Is("asked", <<"add", V("asked"), N(1)>>)>>>>]]

-----------------------------------------------------------------------------
\* UserView.vue:1-7
UserView == <<El("div", <<>>, <<
  El("el-button", <<VOn("click", <<>>, Calls("sendRequest"))>>, <<Text("update")>>),
  El("span", <<>>, <<Says(<<W("Message: "), V("UserData")>>)>>)>>)>>
\* UserView.vue:11-31: asks at each click; tells at each update
UserViewOptions ==
  [O!NoComponent EXCEPT !.data = [UserData |-> W("[]"), asked |-> N(0)],
                        !.methods = [sendRequest |-> Method(<<Is("asked", <<"add", V("asked"), N(1)>>)>>)]]

\* App.vue:2-8
App == <<El("div", <<>>, <<El("user-view", <<>>, <<>>)>>)>>
\* App.vue:15-25
AppOptions == [O!NoComponent EXCEPT !.data = [message |-> W("Hello Vue")]]

\* EmpView.vue:1-56: a form and a table of what the server has
EmpView == <<El("div", <<>>, <<
  El("div", <<Static("class", <<"demo-form-inline">>)>>, <<
    El("el-input", <<Directive("model", <<"dot", V("formInline"), "name">>)>>, <<>>),
    El("el-button", <<VOn("click", <<>>, Calls("onSubmit"))>>, <<Text("ask")>>)>>),
  El("el-table", <<Bind("data", V("tableData"))>>, <<
    El("template", <<VSlot("columns", "scope")>>, <<
      El("td", <<>>, <<Says(<<<<"dot", <<"dot", V("scope"), "row">>, "title">>>>)>>),
      El("td", <<>>, <<Says(<<W("src = "), <<"dot", <<"dot", V("scope"), "row">>, "cover_url">>>>)>>)>>)>>)>>)>>
\* EmpView.vue:62-89: asks when it is mounted; what is submitted is only shown
EmpViewOptions ==
  [O!NoComponent EXCEPT !.data = [tableData |-> Arr(<<>>), formInline |-> <<"obj", [name |-> W(""), regions |-> W("")]>>,
                                  asked |-> N(0)],
                        !.methods = [onSubmit |-> Method(<<>>)],
                        !.hooks = [mounted |-> <<<<Is("asked", <<"add", V("asked"), N(1)>>)>>>>]]

Grid == El("el-table", <<Bind("data", V("gridData"))>>, <<
          El("template", <<VSlot("columns", "scope")>>, <<
            El("td", <<>>, <<Says(<<<<"dot", <<"dot", V("scope"), "row">>, "date">>>>)>>)>>)>>)
Form == El("div", <<>>, <<
          El("el-input", <<Directive("model", <<"dot", V("form"), "name">>)>>, <<>>),
          El("el-button", <<VOn("click", <<>>, Calls("onSubmit"))>>, <<Text("create")>>)>>)
Dialog(visible, kid) ==
  El("el-dialog", <<[Bind("visible", V(visible)) EXCEPT !.mods = <<"sync">>]>>, <<kid>>)
Opens(visible) == El("el-button", <<VOn("click", <<>>, Does(<<Is(visible, Yes)>>))>>, <<Text("open")>>)
\* ElementView.vue:38-101: two dialogs, each opened by a button and closed by itself
ElementView == <<El("div", <<>>, <<
  Opens("dialogTableVisible"), Dialog("dialogTableVisible", Grid),
  Opens("dialogFormVisible"), Dialog("dialogFormVisible", Form)>>)>>
\* ElementView.vue:105-187
ElementViewOptions ==
  [O!NoComponent EXCEPT !.data = [form |-> <<"obj", [name |-> W(""), region |-> W("")]>>,
                                  gridData |-> Arr(<<<<"obj", [date |-> W("2016")]>>>>),
                                  dialogTableVisible |-> No, dialogFormVisible |-> No],
                        !.methods = [onSubmit |-> Method(<<>>)]]

-----------------------------------------------------------------------------
\* HelloWorld.vue:1-32
HelloWorld == <<El("div", <<Static("class", <<"hello">>)>>, <<
  El("h1", <<>>, <<Says(<<V("msg")>>)>>),
  El("ul", <<>>, <<El("li", <<>>, <<El("a", <<Static("href", "babel")>>, <<Text("babel")>>)>>),
                   El("li", <<>>, <<El("a", <<Static("href", "router")>>, <<Text("router")>>)>>)>>)>>)>>
\* HelloWorld.vue:35-40
HelloWorldOptions == [O!NoComponent EXCEPT !.props = <<"object", [msg |-> [O!AnyProp EXCEPT !.types = <<"String">>]]>>]

\* HomeView.vue:1-17
HomeView == <<El("div", <<Static("class", <<"home">>)>>, <<
  El("b", <<Static("alt", "logo")>>, <<>>), El("hello-world", <<Static("msg", "Welcome")>>, <<>>)>>)>>

\* AboutView.vue:1-5
AboutView == <<El("div", <<Static("class", <<"about">>)>>, <<El("h1", <<>>, <<Text("about")>>)>>)>>

\* index.js:7-25: the first view is at hand, the second is loaded when it is visited
Routes == [home |-> "home-view", about |-> "about-view"]
=============================================================================
