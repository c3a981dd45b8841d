--------------------------- MODULE MCVueTemplates ---------------------------
(***************************************************************************)
(* Small instance of VueApp: templates with the constructs of the          *)
(* compiler, compiled, mounted and changed, against what they mean.        *)
(***************************************************************************)
EXTENDS FrontPages

List(tag, key, kids) == El(tag, <<For("x", V("items"))>> \o (IF key THEN <<Bind("key", V("x"))>> ELSE <<>>), kids)

-----------------------------------------------------------------------------
\* Components

Card == El("div", <<Static("class", <<"card">>)>>, <<
          El("h1", <<>>, <<El("slot", <<Static("name", "head")>>, <<Says(<<W("none")>>)>>)>>),
          Blank, Says(<<V("title")>>),
          El("slot", <<>>, <<El("i", <<>>, <<Says(<<W("empty")>>)>>)>>)>>)
Rows == El("ul", <<>>, <<
          El("li", <<For("x", V("list")), Bind("key", V("x"))>>, <<
            El("slot", <<Static("name", "row"), Bind("x", V("x"))>>, <<Says(<<W("-")>>)>>)>>)>>)
Item == El("li", <<Bind("class", <<"obj", [one |-> <<"eq", V("p"), N(1)>>]>>)>>, <<
          Says(<<V("p")>>), El("slot", <<>>, <<>>), El("b", <<>>, <<El("slot", <<>>, <<>>)>>)>>)

Frame1 == El("card", <<Bind("title", V("title"))>>, <<
            El("template", <<VSlot("head", "")>>, <<El("slot", <<Static("name", "head")>>, <<>>)>>),
            El("mark", <<Bind("x", V("title"))>>, <<El("slot", <<>>, <<Says(<<W("nothing")>>)>>)>>)>>)

-----------------------------------------------------------------------------
\* Pages

Keyed == El("ul", <<>>, <<List("li", TRUE, <<Says(<<V("x")>>)>>), El("p", <<>>, <<Says(<<V("n")>>)>>)>>)
Unkeyed == El("ul", <<>>, <<List("li", FALSE, <<Says(<<V("x")>>)>>),
                             El("li", <<>>, <<El("b", <<>>, <<Says(<<W("end")>>)>>)>>)>>)
Filtered == El("ul", <<>>, <<
              El("li", <<For("x", V("items")), Directive("if", <<"gt", V("x"), V("n")>>), Bind("key", V("x"))>>,
                 <<Says(<<V("x")>>)>>)>>)
Branches == El("div", <<>>, <<
              El("p", <<Directive("if", V("b"))>>, <<Says(<<V("n")>>)>>), Blank,
              El("b", <<Directive("else-if", <<"gt", V("n"), N(1)>>)>>, <<Says(<<W("many")>>)>>), Blank,
              El("i", <<Flag("v-else"), Bind("title", V("n"))>>, <<Says(<<W("no")>>)>>), Blank,
              El("span", <<Directive("show", V("b"))>>, <<Says(<<W("s")>>)>>)>>)
Fixed == El("div", <<>>, <<
           El("section", <<>>, <<El("p", <<>>, <<Says(<<W("fixed")>>)>>), Blank, El("b", <<>>, <<>>)>>),
           List("p", FALSE, <<El("b", <<>>, <<El("i", <<>>, <<Says(<<W("st")>>)>>)>>), Says(<<V("x")>>)>>),
           El("em", <<Flag("v-once")>>, <<Says(<<V("n")>>)>>),
           El("section", <<Bind("class", <<"obj", [many |-> <<"gt", V("n"), N(1)>>]>>)>>, <<
             El("b", <<>>, <<Says(<<W("in")>>)>>)>>),
           El("p", <<Directive("if", V("b"))>>, <<
             El("em", <<>>, <<El("b", <<>>, <<Says(<<W("on")>>)>>)>>), Says(<<V("n")>>)>>),
           El("p", <<Flag("v-pre")>>, <<El("b", <<Bind("title", V("n"))>>, <<Says(<<V("n")>>)>>)>>)>>)
Slotted == El("card", <<Bind("title", V("n")), Static("class", <<"wide">>), Bind("lang", V("b"))>>, <<
             El("b", <<Static("slot", "head"), Directive("if", V("b"))>>, <<Says(<<V("n")>>)>>),
             Says(<<W("rest "), V("b")>>)>>)
Scoped == El("rows", <<Bind("list", V("items"))>>, <<
            El("template", <<VSlot("row", "q")>>, <<
              El("b", <<Directive("if", V("b"))>>, <<Says(<<<<"dot", V("q"), "x">>>>)>>),
              El("i", <<Flag("v-else")>>, <<Says(<<V("n")>>)>>)>>)>>)
Instances == El("ul", <<>>, <<
               El("item", <<For("x", V("items")), Directive("if", V("b")), Bind("key", V("x")), Bind("p", V("x"))>>, <<>>),
               El("item", <<Bind("p", V("n")), Directive("show", V("b"))>>, <<El("i", <<>>, <<Says(<<V("n")>>)>>)>>)>>)
Dynamic == El("div", <<>>, <<
             El("component", <<Bind("is", <<"cond", V("b"), W("card"), W("item")>>), Bind("p", V("n")),
                               Static("title", "t")>>, <<Says(<<V("n")>>)>>)>>)
Chosen == El("div", <<>>, <<
            El("card", <<Directive("if", V("b")), Static("title", "c")>>, <<
              El("template", <<VSlot("head", "")>>, <<El("b", <<>>, <<Says(<<W("one")>>)>>)>>)>>),
            El("card", <<Flag("v-else"), Static("title", "c")>>, <<
              El("template", <<VSlot("head", "")>>, <<El("i", <<>>, <<Says(<<W("two")>>)>>)>>)>>)>>)
Written1 == El("div", <<Static("class", <<"base">>), Bind("class", <<"cond", V("b"), W("on"), W("")>>)>>, <<
              El("p", <<Flag("v-pre")>>, <<El("b", <<Bind("title", V("n"))>>, <<Says(<<V("n")>>)>>), El("card", <<>>, <<>>)>>),
              El("a", <<Bind("href", <<"cond", V("b"), V("n"), Lt(<<"u">>)>>), Static("title", "t"), Bind("draggable", V("b"))>>, <<Says(<<W("x")>>)>>),
              El("progress", <<Bind("value", V("n")), Bind("disabled", V("b"))>>, <<>>)>>)
Blocks == El("div", <<>>, <<
            El("template", <<For("x", V("items"))>>, <<
              El("p", <<>>, <<Says(<<V("x")>>)>>), Says(<<V("n")>>),
              El("template", <<Directive("if", V("b"))>>, <<El("b", <<>>, <<>>), El("i", <<>>, <<Says(<<V("$i")>>)>>)>>)>>),
            El("ul", <<>>, <<List("li", FALSE, <<El("b", <<For("y", V("x"))>>, <<Says(<<V("y")>>)>>)>>)>>)>>)

Table == El("table", <<>>, <<
           El("tr", <<For("x", V("items"))>>, <<
             El("td", <<>>, <<Says(<<V("x")>>)>>), El("td", <<>>, <<El("card", <<Bind("title", V("$i"))>>, <<>>)>>),
             El("td", <<Directive("if", V("b"))>>, <<Says(<<V("n")>>)>>)>>)>>)
Given1 == El("div", <<>>, <<
            El("card", <<Static("title", "c")>>, <<
              El("template", <<VSlot("head", ""), Directive("if", V("b"))>>, <<Says(<<V("n")>>)>>),
              El("template", <<VSlot("head", ""), Flag("v-else")>>, <<El("i", <<>>, <<Says(<<W("not")>>)>>)>>)>>)>>)
Passed == El("frame", <<Bind("title", V("n"))>>, <<
            El("template", <<VSlot("head", "")>>, <<El("b", <<>>, <<Says(<<V("b")>>)>>)>>),
            El("p", <<Directive("if", V("b"))>>, <<Says(<<V("n")>>)>>)>>)
Swaps == El("div", <<>>, <<
           El("swap", <<For("x", V("items")), Bind("p", <<"gt", V("x"), V("n")>>), Bind("x", V("x")),
                        Static("class", <<"in">>)>>, <<>>)>>)
Twins == El("p", <<Directive("if", V("b"))>>, <<Says(<<V("n")>>)>>)
Other == El("swap", <<Flag("v-else"), Bind("p", <<"gt", V("n"), N(1)>>), Bind("x", V("n"))>>, <<>>)

PageOf == [keyed |-> <<Keyed>>, unkeyed |-> <<Unkeyed>>, filtered |-> <<Filtered>>, branches |-> <<Branches>>,
           fixed |-> <<Fixed>>, slotted |-> <<Slotted>>, scoped |-> <<Scoped>>, instances |-> <<Instances>>,
           dynamic |-> <<Dynamic>>, chosen |-> <<Chosen>>, written |-> <<Written1>>, blocks |-> <<Blocks>>,
           table |-> <<Table>>, given |-> <<Given1>>, passed |-> <<Passed>>, swaps |-> <<Swaps>>,
           twins |-> <<Twins, Other>>]
PartOf == [card |-> [trees |-> <<Card>>, props |-> {"title"}],
           rows |-> [trees |-> <<Rows>>, props |-> {"list"}],
           item |-> [trees |-> <<Item>>, props |-> {"p"}],
           frame |-> [trees |-> <<Frame1>>, props |-> {"title"}],
           swap |-> [trees |-> <<El("b", <<Directive("if", V("p"))>>, <<Says(<<V("x")>>)>>),
                                 El("i", <<Flag("v-else"), Bind("title", V("x"))>>, <<>>)>>,
                     props |-> {"p", "x"}],
           mark |-> [trees |-> <<El("b", <<>>, <<Says(<<V("x")>>), El("slot", <<>>, <<>>)>>)>>, props |-> {"x"}]]

-----------------------------------------------------------------------------
\* the data of every page and what may happen to it

PageOptions ==
  [O!NoComponent EXCEPT !.data = [n |-> N(1), b |-> Lt(<<"b", TRUE>>), next |-> N(4),
                                  items |-> Arr(<<N(1), N(2), N(3)>>)]]
PartOptions(c) == [O!NoComponent EXCEPT !.props = <<"array", SetToSeq(PartOf[c].props)>>,
                                        !.functional = c = "mark"]

MCOptions ==
  [p \in DOMAIN PageOf |-> Written(PageOptions, PageOf[p], DOMAIN PartOf)]
  @@ [c \in DOMAIN PartOf |-> Written(PartOptions(c), PartOf[c].trees, DOMAIN PartOf)]
  @@ BuiltInOptions
MCFactories == <<>>
MCCssTransitions == <<>>
MCRoots == DOMAIN PageOf
MCTasks == [p \in MCRoots |-> {
  <<Is("n", <<"add", V("n"), N(1)>>)>>,
  <<Is("b", <<"not", V("b")>>)>>,
  <<<<"call", V("items"), "reverse", <<>>>>>>,
  <<<<"splice", V("items"), 1, 1, <<>>>>, <<"call", V("items"), "unshift", <<V("next")>>>>,
    Is("next", <<"add", V("next"), N(1)>>)>>,
  <<Is("items", Arr(<<N(3), N(9), N(1), N(2)>>)), Is("n", N(0))>> }]

-----------------------------------------------------------------------------
Data == s.obj[s.vm[1].data].val
First == [n |-> <<"n", 1>>]

\* When the page is up and nothing waits to be rendered, the document is what
\* the templates mean for the data there is: what was compiled, cached as
\* static, reused by the patch and updated shows no older state (compileToFunctions
\* to patch).
DomIsMeaning ==
  Painted =>
    Many([heap |-> s.obj, parts |-> PartOf, own |-> <<>>, first |-> First], PageOf[s.vm[1].comp], Data, <<>>)
    = <<Document(s.dom, s.vm[1].el)>>

\* the elements of the items in the document, by what they show
RECURSIVE Below(_, _)
Below(t, e) == {e} \cup UNION {Below(t, t.dom[e].kids[i]) : i \in DOMAIN t.dom[e].kids}
ItemNodes(t) == {e \in Below(t, 1) : t.dom[e].tag = "li"}

\* An item that stays in a keyed list keeps its element, wherever it moves:
\* what the user did to it stays with its item (updateChildren).
KeyedKept ==
  [][s.vm # <<>> /\ s.vm[1].comp \in {"keyed", "filtered"} =>
       \A e \in ItemNodes(s), f \in ItemNodes(s') :
         Document(s.dom, e) = Document(s'.dom, f) => e = f]_s
=============================================================================
