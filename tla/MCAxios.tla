------------------------------ MODULE MCAxios ------------------------------
(***************************************************************************)
(* Axios for TLC.  Each plan is an initial state: some are about           *)
(* cancellation, some about interceptors, one about progress, and one for  *)
(* each of the request options below is about what is sent.                *)
(***************************************************************************)
EXTENDS Axios, AxiosOptions

MCLocation == [scheme |-> "https", host |-> "home"]
MCCookies == "XSRF-TOKEN" :> "t1"

Path(p) == <<"url", [scheme |-> "", host |-> "", path |-> <<p>>, query |-> <<>>, hash |-> ""]>>
At(scheme, host, p) == <<"url", [Path(p)[2] EXCEPT !.scheme = scheme, !.host = host]>>
Anchored(p) == <<"url", [Path(p)[2] EXCEPT !.hash = "top", !.query = <<<<<<"p">>, Num(1)>>>>]>>

Get(p) == AliasNoData("get", Path(p), None)
With(config, more) == more @@ config
Token1 == "cancelToken" :> <<"token", 1>>
Signal1 == "signal" :> <<"signal", 1>>
Fetch == "adapter" :> Str("fetch")
Timed == "timeout" :> Num(5)
Again(r) == <<"again", r>>
New(config) == <<"new", config>>

Hook == [does |-> "pass", rejected |-> "none", sync |-> FALSE, skips |-> {}]
Sync == [Hook EXCEPT !.sync = TRUE]
Good == [status |-> 200, lines |-> <<<<"etag", "a">>, <<"etag", "b">>, <<"set-cookie", "c">>, <<"vary", "d">>, <<"vary", "e">>>>,
         data |-> Json(Fields(<<<<"data", Str("x")>>>>))]
Missing == [Good EXCEPT !.status = 404]
Broken == [Good EXCEPT !.data = Str("<html>")]

Plan == [defaults |-> Defaults, asks |-> <<>>, request |-> <<>>, response |-> <<>>,
         answers |-> {Good}, fails |-> FALSE, manages |-> FALSE, readBack |-> Undef,
         pairs |-> <<>>]

\* cancellation: two requests that share a token, over either adapter
Cancelled ==
  {[Plan EXCEPT !.asks = <<New(With(Get("a"), Token1 @@ Signal1 @@ Timed)), New(With(Get("b"), Token1))>>,
                !.answers = {Good, Missing}, !.fails = TRUE, !.response = <<Hook>>],
   [Plan EXCEPT !.asks = <<New(With(Get("a"), Fetch @@ Token1 @@ Signal1 @@ Timed)),
                           New(With(Get("b"), Fetch @@ Signal1))>>,
                !.fails = TRUE],
   [Plan EXCEPT !.asks = <<New(With(Get("a"), Fetch @@ Token1)), New(With(Get("b"), Signal1))>>],
   \* the latest wins: the second request cancels the first
   [Plan EXCEPT !.asks = <<New(With(Get("a"), Token1)), New(AliasWithData("post", Path("b"), Str("x"), None, FALSE))>>,
                !.request = <<[Hook EXCEPT !.does = "cancel", !.skips = {Str("get")}]>>]}

\* interceptors: asynchronous and synchronous ones that throw, add a header,
\* recover; one of them ejected at any moment
Chains ==
  {[Plan EXCEPT !.asks = <<New(Get("a")), New(Get("b"))>>, !.manages = TRUE,
                !.request = <<Hook>>, !.response = <<Hook>>],
   [Plan EXCEPT !.asks = <<New(With(Get("a"), Signal1))>>, !.manages = TRUE,
                !.request = <<Hook, [Hook EXCEPT !.does = "header"]>>],
   [Plan EXCEPT !.asks = <<New(With(Get("a"), Token1))>>, !.fails = TRUE, !.answers = {Missing, Broken},
                !.request = <<[Hook EXCEPT !.rejected = "recover"], [Hook EXCEPT !.does = "throw"]>>,
                !.response = <<[Hook EXCEPT !.rejected = "rethrow"], [Hook EXCEPT !.rejected = "recover"]>>],
   [Plan EXCEPT !.asks = <<New(Get("a"))>>, !.request = <<[Hook EXCEPT !.does = "throw"], Hook>>,
                !.response = <<[Hook EXCEPT !.does = "throw"], [Hook EXCEPT !.rejected = "recover"]>>]}
  \cup
  {[Plan EXCEPT !.asks = <<New(With(Get("a"), Signal1))>>, !.response = <<Hook>>,
                !.request = <<Sync, [Sync EXCEPT !.does = "throw", !.rejected = rejected]>>] :
     rejected \in {"none", "recover", "rethrow"}}
  \cup
  {[Plan EXCEPT !.asks = <<New(Get("a"))>>, !.request = <<[Sync EXCEPT !.does = does], Hook>>] : does \in {"strip", "bare"}}
  \cup
  {[Plan EXCEPT !.asks = <<New(With(Get("a"), Token1)), New(With(Get("b"), Token1))>>,
                !.request = <<[Sync EXCEPT !.does = "header"], [Sync EXCEPT !.does = "cancel", !.skips = {Str("post")}]>>,
                !.response = <<[Hook EXCEPT !.rejected = "recover"]>>]}

Downloads ==
  {[Plan EXCEPT !.asks = <<New(With(With(Get("a"), "onDownloadProgress" :> Fn("f")), more))>>] : more \in {None, Fetch}}

\* what is refused before it is sent
Refused ==
  {[Plan EXCEPT !.asks = <<New(With(With(Get("a"), Token1), more)), New(Get("b"))>>] :
     more \in {"adapter" :> Str("http"), "adapter" :> Str("gopher"), "url" :> At("ftp", "far", "a"),
               "transitional" :> Obj("silentJSONParsing" :> Str("yes")),
               "transitional" :> Obj("loudParsing" :> Bool(TRUE))}}

Person == Fields(<<<<"name", Str("Ann")>>, <<"none", Null>>, <<"tags", List(<<Str("a"), Str("b")>>)>>,
                   <<"job", Fields(<<<<"id", Num(7)>>, <<"at", List(<<Str("x")>>)>>>>)>>>>)
PersonPairs == <<<<<<"name">>, Str("Ann")>>, <<<<"tags", "[]">>, Str("a")>>, <<<<"tags", "[]">>, Str("b")>>,
                 <<<<"job", "id">>, Num(7)>>, <<<<"job", "at", "0">>, Str("x")>>>>
PersonRead == Fields(<<<<"name", Str("Ann")>>, <<"tags", List(<<Str("a"), Str("b")>>)>>,
                       <<"job", Fields(<<<<"id", Num(7)>>, <<"at", List(<<Str("x")>>)>>>>)>>>>)
Headers(f) == "headers" :> Obj(f)
Type(v) == Headers("content-type" :> v)
Post(data, config) == AliasWithData("post", Path("save"), data, config, FALSE)

\* what is sent: bodies and the types asked for; headers in all layers; the
\* address, credentials and the token against forgery
Options ==
  {Post(data, config) : data \in {Undef, Null, Person, Form(PersonPairs), Str("x"), Blob,
                                  Params(<<<<<<"p">>, Num(1)>>>>)},
                        config \in {None, Type(JsonType), Type(Str("application/vnd.x+json")), Type(No), Type(Null)}}
  \cup {Post(Person, Type(t)) : t \in {UrlEncoded, Undef}}
  \cup {AliasWithData("post", Path("save"), Person, None, TRUE), AliasNoData("delete", Path("save"), "data" :> Person)}
  \cup {With(Get("a"), Headers(("common" :> Obj("accept" :> c)) @@ ("get" :> Obj("x-page" :> c)) @@ own)) :
          c \in {Str("c"), No, Undef}, own \in {None, ("accept" :> Str("o")) @@ ("x-page" :> Null), "accept" :> No}}
  \cup {With(With(Get("a"), "params" :> params), "url" :> url) :
          params \in {Undef, Fields(<<<<"q", Num(1)>>, <<"l", List(<<Num(1), Null, Num(2)>>)>>>>),
                      Params(<<<<<<"q">>, Num(1)>>>>), Fields(<<>>)},
          url \in {Anchored("a"), At("https", "home", "a"), At("http", "home", "a"), At("https", "far", "a")}}
  \cup {With(Get("a"), more) : more \in {"withXSRFToken" :> No, "auth" :> Str("me:pw"), "baseURL" :> At("https", "far", "api"),
                                         "paramsSerializer" :> Fn("s")}}

Instance1 == Instance(Defaults, ("baseURL" :> At("https", "far", "api"))
                                   @@ Headers(("get" :> Obj("x-page" :> Str("1"))) @@ ("accept" :> Str("mine"))))

Sendings ==
  {[Plan EXCEPT !.asks = <<New(o), Again(1)>>, !.readBack = PersonRead, !.pairs = PersonPairs] : o \in Options}
  \cup {[Plan EXCEPT !.asks = <<New(With(o, Fetch))>>, !.readBack = PersonRead, !.pairs = PersonPairs] :
          o \in {Post(Person, None), Post(Undef, None), Get("a")}}
  \cup {[Plan EXCEPT !.asks = <<New(o)>>, !.defaults = Instance1] : o \in {Get("a"), Post(Person, None)}}

\* what the answer is made of: types asked for and parsing options
Answers ==
  {[Plan EXCEPT !.asks = <<New(With(Get("a"), more))>>, !.answers = {Good, Broken, [Missing EXCEPT !.data = Str("<html>")]}] :
     more \in {"responseType" :> Str("json"), "responseType" :> Str("text"), "validateStatus" :> Null,
               ("responseType" :> Str("json")) @@ ("transitional" :> Obj("silentJSONParsing" :> No))}}

MCPlans == Cancelled \cup Chains \cup Downloads \cup Refused \cup Sendings \cup Answers
=============================================================================
