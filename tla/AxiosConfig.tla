---------------------------- MODULE AxiosConfig ----------------------------
(***************************************************************************)
(* Values, headers, and what axios (axios.js) makes of the options of one  *)
(* request and of its answer.                                              *)
(*   A value is tagged: Undef, Null, Bool(b), Str(x), Num(n), Fn(x), a     *)
(* plain object Obj(f) whose properties are the function f, AxiosHeaders   *)
(* Hdrs(f); and, as bodies and parameters, Fields(pairs) and List(seq)     *)
(* (an object and an array, in order), Form(pairs) and Params(pairs)       *)
(* (FormData and URLSearchParams), Json(x) (the text of x), Blob.  A       *)
(* header's name stands for all its spellings (findKey), a form field's    *)
(* name is the path renderKey joins, and an address is a record.           *)
(***************************************************************************)
EXTENDS Integers, Sequences, SequencesExt, FiniteSets, Functions, TLC

CONSTANTS
  Location,       \* [scheme, host] of the page
  Cookies,        \* the page's cookies, a function from names to texts
  Unsupported,    \* the adapters this browser has not, a subset of {"xhr", "fetch"}
  Transform(_, _) \* transformRequest, as a parameter: AxiosOptions has it

Undef == <<"undefined">>
Null == <<"null">>
Bool(b) == <<"bool", b>>
Str(x) == <<"str", x>>
Num(n) == <<"num", n>>
Fn(x) == <<"fn", x>>
Obj(f) == <<"obj", f>>
Hdrs(f) == <<"headers", f>>
Fields(pairs) == <<"fields", pairs>>
List(seq) == <<"list", seq>>
Form(pairs) == <<"form", pairs>>
Params(pairs) == <<"params", pairs>>
Json(x) == <<"json", x>>
Blob == <<"blob">>
None == [x \in {} |-> Undef]
No == Bool(FALSE)

\* f, as a table: TLC evaluates a function constructor again at each use
Table(f) == f @@ None

Own(f, k) == IF k \in DOMAIN f THEN f[k] ELSE Undef
\* isPlainObject, axios.js:811-817
IsPlain(v) == v[1] = "obj"

Truthy(v) == v \notin {Undef, Null, No, Num(0), Str("")}

-----------------------------------------------------------------------------
Mut_SetHeader(h, name, v, rewrite) == (name :> v) @@ h

\* AxiosHeaders.set, axios.js:2189-2201: rewrite is Undef (false stays), TRUE,
\* or FALSE (what is set stays)
SetHeader(h, name, v, rewrite) ==
  IF \/ Own(h, name) = Undef
     \/ rewrite = Bool(TRUE)
     \/ (rewrite = Undef /\ h[name] # No)
  THEN (name :> v) @@ h
  ELSE h

\* AxiosHeaders.set, axios.js:2202-2230: an object's headers, one by one
SetHeaders(h, g) ==
  Table([k \in DOMAIN h \cup DOMAIN g |->
           IF k \in DOMAIN g THEN SetHeader(h, k, g[k], Undef)[k] ELSE h[k]])

\* AxiosHeaders.from, axios.js:2361-2365
HeadersFrom(v) == IF v[1] \in {"headers", "obj"} THEN SetHeaders(None, v[2]) ELSE None

\* AxiosHeaders.concat, axios.js:2367-2377: the later over the earlier
Concat(first, second) == SetHeaders(SetHeaders(None, first), second)

\* AxiosHeaders.get, axios.js:2232-2254, without a parser
GetHeader(h, name) == Own(h, name)

\* AxiosHeaders.has, axios.js:2256-2264
HasHeader(h, name) == Own(h, name) # Undef

\* AxiosHeaders.delete, axios.js:2266-2286
DeleteHeader(h, name) == Table(Restrict(h, DOMAIN h \ {name}))

\* AxiosHeaders.clear, axios.js:2288-2301: all whose name the matcher fits
ClearHeaders(h, matched) == Table(Restrict(h, DOMAIN h \ matched))

\* AxiosHeaders.toJSON, axios.js:2333-2340: what is null or false is not sent
ToJSON(h) == Table(Restrict(h, {k \in DOMAIN h : h[k] \notin {Undef, Null, No}}))

SetContentType(h, v, rewrite) == SetHeader(h, "content-type", v, rewrite)

IgnoreDuplicateOf ==
  {"age", "authorization", "content-length", "content-type", "etag", "expires", "from", "host",
   "if-modified-since", "if-unmodified-since", "last-modified", "location", "max-forwards",
   "proxy-authorization", "referer", "retry-after", "user-agent"}

\* parseHeaders, axios.js:2105-2128: the lines of an answer; what is given
\* twice is a list
ParseHeaders(lines) ==
  LET joined(old, x) == List(Append(IF old[1] = "list" THEN old[2] ELSE <<old>>, x))
      one(parsed, line) ==
        LET key == line[1]
            val == Str(line[2])
            old == Own(parsed, key)
        IN IF key = "" \/ (Truthy(old) /\ key \in IgnoreDuplicateOf) THEN parsed
           ELSE (key :> (IF Truthy(old) THEN joined(old, val)
                         ELSE IF key = "set-cookie" THEN List(<<val>>) ELSE val)) @@ parsed
  IN FoldLeft(one, None, lines)

-----------------------------------------------------------------------------
JsonType == Str("application/json")
UrlEncoded == Str("application/x-www-form-urlencoded")
UrlEncodedUtf8 == Str("application/x-www-form-urlencoded;charset=utf-8")
Multipart == Str("multipart/form-data")

Transitional(config) ==
  IF "transitional" \in DOMAIN config /\ IsPlain(config["transitional"])
  THEN config["transitional"][2] ELSE None

\* transformResponse, axios.js:2036-2058: a text is parsed when it may be; one
\* that is not JSON is an error only if JSON was asked for and silence was not
TransformResponse(data, config) ==
  LET options == Transitional(config)
      requested == Own(config, "responseType") = Str("json")
      forced == Truthy(Own(options, "forcedJSONParsing")) /\ ~Truthy(Own(config, "responseType"))
      strict == requested /\ ~Truthy(Own(options, "silentJSONParsing"))
  IN IF ~(forced \/ requested) THEN [data |-> data, bad |-> FALSE]
     ELSE IF data[1] = "json" THEN [data |-> data[2], bad |-> FALSE]
     ELSE [data |-> data, bad |-> strict /\ data[1] = "str" /\ data # Str("")]

-----------------------------------------------------------------------------
Throw(code) == <<"throw", code>>

\* knownAdapters, axios.js:3472-3490: the build for browsers knows http but has
\* it not
KnownAdapters == {Str("xhr"), Str("http"), Str("fetch")}

\* getAdapter, axios.js:3498-3531: the first that is present, if those before it
\* are known
GetAdapter(names) ==
  LET known(x) == x \in KnownAdapters
      present(x) == x \in KnownAdapters \ {Str("http")} /\ x[2] \notin Unsupported
      list == IF names[1] = "list" THEN names[2] ELSE <<names>>
      good == {i \in DOMAIN list : present(list[i]) /\ \A j \in 1..i : known(list[j])}
  IN IF good # {} THEN Str(list[CHOOSE i \in good : \A j \in good : i <= j][2])
     ELSE IF \E i \in DOMAIN list : ~known(list[i]) THEN Throw("unknown adapter")
     ELSE Throw("ERR_NOT_SUPPORT")

\* validators.transitional of validators.boolean, axios.js:3595-3627: true, or
\* what the value must be
ValidBoolean(v) == v[1] = "bool"

TransitionalOptions == {"silentJSONParsing", "forcedJSONParsing", "clarifyTimeoutError"}

\* assertOptions, axios.js:3639-3660, for the transitional options: unknown ones
\* are refused, and those that are not valid
BadTransitional(config) ==
  LET f == Transitional(config)
  IN \E k \in DOMAIN f : k \in TransitionalOptions => f[k] # Undef /\ ~ValidBoolean(f[k])

\* ... and with which code, when they are not of both kinds
BadOption(config) ==
  IF DOMAIN Transitional(config) \subseteq TransitionalOptions THEN "ERR_BAD_OPTION_VALUE" ELSE "ERR_BAD_OPTION"

\* dispatchRequest, axios.js:3558-3567: what the adapter is given, or what is
\* thrown
Prepared(config) ==
  LET out == Transform(Own(config, "data"), HeadersFrom(Own(config, "headers")))
      h == IF config["method"] \in {Str("post"), Str("put"), Str("patch")}
           THEN SetContentType(out.headers, UrlEncoded, No) ELSE out.headers
      body == IF out.data = Undef THEN {} ELSE {"data"}
  IN [k \in (DOMAIN config \ {"data"}) \cup {"headers"} \cup body |->
        IF k = "headers" THEN Hdrs(h) ELSE IF k = "data" THEN out.data ELSE config[k]]

\* settle, axios.js:2468-2475: the status decides, unless there is none or no
\* one to judge it
Accepted(config, status) ==
  status = 0 \/ ~Truthy(Own(config, "validateStatus")) \/ status \in 200..299
=============================================================================
