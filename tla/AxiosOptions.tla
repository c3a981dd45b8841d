---------------------------- MODULE AxiosOptions ----------------------------
(***************************************************************************)
(* The sequential part of axios (axios.js) that goes into the depth of     *)
(* options and bodies: options of several layers are merged, bodies are    *)
(* transformed, form data become objects and objects form data, and the    *)
(* address is built.                                                       *)
(***************************************************************************)
EXTENDS AxiosConfig

\* merge, axios.js:993-1016: the later object's properties, plain objects
\* within both merged in their turn
RECURSIVE Merge(_, _)
Merge(f, g) ==
  LET within(k) == IF k \in DOMAIN f /\ IsPlain(f[k]) THEN f[k][2] ELSE None
  IN Table([k \in DOMAIN f \cup DOMAIN g |->
              IF k \notin DOMAIN g THEN f[k]
              ELSE IF IsPlain(g[k]) THEN Obj(Merge(within(k), g[k][2])) ELSE g[k]])

FromRequest == {"url", "method", "data"}
RequestElseDefault ==
  {"baseURL", "transformRequest", "transformResponse", "paramsSerializer", "timeout",
   "timeoutMessage", "withCredentials", "withXSRFToken", "adapter", "responseType",
   "xsrfCookieName", "xsrfHeaderName", "onUploadProgress", "onDownloadProgress", "decompress",
   "maxContentLength", "maxBodyLength", "beforeRedirect", "transport", "httpAgent", "httpsAgent",
   "cancelToken", "socketPath", "responseEncoding"}

\* headersToObject, axios.js:2706-2708
HeadersToObject(v) == IF v[1] = "headers" THEN Obj(v[2]) ELSE v

\* getMergedValue, axios.js:2723-2734
GetMergedValue(target, source) ==
  IF ~IsPlain(source) THEN source
  ELSE Obj(Merge(IF IsPlain(target) THEN target[2] ELSE None, source[2]))

\* mergeDeepProperties, axios.js:2737-2743
MergeDeep(a, b) == IF b # Undef THEN GetMergedValue(a, b) ELSE GetMergedValue(Undef, a)

\* mergeConfig, axios.js:2719-2808: how each option is taken from the two
MergeConfig(config1, config2) ==
  LET value(k) ==
        LET a == Own(config1, k)
            b == Own(config2, k)
        IN CASE k \in FromRequest -> GetMergedValue(Undef, b)
             [] k \in RequestElseDefault -> GetMergedValue(Undef, IF b # Undef THEN b ELSE a)
             [] k = "validateStatus" -> IF k \in DOMAIN config2 THEN b ELSE a
             [] k = "headers" -> MergeDeep(HeadersToObject(a), HeadersToObject(b))
             [] OTHER -> MergeDeep(a, b)
      props == DOMAIN config1 \cup DOMAIN config2
  IN Table([k \in {p \in props : p = "validateStatus" \/ value(p) # Undef} |-> value(k)])

-----------------------------------------------------------------------------
\* isVisitable, axios.js:1467-1469
IsVisitable(v) == v[1] \in {"fields", "list"}

\* isFlatArray, axios.js:1507-1509
IsFlatArray(v) == v[1] = "list" /\ \A i \in DOMAIN v[2] : ~IsVisitable(v[2][i])

Pairs(v) == IF v[1] = "list" THEN [i \in DOMAIN v[2] |-> <<ToString(i - 1), v[2][i]>>] ELSE v[2]

\* toFormData, axios.js:1537-1638: an object's fields, nested ones by their
\* path; a flat array is appended item by item; null and undefined are not
RECURSIVE ToFormData(_, _)
ToFormData(v, path) ==
  LET field(p) ==
        LET el == p[2]
        IN IF el \in {Undef, Null} THEN <<>>
           ELSE IF path = <<>> /\ IsFlatArray(el)
                THEN LET kept == SelectSeq(el[2], LAMBDA x : x \notin {Undef, Null})
                     IN [i \in DOMAIN kept |-> <<<<p[1], "[]">>, kept[i]>>]
           ELSE IF IsVisitable(el) THEN ToFormData(el, Append(path, p[1]))
           ELSE <<<<Append(path, p[1]), el>>>>
  IN FlattenSeq([i \in DOMAIN Pairs(v) |-> field(Pairs(v)[i])])

IsIndex(name) == name \in {"0", "1", "2"}

\* buildPath, axios.js:1938-1960: puts one value at its path; target is a
\* sequence of pairs, or what an array holds, its indices as names
RECURSIVE BuildPath(_, _, _)
BuildPath(target, path, value) ==
  LET free == ToString(Cardinality({i \in DOMAIN target : IsIndex(target[i][1])}))
      array == \A i \in DOMAIN target : IsIndex(target[i][1])
      name == IF path[1] # "[]" THEN path[1] ELSE IF array THEN free ELSE ""
      at == {i \in DOMAIN target : target[i][1] = name}
      old == IF at = {} THEN Undef ELSE target[CHOOSE i \in at : TRUE][2]
      put(v) == IF at = {} THEN Append(target, <<name, v>>)
                ELSE [target EXCEPT ![CHOOSE i \in at : TRUE] = <<name, v>>]
  IN IF Len(path) = 1 THEN put(IF at = {} THEN value ELSE List(<<old, value>>))
     ELSE put(Fields(BuildPath(IF old[1] = "fields" THEN old[2] ELSE <<>>, Tail(path), value)))

\* arrayToObject, axios.js:1917-1928: an array stays one while all its names are
\* indices
RECURSIVE AsArray(_)
AsArray(v) ==
  IF v[1] # "fields" THEN v
  ELSE LET inner == [i \in DOMAIN v[2] |-> <<v[2][i][1], AsArray(v[2][i][2])>>]
       IN IF \A i \in DOMAIN inner : IsIndex(inner[i][1])
          THEN List([i \in DOMAIN inner |-> inner[i][2]]) ELSE Fields(inner)

\* formDataToJSON, axios.js:1937-1969
FormDataToJSON(pairs) ==
  LET built == FoldLeft(LAMBDA t, p : BuildPath(t, p[1], p[2]), <<>>, pairs)
  IN Fields([i \in DOMAIN built |-> <<built[i][1], AsArray(built[i][2])>>])

\* stringifySafely, axios.js:1981-1993: a text that is JSON already stays
StringifySafely(v) == IF v = Undef THEN Undef ELSE IF v[1] = "json" THEN v ELSE Json(v)

\* toURLEncodedForm, axios.js:1881-1891
ToURLEncodedForm(data) == <<"urlencoded", ToFormData(data, <<>>)>>

\* transformRequest, axios.js:1997-2035: the body by its kind and by the
\* Content-Type asked for, which is set where it is not
TransformRequest(data, h) ==
  LET type == GetHeader(h, "content-type")
      object == data[1] \in {"fields", "list"}
      out(d, g) == [data |-> d, headers |-> g]
  IN IF data[1] = "form"
     THEN out(IF type = JsonType THEN StringifySafely(FormDataToJSON(data[2])) ELSE data, h)
     ELSE IF data[1] = "blob" THEN out(data, h)
     ELSE IF data[1] = "params"
     THEN out(<<"urlencoded", data[2]>>, SetContentType(h, UrlEncodedUtf8, No))
     ELSE IF object /\ type \in {UrlEncoded, UrlEncodedUtf8}
     THEN out(ToURLEncodedForm(data), h)
     ELSE IF object /\ type = Multipart THEN out(Form(ToFormData(data, <<>>)), h)
     ELSE IF object \/ type = JsonType
     THEN out(StringifySafely(data), SetContentType(h, JsonType, No))
     ELSE out(data, h)

\* defaults, axios.js:1994-2088, and transitionalDefaults, 1811-1815
Defaults ==
  [transitional |-> Obj([silentJSONParsing |-> Bool(TRUE), forcedJSONParsing |-> Bool(TRUE),
                         clarifyTimeoutError |-> No]),
   adapter |-> List(<<Str("xhr"), Str("http"), Str("fetch")>>),
   timeout |-> Num(0), xsrfCookieName |-> Str("XSRF-TOKEN"), xsrfHeaderName |-> Str("X-XSRF-TOKEN"),
   validateStatus |-> Fn("2xx"),
   headers |-> Obj([m \in {"delete", "get", "head", "post", "put", "patch"} |-> Obj(None)]
                   @@ ("common" :> Obj(("accept" :> Str("json, text, any"))
                                       @@ ("content-type" :> Undef))))]

-----------------------------------------------------------------------------
\* isAbsoluteURL, axios.js:2670-2675: an address is [scheme, host, path, query, hash]
IsAbsoluteURL(url) == url # Undef /\ url[2].host # ""

\* combineURLs, axios.js:2685-2687
CombineURLs(base, url) ==
  IF url = Undef THEN base
  ELSE <<"url", [url[2] EXCEPT !.scheme = base[2].scheme, !.host = base[2].host, !.path = base[2].path \o @]>>

\* buildFullPath, axios.js:2699-2704
BuildFullPath(base, url) ==
  IF base # Undef /\ ~IsAbsoluteURL(url) THEN CombineURLs(base, url) ELSE url

\* AxiosURLSearchParams, axios.js:1671-1688: the pairs toFormData appends; encode$1
\* and its way of writing them are left out
SearchParams(params) == ToFormData(params, <<>>)

\* buildURL, axios.js:1709-1730: parameters behind the query, which drop the
\* fragment
BuildURL(url, params, serializer) ==
  LET pairs == IF serializer # Undef THEN <<<<"serialized", params>>>>
               ELSE IF params[1] = "params" THEN params[2]
               ELSE SearchParams(params)
  IN IF ~Truthy(params) \/ pairs = <<>> THEN url
     ELSE <<"url", [url[2] EXCEPT !.hash = "", !.query = @ \o pairs]>>

\* isURLSameOrigin, axios.js:2580-2633
IsURLSameOrigin(url) ==
  \/ url[2].host = ""
  \/ (url[2].host = Location.host /\ url[2].scheme \in {"", Location.scheme})

\* cookies.read, axios.js:2635-2661
ReadCookie(name) == IF name[1] = "str" /\ name[2] \in DOMAIN Cookies THEN Str(Cookies[name[2]]) ELSE Null

\* resolveConfig, axios.js:2810-2856: the address, credentials, no Content-Type
\* for a form (the browser sets it), and the token against forgery, which only
\* goes to the page's own origin
ResolveConfig(config) ==
  LET new == MergeConfig(None, config)
      url == BuildURL(BuildFullPath(Own(new, "baseURL"), Own(new, "url")), Own(config, "params"),
                      Own(config, "paramsSerializer"))
      h0 == HeadersFrom(Own(new, "headers"))
      h1 == IF Truthy(Own(new, "auth")) THEN SetHeader(h0, "authorization", new["auth"], Undef) ELSE h0
      h2 == IF Own(new, "data")[1] = "form" THEN SetContentType(h1, Undef, Undef) ELSE h1
      with == Own(new, "withXSRFToken")
      xsrf == IF Truthy(Own(new, "xsrfHeaderName")) THEN ReadCookie(Own(new, "xsrfCookieName")) ELSE Null
      h3 == IF /\ Truthy(with) \/ (with # No /\ IsURLSameOrigin(url))
               /\ Truthy(xsrf)
            THEN SetHeader(h2, new["xsrfHeaderName"][2], xsrf, Undef) ELSE h2
  IN (("url" :> url) @@ ("headers" :> Hdrs(h3))) @@ new

-----------------------------------------------------------------------------
\* Axios._request, axios.js:3739-3783: the options of a request before the interceptors
\* run; context headers are the common ones under those of the method
RequestConfig(defaults, config) ==
  LET merged == MergeConfig(defaults, config)
      method == LET given(f) == Truthy(Own(f, "method"))
                IN IF given(merged) THEN merged["method"]
                   ELSE IF given(defaults) THEN defaults["method"] ELSE Str("get")
      given == IF IsPlain(Own(merged, "headers")) THEN merged["headers"][2] ELSE None
      of(name) == IF IsPlain(Own(given, name)) THEN given[name][2] ELSE None
      context == Merge(of("common"), of(method[2]))
      own == Restrict(given, DOMAIN given \ {"delete", "get", "head", "post", "put", "patch", "common"})
  IN ("method" :> method) @@ ("headers" :> Hdrs(Concat(context, own))) @@ merged

\* the aliases get, delete, head, options, axios.js:3846-3855
AliasNoData(method, url, config) ==
  MergeConfig(config, ("method" :> Str(method)) @@ ("url" :> url) @@ ("data" :> Own(config, "data")))

\* post, put, patch, and postForm and its like, axios.js:3856-3873
AliasWithData(method, url, data, config, isForm) ==
  MergeConfig(config,
    ("method" :> Str(method)) @@ ("url" :> url) @@ ("data" :> data) @@
    ("headers" :> Obj(IF isForm THEN "content-type" :> Multipart ELSE None)))

\* createInstance, axios.js:4110-4129: the defaults of what axios.create makes
Instance(defaults, config) == MergeConfig(defaults, config)

\* the request as it goes out: xhrAdapter, axios.js:2962-2970, which sends no
\* Content-Type without a body; fetchAdapter, 3407-3412, which does
Wire(config, adapter) ==
  LET resolved == ResolveConfig(config)
      body == Own(resolved, "data")
      h == resolved["headers"][2]
  IN [method |-> config["method"], url |-> resolved["url"], body |-> body,
      headers |-> ToJSON(IF adapter = "xhr" /\ body = Undef THEN SetContentType(h, Null, Undef) ELSE h)]
=============================================================================
