-------------------------------- MODULE MCWeb --------------------------------
(***************************************************************************)
(* Clients, services and the web framework, one component per behaviour.   *)
(***************************************************************************)
EXTENDS Integers, Sequences, TLC

\* Trees of services.
Leaf(i) == [op |-> "leaf", id |-> i]
On(op, a) == [op |-> op, a |-> a]
Of(op, a, b) == [op |-> op, a |-> a, b |-> b]
ServiceTrees == {
  Of("and_then", On("map", Leaf("x")), On("map_err", Leaf("y"))),
  On("map_err", Of("then", On("map_init_err", Leaf("x")), On("map_config", Leaf("y")))),
  On("transform", Of("and_then_apply_fn", On("boxed", Leaf("x")), On("unit_config", Leaf("y")))),
  On("map_config", On("apply_cfg", On("apply", Leaf("x")))),
  On("map_err", Of("either", On("map", Leaf("x")), Leaf("y"))),
  On("map", Of("and_then", Of("then", Leaf("x"), Leaf("y")), On("map_init_err", Leaf("z"))))}
HttpSettings == {
  <<<<"keep_alive", 0>>, <<"upgrade", "u">>, <<"secure", TRUE>>>>, <<<<"upgrade", "u">>, <<"expect", "e">>, <<"on_connect", "f">>>>,
  <<<<"expect", "e">>, <<"client_timeout", 0>>>>, <<>>}
HttpConns == [a |-> "h1", b |-> "h2"]

\* An application: characters, patterns, extractors, handlers, guards, resources and scopes.
Chars == {"/", "a", "b", "1"}
C(x) == [c |-> x]
V(n) == [var |-> n, chars |-> Chars \ {"/"}, min |-> 1]
Digit(n) == [var |-> n, chars |-> {"1"}, min |-> 1]
X(x, ty) == [x |-> x, ty |-> ty]
Handler(name, exts) == [name |-> name, exts |-> exts]
Route(gs, h) == [guards |-> gs, to |-> h]
GetOnly == [g |-> "method", v |-> "GET"]
Yes == [g |-> "header", v |-> "yes"]
Unless(g) == [g |-> "not", of |-> <<g>>]
Host == [g |-> "host", v |-> "h", scheme |-> "http"]
Either(a, b) == [g |-> "any", of |-> <<a, b>>]
Both(a, b) == [g |-> "all", of |-> <<a, b>>]
Resource(rdef, name, guards, routes, data, default) ==
  [t |-> "resource", rdef |-> rdef, name |-> name, guards |-> guards, routes |-> routes, data |-> data,
   default |-> default, wraps |-> <<"r">>]
Scope(rdef, guards, services, data, default) ==
  [t |-> "scope", rdef |-> <<rdef>>, guards |-> guards, services |-> services, data |-> data, default |-> default,
   wraps |-> <<"s1", "s2">>, external |-> <<[name |-> "ext", rdef |-> <<C("a"), V("x")>>]>>]
SlashVar(n) == <<C("/"), V(n)>>
BVar(n) == <<C("b"), C("/"), V(n)>>
H1 == Handler("res", <<X("data", "N"), X("body", ""), X("request", "")>>)
H2 == Handler("leaf", <<X("data", "N"), X("optdata", "S"), X("body", ""), X("body", "")>>)
H3 == Handler("other", <<X("data", "S")>>)
TheApp == [
  services |-> <<
    Scope(<<C("a")>>, <<>>,
      <<Resource(<<BVar("y")>>, "leaf", <<>>, <<Route(<<GetOnly>>, H2)>>, <<>>, ""),
        Resource(<<<<>>>>, "", <<Either(Yes, Host)>>, <<Route(<<Unless(GetOnly)>>, H3)>>, <<[N |-> "r"]>>, "dr")>>,
      <<[N |-> "s"]>>, ""),
    Scope(SlashVar("x"), <<Yes>>,
      <<Resource(<<<<C("b"), V("y")>>>>, "res", <<>>, <<Route(<<Both(GetOnly, Yes)>>, H1)>>, <<>>, "")>>, <<>>, "ds"),
    Resource(<<SlashVar("z"), BVar("z")>>, "many", <<>>, <<Route(<<GetOnly>>, H1)>>, <<[N |-> "m"]>>, "")>>,
  default |-> "", data |-> [N |-> "app"], ext |-> [E |-> "ext"], wraps |-> <<"a1", "a2">>,
  external |-> <<[name |-> "ext", rdef |-> <<C("b"), V("x")>>]>>]
Asks(p, m, hd, host, sch) == [path |-> p, method |-> m, header |-> hd, host |-> host, scheme |-> sch]
DeepPath == <<"/", "a", "/", "b", "/", "1">>
Few == {
  Asks(DeepPath, "GET", "no", "", ""), Asks(<<"/", "1", "/", "b", "a">>, "GET", "yes", "", ""),
  Asks(<<"/", "1", "/", "b">>, "POST", "yes", "", ""), Asks(<<"/", "a">>, "POST", "no", "h", "")}
Asked == {
  Asks(<<"/", "a", "/", "1">>, "GET", "no", "", ""), Asks(<<"/", "a">>, "GET", "yes", "h", "http"),
  Asks(<<"/", "1">>, "POST", "no", "h", "x"), Asks(<<"/", "1">>, "GET", "yes", "", ""), Asks(<<"/", "1">>, "GET", "no", "", "")}
UrlParams == {<<<<"1">>, <<"a">>>>, <<<<"b">>>>}
UrlNames == {"leaf", "res", "ext", "many", "nope"}

\* What extractors load from a path, and a tree of services that are started.
Shape(t, fields, len, tp) == [t |-> t, fields |-> fields, len |-> len, tp |-> tp]
PathShapes == {
  Shape("struct", {"x"}, 0, "String"), Shape("struct", {"x", "y"}, 0, "num"), Shape("tuple", {}, 1, "num"),
  Shape("tuple", {}, 2, "String"), Shape("seq", {}, 0, "num"), Shape("single", {}, 0, "String"),
  Shape("enum", {}, 0, "String"), Shape("bytes", {}, 0, "String")}
One(id) == [id |-> id, guards |-> {id}, leaf |-> TRUE, default |-> 0, kids |-> <<>>]
Node(id, d, kids) == [id |-> id, guards |-> {id}, leaf |-> FALSE, default |-> d, kids |-> kids]
StartTree == Node(10, 1, <<Node(11, 0, <<One(2)>>), One(3), Node(12, 4, <<One(5)>>)>>)

\* Files, their requests and ranges.
FileTree == [p \in {<<>>, <<"f">>, <<"d">>, <<"d", "i">>, <<"e">>} |-> IF p \in {<<"f">>, <<"d", "i">>} THEN "file" ELSE "dir"]
FilesConf(i, s, r, d, g, e, l) ==
  [index |-> i, show_index |-> s, redirect |-> r, default |-> d, guards |-> g, etag |-> e, last_md |-> l]
FilesConfs == {FilesConf("i", FALSE, TRUE, FALSE, FALSE, TRUE, TRUE), FilesConf("", TRUE, FALSE, TRUE, TRUE, FALSE, TRUE),
               FilesConf("", FALSE, FALSE, FALSE, FALSE, TRUE, FALSE)}
Target(m, s, e) == [method |-> m, segs |-> s, slash |-> e]
TheFile == Target("GET", <<"", "f">>, FALSE)
AllTargets == {
  TheFile, Target("POST", <<"", "f">>, FALSE), Target("GET", <<"", "d">>, FALSE), Target("GET", <<"", "d", "">>, TRUE),
  Target("GET", <<"", "..", "d", "..", "f">>, FALSE), Target("GET", <<"", ".x">>, FALSE), Target("GET", <<"", "g">>, FALSE),
  Target("GET", <<"e", "">>, TRUE)}
RangeOf(t, x, p, i) == [there |-> t, text |-> x, prefix |-> p, items |-> i]
NoRange == RangeOf(FALSE, "list", TRUE, <<>>)
It(s, e) == [s |-> s, e |-> e]
AllRanges == {NoRange, RangeOf(TRUE, "opaque", TRUE, <<>>), RangeOf(TRUE, "list", FALSE, <<It(0, 1)>>)}
  \cup {RangeOf(TRUE, "list", TRUE, l) : l \in {
          <<It(1, 2)>>, <<It(-1, 2)>>, <<It(2, -1)>>, <<It(0, 9)>>, <<It(7, 9)>>, <<It(7, 9), It(1, 1)>>, <<It(2, 1)>>,
          <<It(-1, 9)>>, <<It(-1, -1)>>, <<It(1, -2)>>, <<It(-2, 1)>>, <<It(0, -1), It(1, 2)>>}}
AllConditions == {"no", "match_own", "match_weak", "match_any", "none_own", "none_any", "modified_since", "unmodified_since"}

\* Trees of the web UI.
NoAttrs == [class |-> "none", key |-> "none"]
Attrs(c, k) == [class |-> c, key |-> k]
Txt(t) == [kind |-> "text", text |-> t]
Elem(tag, attrs, events, kids) == [kind |-> "element", tag |-> tag, attrs |-> attrs, events |-> events, children |-> kids]
Bold == Elem("b", NoAttrs, FALSE, <<>>)
Italic == Elem("i", Attrs("x", "none"), FALSE, <<Txt("a")>>)
Keyed == Elem("i", Attrs("y", "1"), FALSE, <<Txt("b"), Txt("a")>>)
Words == {Txt("a"), Txt("b"), Bold, Italic}
Div(kids) == Elem("div", NoAttrs, FALSE, kids)
TextViews == {Div(<<>>)} \cup {Div(<<x>>) : x \in Words \cup {Keyed}} \cup {Div(<<x, y>>) : x, y \in Words \cup {Keyed}}
  \cup {Div(<<x, y, z>>) : x, y \in Words, z \in {Bold, Italic}}
Button(c, k, kids) == Elem("a", Attrs(c, k), TRUE, kids)
Buttons == {Button(c, k, kids) : c \in {"x", "y"}, k \in {"1", "2"}, kids \in {<<>>, <<Bold>>}} \cup {Bold}
EventViews == {Div(<<>>)} \cup {Div(<<x>>) : x \in Buttons} \cup {Div(<<Bold, x>>) : x \in Buttons}

\* Multipart bodies: 1 is CR, 2 LF, 3 a dash, 10 to 14 are headers, 20 and 21 the boundary.
Bound == <<20, 21>>
Piece(h, d) == [head |-> <<h>>, data |-> d]
Mixed(p, ps, c, k) == [pre |-> p, parts |-> ps, close |-> c, cut |-> k]
Closing == <<3, 3, 20, 21, 3, 3, 1, 2>>
WholeBodies == {
  Mixed(<<>>, <<Piece(10, <<30, 31>>), Piece(11, <<32, 33>>)>>, Closing, 0),
  Mixed(<<30, 1, 2>>, <<Piece(10, <<30, 1, 31, 1, 2, 3>>)>>, <<3, 3, 20, 21, 3, 3>>, 0),
  Mixed(<<>>, <<Piece(10, <<>>)>>, Closing, 0), Mixed(<<>>, <<Piece(10, <<1, 2, 3, 3, 20>>)>>, Closing, 0)}
OddBodies == {
  Mixed(<<>>, <<Piece(10, <<30, 31>>)>>, Closing, 10), Mixed(<<>>, <<Piece(10, <<30, 31>>)>>, Closing, 17),
  Mixed(<<>>, <<Piece(13, <<30>>)>>, Closing, 0), Mixed(<<>>, <<Piece(12, <<30>>)>>, Closing, 0),
  Mixed(<<>>, <<Piece(14, <<30>>)>>, Closing, 0), Mixed(<<>>, <<Piece(11, <<30>>)>>, <<>>, 3),
  Mixed(<<>>, <<Piece(10, <<30>>)>>, <<40, 2>>, 0), Mixed(<<30, 2, 2>>, <<>>, <<>>, 0),
  Mixed(<<>>, <<>>, <<20, 21, 3, 3, 1, 2>>, 0)}

\* Messages whose bodies are encoded and decoded.
Tag(n, p, v) == [name |-> n, param |-> p, value |-> v]
Gzip == <<Tag("gzip", "none", 0)>>
Sent(acc, mw, ex, ced, st, kind, size, chunks, fails) ==
  [accept |-> acc, middleware |-> mw, explicit |-> ex, encoded |-> ced, status |-> st, kind |-> kind, size |-> size,
   chunks |-> chunks, fails |-> fails]
Read(s, rdr, mime, cs, len, lim, parses) ==
  [flaw |-> "none", wanted |-> "none", predicate |-> FALSE, decodes |-> TRUE, reader |-> rdr, mime |-> mime, charset |-> cs,
   length |-> len, limit |-> lim, parses |-> parses] @@ s
Auto(acc, kind, chunks) == Sent(acc, "auto", "none", "none", "200", kind, "", chunks, FALSE)
Streamed(ced, chunks, fails) == Sent(<<>>, "auto", "none", ced, "200", "Body", "Stream", chunks, fails)
Flawed(m, f) == [m EXCEPT !.flaw = f]
CodedMessages == {
  Read(Sent(Gzip, "auto", "none", "none", "200", "Message", "Stream", <<<<1>>, <<2, 3>>, <<4>>>>, FALSE), "bytes", "none", "none", "none", 9, TRUE),
  Read(Sent(<<Tag("br", "number", 50), Tag("deflate", "none", 0), Tag("*", "q", 0)>>, "auto", "none", "none", "200", "Body", "Stream",
            <<<<1, 2, 3>>, <<4>>>>, TRUE), "json", "json", "utf8", "none", 3, TRUE),
  Read(Sent(<<Tag("identity", "none", 0)>> \o Gzip, "br", "none", "none", "200", "Bytes", "", <<<<1, 2>>>>, FALSE), "form", "form", "utf8", "good", 2, TRUE),
  Read(Sent(Gzip, "auto", "none", "none", "204", "Bytes", "", <<<<1, 2, 3>>>>, FALSE), "message", "none", "none", "good", 2, TRUE),
  Read(Sent(Gzip, "gzip", "none", "br", "200", "Message", "Stream", <<<<1, 2>>, <<3>>>>, FALSE), "string", "none", "none", "none", 3, TRUE),
  Read(Sent(<<>>, "auto", "gzip", "none", "200", "Bytes", "", <<<<1, 2, 3>>>>, FALSE), "clientjson", "json", "none", "good", 3, FALSE),
  Read(Sent(<<>>, "auto", "none", "none", "200", "Body", "Sized", <<<<1>>, <<2>>>>, FALSE), "string", "none", "unknown", "good", 3, FALSE),
  Read(Auto(Gzip, "None", <<>>), "bytes", "none", "none", "bad", 3, TRUE), Read(Auto(Gzip, "Empty", <<>>), "bytes", "none", "none", "none", 0, TRUE),
  Read(Auto(Gzip, "Bytes", <<<<1>>>>), "form", "json", "none", "none", 3, TRUE), Read(Auto(Gzip, "Bytes", <<<<1>>>>), "form", "form", "none", "bad", 3, TRUE),
  Read(Auto(Gzip, "Bytes", <<<<1>>>>), "json", "none", "none", "good", 3, TRUE),
  Read(Streamed("gzip", <<<<1>>, <<2>>>>, TRUE), "message", "none", "none", "none", 3, TRUE),
  Flawed(Read(Streamed("gzip", <<<<1>>, <<2>>>>, FALSE), "message", "none", "none", "none", 3, TRUE), "short"),
  Flawed(Read(Streamed("br", <<<<1>>, <<2>>>>, FALSE), "message", "none", "none", "none", 3, TRUE), "short"),
  Flawed(Read(Streamed("gzip", <<<<1>>, <<2>>>>, FALSE), "bytes", "none", "none", "none", 3, TRUE), "plain"),
  Flawed(Read(Streamed("gzip", <<<<1, 2>>>>, FALSE), "bytes", "none", "none", "none", 3, TRUE), "plain"),
  [Read(Auto(<<>>, "Bytes", <<<<1>>>>), "bytes", "other", "none", "none", 3, TRUE) EXCEPT !.wanted = "json"],
  [Read(Auto(<<>>, "Bytes", <<<<1>>>>), "json", "other", "none", "none", 3, TRUE) EXCEPT !.predicate = TRUE],
  Read(Auto(<<>>, "Bytes", <<<<1>>>>), "json", "bad", "none", "none", 3, TRUE),
  Read(Auto(<<>>, "Bytes", <<<<1>>>>), "clientjson", "form", "none", "none", 3, TRUE),
  [Read(Auto(<<>>, "Bytes", <<<<1>>>>), "form", "form", "latin", "none", 3, TRUE) EXCEPT !.decodes = FALSE]}

\* Middleware: stacks, requests and answers; and the requests of other origins.
Layer(k, a) == [kind |-> k, on |-> TRUE, arg |-> a]
Norm == Layer("normalize", 0)
Defaults(hs, ct) == Layer("headers", [headers |-> hs, ct |-> ct])
ErrorPages == Layer("errors", [s \in {"404", "500", "400"} |->
  [how |-> CASE s = "404" -> "response" [] s = "500" -> "future" [] OTHER -> "err", status |-> IF s = "404" THEN "200" ELSE s]])
Log(f, ex) == Layer("logger", [format |-> f, exclude |-> ex])
PathAndSize == <<"a", "%", "U", "%", "s", "x", "%", "b">>
HeaderAndStatus == <<"%", "{", "x", "}", "o", "b", "%", "s">>
XY == <<<<"x", "1">>, <<"y", "2">>>>
MwStacks == {
  <<Log(PathAndSize, {}), Norm, Defaults(XY, TRUE)>>,
  <<ErrorPages, Defaults(XY, FALSE), Log(HeaderAndStatus, {}), Norm, Log(PathAndSize, {<<"/", "a">>})>>,
  <<Norm, [Defaults(<<<<"x", "9">>>>, TRUE) EXCEPT !.on = FALSE], ErrorPages, Log(PathAndSize, {<<"/">>}), Log(HeaderAndStatus, {})>>}
MwRequests == [path : {<<"/">>, <<"/", "/">>, <<"/", "a">>, <<"/", "/", "/", "a", "/", "/", "b", "/", "/">>}, query : {"", "q"}]
MwAnswers == {[err |-> TRUE, status |-> "500", headers |-> [k \in {} |-> "0"], chunks |-> <<>>]}
  \cup [err : {FALSE}, status : {"200", "404", "500", "400"}, headers : {[k \in {} |-> "0"], [x |-> "7"]}, chunks : {<<1, 2>>}]
CorsRequests ==
  [method : {"OPTIONS"}, origin : {"none", "a", "b", "opaque"}, reqm : {"none", "GET", "PUT", "bad"},
   reqh : {<<"none">>, <<>>, <<"x">>, <<"x", "y">>, <<"opaque">>}]
  \cup [method : {"GET"}, origin : {"none", "a", "b", "opaque"}, reqm : {"none"}, reqh : {<<"none">>}]
CorsAnswers == {[ok |-> FALSE, vary |-> <<>>], [ok |-> TRUE, vary |-> <<>>], [ok |-> TRUE, vary |-> <<<<"Accept", "Cookie">>>>]}

\* The component this behaviour is of, and its variables, in the order it declares them.
VARIABLES
  part, v1, v2, v3, v4, v5, v6, v7, v8, v9, v10, v11, v12, v13, v14, v15, v16, v17, v18,
  v19, v20, v21

\* A pool of one connection whose connections age.
Kept == INSTANCE ClientPool WITH
  Callers <- {1, 2, 3}, KeyOf <- [c \in {1, 2, 3} |-> IF c = 3 THEN "b" ELSE "a"],
  limit <- 1, conn_keep_alive <- 1, conn_lifetime <- 2, DisconnectTimeout <- TRUE,
  Protocols <- {"Http1"}, Faults <- {}, MaxConns <- 2, MaxTicks <- 2,
  call <- v1, pool <- v2, chan <- v3, opening <- v4, closing <- v5, support <- v6,
  conns <- v7, now <- v8
\* A pool whose connects fail or are dropped.
Faulty == INSTANCE ClientPool WITH
  Callers <- {1, 2, 3}, KeyOf <- [c \in {1, 2, 3} |-> IF c = 3 THEN "b" ELSE "a"],
  limit <- 2, conn_keep_alive <- 1, conn_lifetime <- 2, DisconnectTimeout <- TRUE,
  Protocols <- {"Http1", "Http2"}, Faults <- {"connect", "drop"}, MaxConns <- 2,
  MaxTicks <- 0,
  call <- v1, pool <- v2, chan <- v3, opening <- v4, closing <- v5, support <- v6,
  conns <- v7, now <- v8
\* Both protocols over one pool.
Shared == INSTANCE ClientPool WITH
  Callers <- {1, 2, 3}, KeyOf <- [c \in {1, 2, 3} |-> IF c = 3 THEN "b" ELSE "a"],
  limit <- 2, conn_keep_alive <- 1, conn_lifetime <- 2, DisconnectTimeout <- TRUE,
  Protocols <- {"Http1", "Http2"}, Faults <- {}, MaxConns <- 3, MaxTicks <- 0,
  call <- v1, pool <- v2, chan <- v3, opening <- v4, closing <- v5, support <- v6,
  conns <- v7, now <- v8
\* Trees of combinators, called twice.
\* The HTTP/1 service.
Services == INSTANCE Services WITH
  Trees <- ServiceTrees, Calls <- {1, 2}, Undecided <- 1, Kind <- "h1",
  Settings <- HttpSettings, Conns <- HttpConns,
  tree <- v1, phase <- v2, init <- v3, ready <- v4, out <- v5, fut <- v6, calls <- v7,
  armed <- v8, asleep <- v9, cfgs <- v10, todo <- v1, builder <- v2, http_phase <- v3,
  http_init <- v4, expect <- v5, upgrade <- v6, fut_ex <- v7, fut_upg <- v8,
  http_ready <- v9, http_asleep <- v10, http_armed <- v11, conns <- v12, spoke <- v13
\* The HTTP/2 service.
ServiceH2 == INSTANCE Services WITH
  Trees <- {}, Calls <- {}, Undecided <- 1, Kind <- "h2", Settings <- HttpSettings,
  Conns <- HttpConns,
  tree <- v1, phase <- v2, init <- v3, ready <- v4, out <- v5, fut <- v6, calls <- v7,
  armed <- v8, asleep <- v9, cfgs <- v10, todo <- v1, builder <- v2, http_phase <- v3,
  http_init <- v4, expect <- v5, upgrade <- v6, fut_ex <- v7, fut_upg <- v8,
  http_ready <- v9, http_asleep <- v10, http_armed <- v11, conns <- v12, spoke <- v13
\* The HTTP service.
ServiceHttp == INSTANCE Services WITH
  Trees <- {}, Calls <- {}, Undecided <- 1, Kind <- "http", Settings <- HttpSettings,
  Conns <- HttpConns,
  tree <- v1, phase <- v2, init <- v3, ready <- v4, out <- v5, fut <- v6, calls <- v7,
  armed <- v8, asleep <- v9, cfgs <- v10, todo <- v1, builder <- v2, http_phase <- v3,
  http_init <- v4, expect <- v5, upgrade <- v6, fut_ex <- v7, fut_upg <- v8,
  http_ready <- v9, http_asleep <- v10, http_armed <- v11, conns <- v12, spoke <- v13
\* Three items through a limit of two.
InFlight == INSTANCE Dispatchers WITH
  Kind <- "inflight", Items <- 3, max_inflight <- 2, timeout <- 1, ka <- 2,
  resolution <- 1, MaxTime <- 1, MaxBusy <- 1, Inputs <- {}, HW <- 1, Outs <- 1,
  HasSink <- TRUE, Closes <- TRUE, Fails <- TRUE,
  arrived <- v1, closed <- v2, taken <- v3, dsp <- v4, reg <- v5, leaf <- v6, busy <- v7,
  fut <- v8, res <- v9, errors <- v10, acks <- v11, tx1 <- v12, tx2 <- v13, sent <- v14,
  now <- v15, current <- v16, clear <- v17, deadline <- v18, expire <- v19, delay <- v20,
  last <- v21, framed_arrived <- v1, framed_taken <- v2, framed_busy <- v3, ready <- v4,
  calls <- v5, rx <- v6, outs <- v7, sink <- v8, wbuf <- v9, blocked <- v10,
  framed_sent <- v11, state <- v12, pc <- v13, moved <- v14, armed <- v15, woken <- v16,
  result <- v17
\* Answers put back in order.
InOrder == INSTANCE Dispatchers WITH
  Kind <- "inorder", Items <- 3, max_inflight <- 9, timeout <- 1, ka <- 2, resolution <- 1,
  MaxTime <- 1, MaxBusy <- 1, Inputs <- {}, HW <- 1, Outs <- 1, HasSink <- TRUE,
  Closes <- TRUE, Fails <- TRUE,
  arrived <- v1, closed <- v2, taken <- v3, dsp <- v4, reg <- v5, leaf <- v6, busy <- v7,
  fut <- v8, res <- v9, errors <- v10, acks <- v11, tx1 <- v12, tx2 <- v13, sent <- v14,
  now <- v15, current <- v16, clear <- v17, deadline <- v18, expire <- v19, delay <- v20,
  last <- v21, framed_arrived <- v1, framed_taken <- v2, framed_busy <- v3, ready <- v4,
  calls <- v5, rx <- v6, outs <- v7, sink <- v8, wbuf <- v9, blocked <- v10,
  framed_sent <- v11, state <- v12, pc <- v13, moved <- v14, armed <- v15, woken <- v16,
  result <- v17
\* Calls that may take too long.
Timeout == INSTANCE Dispatchers WITH
  Kind <- "timeout", Items <- 2, max_inflight <- 9, timeout <- 1, ka <- 2, resolution <- 1,
  MaxTime <- 4, MaxBusy <- 1, Inputs <- {}, HW <- 1, Outs <- 1, HasSink <- TRUE,
  Closes <- TRUE, Fails <- TRUE,
  arrived <- v1, closed <- v2, taken <- v3, dsp <- v4, reg <- v5, leaf <- v6, busy <- v7,
  fut <- v8, res <- v9, errors <- v10, acks <- v11, tx1 <- v12, tx2 <- v13, sent <- v14,
  now <- v15, current <- v16, clear <- v17, deadline <- v18, expire <- v19, delay <- v20,
  last <- v21, framed_arrived <- v1, framed_taken <- v2, framed_busy <- v3, ready <- v4,
  calls <- v5, rx <- v6, outs <- v7, sink <- v8, wbuf <- v9, blocked <- v10,
  framed_sent <- v11, state <- v12, pc <- v13, moved <- v14, armed <- v15, woken <- v16,
  result <- v17
\* A service that ends when idle.
KeepAlive == INSTANCE Dispatchers WITH
  Kind <- "keepalive", Items <- 2, max_inflight <- 9, timeout <- 1, ka <- 2,
  resolution <- 1, MaxTime <- 6, MaxBusy <- 0, Inputs <- {}, HW <- 1, Outs <- 1,
  HasSink <- TRUE, Closes <- TRUE, Fails <- TRUE,
  arrived <- v1, closed <- v2, taken <- v3, dsp <- v4, reg <- v5, leaf <- v6, busy <- v7,
  fut <- v8, res <- v9, errors <- v10, acks <- v11, tx1 <- v12, tx2 <- v13, sent <- v14,
  now <- v15, current <- v16, clear <- v17, deadline <- v18, expire <- v19, delay <- v20,
  last <- v21, framed_arrived <- v1, framed_taken <- v2, framed_busy <- v3, ready <- v4,
  calls <- v5, rx <- v6, outs <- v7, sink <- v8, wbuf <- v9, blocked <- v10,
  framed_sent <- v11, state <- v12, pc <- v13, moved <- v14, armed <- v15, woken <- v16,
  result <- v17
\* A framed dispatcher that is closed.
FramedClosed == INSTANCE Dispatchers WITH
  Kind <- "framed", Items <- 3, max_inflight <- 2, timeout <- 1, ka <- 2, resolution <- 1,
  MaxTime <- 1, MaxBusy <- 1, Inputs <- <<"item", "item">>, HW <- 1, Outs <- 1,
  HasSink <- FALSE, Closes <- TRUE, Fails <- FALSE,
  arrived <- v1, closed <- v2, taken <- v3, dsp <- v4, reg <- v5, leaf <- v6, busy <- v7,
  fut <- v8, res <- v9, errors <- v10, acks <- v11, tx1 <- v12, tx2 <- v13, sent <- v14,
  now <- v15, current <- v16, clear <- v17, deadline <- v18, expire <- v19, delay <- v20,
  last <- v21, framed_arrived <- v1, framed_taken <- v2, framed_busy <- v3, ready <- v4,
  calls <- v5, rx <- v6, outs <- v7, sink <- v8, wbuf <- v9, blocked <- v10,
  framed_sent <- v11, state <- v12, pc <- v13, moved <- v14, armed <- v15, woken <- v16,
  result <- v17
\* One that fails.
FramedBad == INSTANCE Dispatchers WITH
  Kind <- "framed", Items <- 3, max_inflight <- 2, timeout <- 1, ka <- 2, resolution <- 1,
  MaxTime <- 1, MaxBusy <- 1, Inputs <- <<"item", "bad">>, HW <- 1, Outs <- 1,
  HasSink <- FALSE, Closes <- FALSE, Fails <- TRUE,
  arrived <- v1, closed <- v2, taken <- v3, dsp <- v4, reg <- v5, leaf <- v6, busy <- v7,
  fut <- v8, res <- v9, errors <- v10, acks <- v11, tx1 <- v12, tx2 <- v13, sent <- v14,
  now <- v15, current <- v16, clear <- v17, deadline <- v18, expire <- v19, delay <- v20,
  last <- v21, framed_arrived <- v1, framed_taken <- v2, framed_busy <- v3, ready <- v4,
  calls <- v5, rx <- v6, outs <- v7, sink <- v8, wbuf <- v9, blocked <- v10,
  framed_sent <- v11, state <- v12, pc <- v13, moved <- v14, armed <- v15, woken <- v16,
  result <- v17
\* One with a sink that fails.
IoBad == INSTANCE Dispatchers WITH
  Kind <- "io", Items <- 3, max_inflight <- 2, timeout <- 1, ka <- 2, resolution <- 1,
  MaxTime <- 1, MaxBusy <- 1, Inputs <- <<"item", "bad">>, HW <- 1, Outs <- 1,
  HasSink <- TRUE, Closes <- FALSE, Fails <- TRUE,
  arrived <- v1, closed <- v2, taken <- v3, dsp <- v4, reg <- v5, leaf <- v6, busy <- v7,
  fut <- v8, res <- v9, errors <- v10, acks <- v11, tx1 <- v12, tx2 <- v13, sent <- v14,
  now <- v15, current <- v16, clear <- v17, deadline <- v18, expire <- v19, delay <- v20,
  last <- v21, framed_arrived <- v1, framed_taken <- v2, framed_busy <- v3, ready <- v4,
  calls <- v5, rx <- v6, outs <- v7, sink <- v8, wbuf <- v9, blocked <- v10,
  framed_sent <- v11, state <- v12, pc <- v13, moved <- v14, armed <- v15, woken <- v16,
  result <- v17
\* One with a sink.
IoSink == INSTANCE Dispatchers WITH
  Kind <- "io", Items <- 3, max_inflight <- 2, timeout <- 1, ka <- 2, resolution <- 1,
  MaxTime <- 1, MaxBusy <- 1, Inputs <- <<"item">>, HW <- 1, Outs <- 1, HasSink <- TRUE,
  Closes <- FALSE, Fails <- FALSE,
  arrived <- v1, closed <- v2, taken <- v3, dsp <- v4, reg <- v5, leaf <- v6, busy <- v7,
  fut <- v8, res <- v9, errors <- v10, acks <- v11, tx1 <- v12, tx2 <- v13, sent <- v14,
  now <- v15, current <- v16, clear <- v17, deadline <- v18, expire <- v19, delay <- v20,
  last <- v21, framed_arrived <- v1, framed_taken <- v2, framed_busy <- v3, ready <- v4,
  calls <- v5, rx <- v6, outs <- v7, sink <- v8, wbuf <- v9, blocked <- v10,
  framed_sent <- v11, state <- v12, pc <- v13, moved <- v14, armed <- v15, woken <- v16,
  result <- v17
\* Batches with a subscription and a method call.
RawServer == INSTANCE JsonRpc WITH
  Inputs <- <<<<"subscribe", "method">>, <<>>, <<"invalid">>>>, Capacity <- 1,
  MaxPushes <- 1, Drops <- TRUE, HandlerCapacity <- 1, AllowLosses <- TRUE, Callers <- {},
  OpOf <- {}, ID_MOD <- 5, QueueCapacity <- 1, NotifCapacity <- 1, Fails <- TRUE,
  arrived <- v1, requests <- v2, gone <- v3, to_client <- v4, batches <- v5, subs <- v6,
  num <- v7, fut <- v8, got <- v9, cut <- v10, pushed <- v11, front <- v12, asked <- v13,
  registered <- v14, queries <- v15, held <- v16, listening <- v17, clients <- v18,
  active <- v19, bg <- v20, caller <- v1, client_front <- v2, client_bg <- v3,
  next_id <- v4, client_requests <- v5, subscribed <- v6, events <- v7, ongoing <- v8,
  pending <- v9, client_active <- v10, chan <- v11, calls <- v12, live <- v13,
  responses <- v14
\* Two subscriptions in one batch.
RawSubscriptions == INSTANCE JsonRpc WITH
  Inputs <- <<<<"subscribe", "notify", "subscribe">>, <<"method">>>>, Capacity <- 1,
  MaxPushes <- 1, Drops <- TRUE, HandlerCapacity <- 1, AllowLosses <- TRUE, Callers <- {},
  OpOf <- {}, ID_MOD <- 5, QueueCapacity <- 1, NotifCapacity <- 1, Fails <- TRUE,
  arrived <- v1, requests <- v2, gone <- v3, to_client <- v4, batches <- v5, subs <- v6,
  num <- v7, fut <- v8, got <- v9, cut <- v10, pushed <- v11, front <- v12, asked <- v13,
  registered <- v14, queries <- v15, held <- v16, listening <- v17, clients <- v18,
  active <- v19, bg <- v20, caller <- v1, client_front <- v2, client_bg <- v3,
  next_id <- v4, client_requests <- v5, subscribed <- v6, events <- v7, ongoing <- v8,
  pending <- v9, client_active <- v10, chan <- v11, calls <- v12, live <- v13,
  responses <- v14
\* A server whose requests may be lost.
LossyServer == INSTANCE JsonRpc WITH
  Inputs <- <<<<"subscribe", "notify">>, <<"method", "notify">>>>, Capacity <- 1,
  MaxPushes <- 0, Drops <- TRUE, HandlerCapacity <- 1, AllowLosses <- TRUE, Callers <- {},
  OpOf <- {}, ID_MOD <- 5, QueueCapacity <- 1, NotifCapacity <- 1, Fails <- TRUE,
  arrived <- v1, requests <- v2, gone <- v3, to_client <- v4, batches <- v5, subs <- v6,
  num <- v7, fut <- v8, got <- v9, cut <- v10, pushed <- v11, front <- v12, asked <- v13,
  registered <- v14, queries <- v15, held <- v16, listening <- v17, clients <- v18,
  active <- v19, bg <- v20, caller <- v1, client_front <- v2, client_bg <- v3,
  next_id <- v4, client_requests <- v5, subscribed <- v6, events <- v7, ongoing <- v8,
  pending <- v9, client_active <- v10, chan <- v11, calls <- v12, live <- v13,
  responses <- v14
\* Batches of calls.
ServerBatches == INSTANCE JsonRpc WITH
  Inputs <- <<<<"method", "method">>, <<"unknown">>, <<"subscribe", "unsubscribe">>>>,
  Capacity <- 1, MaxPushes <- 0, Drops <- TRUE, HandlerCapacity <- 1, AllowLosses <- FALSE,
  Callers <- {}, OpOf <- {}, ID_MOD <- 5, QueueCapacity <- 1, NotifCapacity <- 1,
  Fails <- TRUE,
  arrived <- v1, requests <- v2, gone <- v3, to_client <- v4, batches <- v5, subs <- v6,
  num <- v7, fut <- v8, got <- v9, cut <- v10, pushed <- v11, front <- v12, asked <- v13,
  registered <- v14, queries <- v15, held <- v16, listening <- v17, clients <- v18,
  active <- v19, bg <- v20, caller <- v1, client_front <- v2, client_bg <- v3,
  next_id <- v4, client_requests <- v5, subscribed <- v6, events <- v7, ongoing <- v8,
  pending <- v9, client_active <- v10, chan <- v11, calls <- v12, live <- v13,
  responses <- v14
\* Calls, subscriptions and notifications.
ServerMixed == INSTANCE JsonRpc WITH
  Inputs <- <<<<"method", "subscribe">>, <<"notify", "notify", "unknown">>>>,
  Capacity <- 1, MaxPushes <- 0, Drops <- TRUE, HandlerCapacity <- 1, AllowLosses <- FALSE,
  Callers <- {}, OpOf <- {}, ID_MOD <- 5, QueueCapacity <- 1, NotifCapacity <- 1,
  Fails <- TRUE,
  arrived <- v1, requests <- v2, gone <- v3, to_client <- v4, batches <- v5, subs <- v6,
  num <- v7, fut <- v8, got <- v9, cut <- v10, pushed <- v11, front <- v12, asked <- v13,
  registered <- v14, queries <- v15, held <- v16, listening <- v17, clients <- v18,
  active <- v19, bg <- v20, caller <- v1, client_front <- v2, client_bg <- v3,
  next_id <- v4, client_requests <- v5, subscribed <- v6, events <- v7, ongoing <- v8,
  pending <- v9, client_active <- v10, chan <- v11, calls <- v12, live <- v13,
  responses <- v14
\* A request and a subscription.
Caller == INSTANCE JsonRpc WITH
  Inputs <- {}, Capacity <- 1, MaxPushes <- 2, Drops <- TRUE, HandlerCapacity <- 1,
  AllowLosses <- TRUE, Callers <- {1, 2},
  OpOf <- [c \in 1 .. 3 |-> IF c = 1 THEN "request" ELSE "subscribe"], ID_MOD <- 5,
  QueueCapacity <- 1, NotifCapacity <- 1, Fails <- TRUE,
  arrived <- v1, requests <- v2, gone <- v3, to_client <- v4, batches <- v5, subs <- v6,
  num <- v7, fut <- v8, got <- v9, cut <- v10, pushed <- v11, front <- v12, asked <- v13,
  registered <- v14, queries <- v15, held <- v16, listening <- v17, clients <- v18,
  active <- v19, bg <- v20, caller <- v1, client_front <- v2, client_bg <- v3,
  next_id <- v4, client_requests <- v5, subscribed <- v6, events <- v7, ongoing <- v8,
  pending <- v9, client_active <- v10, chan <- v11, calls <- v12, live <- v13,
  responses <- v14
\* Two subscriptions.
Subscribers == INSTANCE JsonRpc WITH
  Inputs <- {}, Capacity <- 1, MaxPushes <- 2, Drops <- TRUE, HandlerCapacity <- 1,
  AllowLosses <- TRUE, Callers <- {2, 3},
  OpOf <- [c \in 1 .. 3 |-> IF c = 1 THEN "request" ELSE "subscribe"], ID_MOD <- 5,
  QueueCapacity <- 1, NotifCapacity <- 1, Fails <- TRUE,
  arrived <- v1, requests <- v2, gone <- v3, to_client <- v4, batches <- v5, subs <- v6,
  num <- v7, fut <- v8, got <- v9, cut <- v10, pushed <- v11, front <- v12, asked <- v13,
  registered <- v14, queries <- v15, held <- v16, listening <- v17, clients <- v18,
  active <- v19, bg <- v20, caller <- v1, client_front <- v2, client_bg <- v3,
  next_id <- v4, client_requests <- v5, subscribed <- v6, events <- v7, ongoing <- v8,
  pending <- v9, client_active <- v10, chan <- v11, calls <- v12, live <- v13,
  responses <- v14
\* Two requests at a time.
App == INSTANCE WebApp WITH
  U16 <- 65536, Application <- TheApp, Requests <- Few, Names <- {}, Params <- UrlParams,
  All <- Chars, PoolMax <- 1, MaxCalls <- 2, MaxBusy <- 1, Cases <- {}, Shapes <- {},
  Alphabet <- {}, MaxLen <- 4, Tree <- {}, Leaves <- {}, Factories <- {}, Given <- {},
  MaxPolls <- 3,
  app <- v1, inners <- v2, pool <- v3, calls <- v4, alive <- v5, url <- v6, levels <- v1,
  path <- v2, trail <- v3, routing <- v4, loaded <- v5, val <- v1, idx <- v2,
  has_pct <- v3, pct <- v4, cloned <- v5, protected_table <- v6, safe_table <- v7,
  fut <- v1, endpoint <- v2, data_factories_fut <- v3, data_factories <- v4, polls <- v5,
  outcome <- v6, data <- v7, early <- v8
\* Every route, and the URLs of names.
Routes == INSTANCE WebApp WITH
  U16 <- 65536, Application <- TheApp, Requests <- Asked \cup Few, Names <- UrlNames,
  Params <- UrlParams, All <- Chars, PoolMax <- 1, MaxCalls <- 1, MaxBusy <- 1,
  Cases <- {}, Shapes <- {}, Alphabet <- {}, MaxLen <- 4, Tree <- {}, Leaves <- {},
  Factories <- {}, Given <- {}, MaxPolls <- 3,
  app <- v1, inners <- v2, pool <- v3, calls <- v4, alive <- v5, url <- v6, levels <- v1,
  path <- v2, trail <- v3, routing <- v4, loaded <- v5, val <- v1, idx <- v2,
  has_pct <- v3, pct <- v4, cloned <- v5, protected_table <- v6, safe_table <- v7,
  fut <- v1, endpoint <- v2, data_factories_fut <- v3, data_factories <- v4, polls <- v5,
  outcome <- v6, data <- v7, early <- v8
\* An application that is started.
\* Percent-encoded paths.
Startup == INSTANCE WebApp WITH
  U16 <- 65536, Application <- {}, Requests <- Few, Names <- {}, Params <- {},
  All <- Chars, PoolMax <- 1, MaxCalls <- 2, MaxBusy <- 1, Cases <- {}, Shapes <- {},
  Alphabet <- {37, 47, 50, 70, 102, 97}, MaxLen <- 4, Tree <- StartTree, Leaves <- 1 .. 5,
  Factories <- <<[ty |-> "A", v |-> 1], [ty |-> "B", v |-> 2]>>, Given <- [A |-> 0],
  MaxPolls <- 3,
  app <- v1, inners <- v2, pool <- v3, calls <- v4, alive <- v5, url <- v6, levels <- v1,
  path <- v2, trail <- v3, routing <- v4, loaded <- v5, val <- v1, idx <- v2,
  has_pct <- v3, pct <- v4, cloned <- v5, protected_table <- v6, safe_table <- v7,
  fut <- v1, endpoint <- v2, data_factories_fut <- v3, data_factories <- v4, polls <- v5,
  outcome <- v6, data <- v7, early <- v8
\* Two levels of routers: what is registered, and every short path.
Slash(x) == <<C("/"), C(x)>>
Plain(p) == [def |-> App!with_prefix(p, FALSE, Chars), check |-> TRUE]
Below(p) == [def |-> App!with_prefix(App!insert_slash(p), TRUE, Chars), check |-> TRUE]
AnyOf(ps) == [def |-> App!new_set(ps, Chars), check |-> TRUE]
Guarded(i) == [i EXCEPT !.check = FALSE]
OuterRouters == {
  <<Below(Slash("a")), Below(<<C("b")>>), Plain(Slash("a"))>>, <<Below(SlashVar("x")), Plain(Slash("a"))>>,
  <<Guarded(Below(Slash("a"))), Below(SlashVar("x") \o Slash("b")), Below(<<>>)>>,
  <<Below(Slash("a") \o <<C("/")>>), Plain(Slash("*"))>>,
  <<Below(SlashVar("x") \o <<C("1")>>), Plain(SlashVar("tail") \o <<C("*")>>)>>}
InnerRouters == {
  <<Plain(Slash("a")), Guarded(Plain(SlashVar("x"))), Plain(<<C("/"), Digit("id")>>), Plain(SlashVar("y"))>>,
  <<AnyOf(<<SlashVar("x") \o SlashVar("y"), <<C("/"), Digit("id"), C("a")>>, SlashVar("y")>>), Plain(<<>>)>>,
  <<Plain(SlashVar("x") \o <<V("y")>>), Plain(Slash("b") \o <<C("*")>>), Plain(<<V("tail"), C("*")>>)>>}
ShortPaths == {p \in UNION {[1 .. n -> Chars] : n \in 1 .. 4} : p[1] = "/"}
RouterCases == [levels : {<<o, i>> : o \in OuterRouters, i \in InnerRouters} \cup {<<i>> : i \in InnerRouters}, path : ShortPaths]
\* Routers over every short path.
Router == INSTANCE WebApp WITH
  U16 <- 65536, Application <- {}, Requests <- Few, Names <- {}, Params <- {},
  All <- Chars, PoolMax <- 1, MaxCalls <- 2, MaxBusy <- 1, Cases <- RouterCases,
  Shapes <- PathShapes, Alphabet <- {}, MaxLen <- 4, Tree <- {}, Leaves <- {},
  Factories <- {}, Given <- {}, MaxPolls <- 3,
  app <- v1, inners <- v2, pool <- v3, calls <- v4, alive <- v5, url <- v6, levels <- v1,
  path <- v2, trail <- v3, routing <- v4, loaded <- v5, val <- v1, idx <- v2,
  has_pct <- v3, pct <- v4, cloned <- v5, protected_table <- v6, safe_table <- v7,
  fut <- v1, endpoint <- v2, data_factories_fut <- v3, data_factories <- v4, polls <- v5,
  outcome <- v6, data <- v7, early <- v8
\* Views of the web UI with texts.
Ui == INSTANCE Vdom WITH
  Views <- TextViews, MaxUpdates <- 2,
  vdom <- v1, root <- v2, page <- v3, panicked <- v4, updates <- v5
\* Views with handlers.
UiEvents == INSTANCE Vdom WITH
  Views <- EventViews, MaxUpdates <- 3,
  vdom <- v1, root <- v2, page <- v3, panicked <- v4, updates <- v5
\* Files and directories.
\* Multipart bodies in pieces.
Files == INSTANCE WebBodies WITH
  Tree <- FileTree, Confs <- FilesConfs, Targets <- AllTargets, Ranges <- {NoRange},
  Conditions <- {"no"}, Ticks <- {2}, MaxChanges <- 1, MaxSize <- 4, CHUNK <- 2,
  Bodies <- WholeBodies, boundary <- Bound, AnyCut <- FALSE, Drops <- FALSE, MaxPiece <- 5,
  Messages <- {}, ENCODER_INPLACE <- 2, DECODER_INPLACE <- 2,
  conf <- v1, file <- v2, copy <- v3, req <- v4, out <- v5, offset <- v6, size <- v7,
  counter <- v8, fut <- v9, given <- v10, changes <- v11, body <- v1, rest <- v2,
  avail <- v3, ended <- v4, buf <- v5, eof <- v6, state <- v7, item <- v8, strong <- v9,
  multipart_out <- v10, error <- v11, panicked <- v12, mp <- v13, fd <- v14, waker <- v15,
  msg <- v1, head <- v2, coding_body <- v3, enc <- v4, wire <- v5, closed <- v6, dec <- v7,
  got <- v8, rd <- v9, result <- v10
\* Ranges and conditions of a file.
\* Bodies that are cut or malformed, and fields that are dropped.
FileRanges == INSTANCE WebBodies WITH
  Tree <- FileTree, Confs <- FilesConfs, Targets <- {TheFile}, Ranges <- AllRanges,
  Conditions <- AllConditions, Ticks <- {2}, MaxChanges <- 1, MaxSize <- 3, CHUNK <- 2,
  Bodies <- OddBodies, boundary <- Bound, AnyCut <- FALSE, Drops <- TRUE, MaxPiece <- 5,
  Messages <- {}, ENCODER_INPLACE <- 2, DECODER_INPLACE <- 2,
  conf <- v1, file <- v2, copy <- v3, req <- v4, out <- v5, offset <- v6, size <- v7,
  counter <- v8, fut <- v9, given <- v10, changes <- v11, body <- v1, rest <- v2,
  avail <- v3, ended <- v4, buf <- v5, eof <- v6, state <- v7, item <- v8, strong <- v9,
  multipart_out <- v10, error <- v11, panicked <- v12, mp <- v13, fd <- v14, waker <- v15,
  msg <- v1, head <- v2, coding_body <- v3, enc <- v4, wire <- v5, closed <- v6, dec <- v7,
  got <- v8, rd <- v9, result <- v10
\* Bodies that are compressed.
Coding == INSTANCE WebBodies WITH
  Tree <- {}, Confs <- {}, Targets <- {}, Ranges <- {}, Conditions <- {}, Ticks <- {2},
  MaxChanges <- 1, MaxSize <- 4, CHUNK <- 2, Bodies <- {}, boundary <- Bound,
  AnyCut <- FALSE, Drops <- TRUE, MaxPiece <- 3, Messages <- CodedMessages,
  ENCODER_INPLACE <- 2, DECODER_INPLACE <- 2,
  conf <- v1, file <- v2, copy <- v3, req <- v4, out <- v5, offset <- v6, size <- v7,
  counter <- v8, fut <- v9, given <- v10, changes <- v11, body <- v1, rest <- v2,
  avail <- v3, ended <- v4, buf <- v5, eof <- v6, state <- v7, item <- v8, strong <- v9,
  multipart_out <- v10, error <- v11, panicked <- v12, mp <- v13, fd <- v14, waker <- v15,
  msg <- v1, head <- v2, coding_body <- v3, enc <- v4, wire <- v5, closed <- v6, dec <- v7,
  got <- v8, rd <- v9, result <- v10
\* Stacks of middleware.
Middleware == INSTANCE Middleware WITH
  Stacks <- MwStacks, Requests <- MwRequests, Answers <- MwAnswers, Origins <- {},
  MethodLists <- {}, HeaderLists <- {}, MaxCalls <- 2,
  stack <- v1, built <- v2, req <- v3, seen <- v4, at <- v5, dir <- v6, answer <- v7,
  resp <- v8, format <- v9, wrapped <- v10, size <- v11, polled <- v12, lines <- v13,
  inner <- v1, methods_set <- v2, error <- v3, expose <- v4, asked <- v5, phase <- v6,
  cors_req <- v7, out <- v8
\* Requests of other origins.
Cors == INSTANCE Middleware WITH
  Stacks <- {}, Requests <- CorsRequests, Answers <- CorsAnswers,
  Origins <- {"a", "c", "bad"}, MethodLists <- {<<>>, <<"GET">>, <<"PUT", "bad", "GET">>},
  HeaderLists <- {<<>>, <<"x">>, <<"y", "bad">>}, MaxCalls <- 2,
  stack <- v1, built <- v2, req <- v3, seen <- v4, at <- v5, dir <- v6, answer <- v7,
  resp <- v8, format <- v9, wrapped <- v10, size <- v11, polled <- v12, lines <- v13,
  inner <- v1, methods_set <- v2, error <- v3, expose <- v4, asked <- v5, phase <- v6,
  cors_req <- v7, out <- v8

\* The variables a component has no use for.
From21 == <<v21>>
Idle21 == v21 = 0
From18 == <<v18, v19, v20, From21>>
Idle18 == v18 = 0 /\ v19 = 0 /\ v20 = 0 /\ Idle21
From16 == <<v16, v17, From18>>
Idle16 == v16 = 0 /\ v17 = 0 /\ Idle18
From15 == <<v15, From16>>
Idle15 == v15 = 0 /\ Idle16
From14 == <<v14, From15>>
Idle14 == v14 = 0 /\ Idle15
From12 == <<v12, v13, From14>>
Idle12 == v12 = 0 /\ v13 = 0 /\ Idle14
From11 == <<v11, From12>>
Idle11 == v11 = 0 /\ Idle12
From9 == <<v9, v10, From11>>
Idle9 == v9 = 0 /\ v10 = 0 /\ Idle11
From8 == <<v8, From9>>
Idle8 == v8 = 0 /\ Idle9
From7 == <<v7, From8>>
Idle7 == v7 = 0 /\ Idle8
From6 == <<v6, From7>>
Idle6 == v6 = 0 /\ Idle7

FamilyInit ==
  \/ part = "kept" /\ Kept!Init /\ Idle9
  \/ part = "faulty" /\ Faulty!Init /\ Idle9
  \/ part = "shared" /\ Shared!Init /\ Idle9
  \/ part = "services" /\ Services!Init /\ Idle11
  \/ part = "service_h1" /\ Services!HttpInit /\ Idle14
  \/ part = "service_h2" /\ ServiceH2!HttpInit /\ Idle14
  \/ part = "service_http" /\ ServiceHttp!HttpInit /\ Idle14
  \/ part = "inflight" /\ InFlight!Init
  \/ part = "inorder" /\ InOrder!Init
  \/ part = "timeout" /\ Timeout!Init
  \/ part = "keepalive" /\ KeepAlive!Init
  \/ part = "framed_closed" /\ FramedClosed!FramedInit /\ Idle18
  \/ part = "framed_bad" /\ FramedBad!FramedInit /\ Idle18
  \/ part = "io_bad" /\ IoBad!FramedInit /\ Idle18
  \/ part = "io_sink" /\ IoSink!FramedInit /\ Idle18
  \/ part = "raw_server" /\ RawServer!RawInit /\ Idle12
  \/ part = "raw_subscriptions" /\ RawSubscriptions!RawInit /\ Idle12
  \/ part = "lossy_server" /\ LossyServer!Init /\ Idle21
  \/ part = "server_batches" /\ ServerBatches!Init /\ Idle21
  \/ part = "server_mixed" /\ ServerMixed!Init /\ Idle21
  \/ part = "caller" /\ Caller!ClientInit /\ Idle15
  \/ part = "subscribers" /\ Subscribers!ClientInit /\ Idle15
  \/ part = "app" /\ App!Init /\ Idle7
  \/ part = "routes" /\ Routes!Init /\ Idle7
  \/ part = "startup" /\ Startup!StartupInit /\ Idle9
  \/ part = "quoter" /\ Startup!QuoterInit /\ Idle8
  \/ part = "router" /\ Router!RouterInit /\ Idle6
  \/ part = "texts" /\ Ui!Init /\ Idle6
  \/ part = "events" /\ UiEvents!Init /\ Idle6
  \/ part = "files" /\ Files!Init /\ Idle12
  \/ part = "whole_bodies" /\ Files!MultipartInit /\ Idle16
  \/ part = "ranges" /\ FileRanges!Init /\ Idle12
  \/ part = "odd_bodies" /\ FileRanges!MultipartInit /\ Idle16
  \/ part = "coding" /\ Coding!CodingInit /\ Idle11
  \/ part = "middleware" /\ Middleware!Init /\ Idle14
  \/ part = "cors" /\ Cors!CorsInit /\ Idle9

KeptStep == part = "kept" /\ Kept!Next /\ UNCHANGED <<part, From9>>
FaultyStep == part = "faulty" /\ Faulty!Next /\ UNCHANGED <<part, From9>>
SharedStep == part = "shared" /\ Shared!Next /\ UNCHANGED <<part, From9>>
ServicesStep == part = "services" /\ Services!Next /\ UNCHANGED <<part, From11>>
ServiceH1Step == part = "service_h1" /\ Services!HttpNext /\ UNCHANGED <<part, From14>>
ServiceH2Step == part = "service_h2" /\ ServiceH2!HttpNext /\ UNCHANGED <<part, From14>>
ServiceHttpStep == part = "service_http" /\ ServiceHttp!HttpNext /\ UNCHANGED <<part, From14>>
InflightStep == part = "inflight" /\ InFlight!Next /\ UNCHANGED <<part>>
InorderStep == part = "inorder" /\ InOrder!Next /\ UNCHANGED <<part>>
TimeoutStep == part = "timeout" /\ Timeout!Next /\ UNCHANGED <<part>>
KeepaliveStep == part = "keepalive" /\ KeepAlive!Next /\ UNCHANGED <<part>>
FramedClosedStep == part = "framed_closed" /\ FramedClosed!FramedNext /\ UNCHANGED <<part, From18>>
FramedBadStep == part = "framed_bad" /\ FramedBad!FramedNext /\ UNCHANGED <<part, From18>>
IoBadStep == part = "io_bad" /\ IoBad!FramedNext /\ UNCHANGED <<part, From18>>
IoSinkStep == part = "io_sink" /\ IoSink!FramedNext /\ UNCHANGED <<part, From18>>
RawServerStep == part = "raw_server" /\ RawServer!Next /\ UNCHANGED <<part, From12>>
RawSubscriptionsStep == part = "raw_subscriptions" /\ RawSubscriptions!Next /\ UNCHANGED <<part, From12>>
LossyServerStep == part = "lossy_server" /\ LossyServer!ServerNext /\ UNCHANGED <<part, From21>>
ServerBatchesStep == part = "server_batches" /\ ServerBatches!ServerNext /\ UNCHANGED <<part, From21>>
ServerMixedStep == part = "server_mixed" /\ ServerMixed!ServerNext /\ UNCHANGED <<part, From21>>
CallerStep == part = "caller" /\ Caller!ClientNext /\ UNCHANGED <<part, From15>>
SubscribersStep == part = "subscribers" /\ Subscribers!ClientNext /\ UNCHANGED <<part, From15>>
AppStep == part = "app" /\ App!Next /\ UNCHANGED <<part, From7>>
RoutesStep == part = "routes" /\ Routes!Next /\ UNCHANGED <<part, From7>>
StartupStep == part = "startup" /\ Startup!StartupNext /\ UNCHANGED <<part, From9>>
QuoterStep == part = "quoter" /\ Startup!QuoterNext /\ UNCHANGED <<part, From8>>
RouterStep == part = "router" /\ Router!RouterNext /\ UNCHANGED <<part, From6>>
TextsStep == part = "texts" /\ Ui!Next /\ UNCHANGED <<part, From6>>
EventsStep == part = "events" /\ UiEvents!Next /\ UNCHANGED <<part, From6>>
FilesStep == part = "files" /\ Files!Next /\ UNCHANGED <<part, From12>>
WholeBodiesStep == part = "whole_bodies" /\ Files!MultipartNext /\ UNCHANGED <<part, From16>>
RangesStep == part = "ranges" /\ FileRanges!Next /\ UNCHANGED <<part, From12>>
OddBodiesStep == part = "odd_bodies" /\ FileRanges!MultipartNext /\ UNCHANGED <<part, From16>>
CodingStep == part = "coding" /\ Coding!CodingNext /\ UNCHANGED <<part, From11>>
MiddlewareStep == part = "middleware" /\ Middleware!Next /\ UNCHANGED <<part, From14>>
CorsStep == part = "cors" /\ Cors!CorsNext /\ UNCHANGED <<part, From9>>
FamilyNext ==
  \/ KeptStep \/ FaultyStep \/ SharedStep \/ ServicesStep \/ ServiceH1Step \/ ServiceH2Step
  \/ ServiceHttpStep \/ InflightStep \/ InorderStep \/ TimeoutStep \/ KeepaliveStep
  \/ FramedClosedStep \/ FramedBadStep \/ IoBadStep \/ IoSinkStep \/ RawServerStep
  \/ RawSubscriptionsStep \/ LossyServerStep \/ ServerBatchesStep \/ ServerMixedStep
  \/ CallerStep \/ SubscribersStep \/ AppStep \/ RoutesStep \/ StartupStep \/ QuoterStep
  \/ RouterStep \/ TextsStep \/ EventsStep \/ FilesStep \/ WholeBodiesStep \/ RangesStep
  \/ OddBodiesStep \/ CodingStep \/ MiddlewareStep \/ CorsStep
familyVars == <<part, v1, v2, v3, v4, v5, From6>>
FamilySpec == FamilyInit /\ [][FamilyNext]_familyVars
-----------------------------------------------------------------------------
=============================================================================
