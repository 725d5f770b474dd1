----------------------------- MODULE Middleware ------------------------------
(* The middleware around an application's services.                         *)
EXTENDS Naturals, Sequences, FiniteSets, SequencesExt

(* The middlewares that wrap a service (web/middleware): Condition,             *)
(* NormalizePath, DefaultHeaders, ErrorHandlers and Logger, stacked in any      *)
(* order.  A request goes down through the layers, a response up, and its body  *)
(* is polled and dropped by the dispatcher.  Text is a sequence of characters;  *)
(* a number is written in the unary system.                                     *)

CONSTANTS
    Stacks,     \* sequences of layers [kind, on, arg], outermost first
    Requests,   \* [path, query]
    Answers     \* [err, status, headers, chunks]: what the service gives

VARIABLES
    stack, built,
    req, seen,      \* the request [uri, query, match] as it goes down; ghost: the path each layer saw
    at, dir,        \* the layer in turn; "down", "up", "wait", "body" or "done"
    answer, resp,   \* what the service gave; the response [err, status, headers]
    format,         \* the format of each Logger, once the request has passed
    wrapped,        \* the StreamLogs around the body, innermost first
    size, polled,   \* bytes each StreamLog has seen; chunks of the body polled
    lines           \* what was logged: <<layer, text>>

vars == <<stack, built, req, seen, at, dir, answer, resp, format, wrapped, size, polled, lines>>
fixed == <<stack, built, answer>>

Nothing == [none |-> TRUE]
Unary(n) == [i \in 1..n |-> "."]

-----------------------------------------------------------------------------
\* Format::new: `%(\{name\}[ioe]|[atPrUsbTD]?)`; the text between the matches is kept.
\* The other directives (a, t, r; T, D and the environment) are rendered where U and b are.
Str(t) == [k |-> "Str", v |-> t]
Directive(c) == CASE c = "U" -> [k |-> "UrlPath"] [] c = "s" -> [k |-> "ResponseStatus"]
                  [] c = "b" -> [k |-> "ResponseSize"] [] OTHER -> Str(<<c>>)
\* Length of the match at i: "%{x}o", "%" and a letter of the class, or "%" alone.
MatchLen(s, i) ==
    IF i + 4 <= Len(s) /\ s[i + 1] = "{" /\ s[i + 2] \in {"x", "s"} /\ s[i + 3] = "}" /\ s[i + 4] = "o" THEN 5
    ELSE IF i + 1 <= Len(s) /\ s[i + 1] \in {"U", "s", "b", "P"} THEN 2 ELSE 1
Unit(s, i) == CASE MatchLen(s, i) = 5 -> [k |-> "ResponseHeader", v |-> s[i + 2]]
                [] MatchLen(s, i) = 2 -> Directive(s[i + 1])
                [] OTHER -> Str(<<>>)
FormatNew(s) ==
    LET from[i \in 1..Len(s) + 1] ==
            IF i > Len(s) THEN <<>>
            ELSE IF s[i] = "%" THEN <<Unit(s, i)>> \o from[i + MatchLen(s, i)]
            ELSE <<Str(<<s[i]>>)>> \o from[i + 1]
    IN from[1]

render_request(f, path) == [i \in DOMAIN f |-> IF f[i].k = "UrlPath" THEN Str(path) ELSE f[i]]

render_response(f, r) ==
    [i \in DOMAIN f |->
        CASE f[i].k = "ResponseStatus" -> Str(<<r.status>>)
          [] f[i].k = "ResponseHeader" -> Str(IF f[i].v \in DOMAIN r.headers THEN <<r.headers[f[i].v]>> ELSE <<"-">>)
          [] OTHER -> f[i]]

render(f, n) ==
    FlattenSeq([i \in DOMAIN f |-> CASE f[i].k = "Str" -> f[i].v [] f[i].k = "ResponseSize" -> Unary(n) [] OTHER -> <<>>])

-----------------------------------------------------------------------------
Init ==
    /\ stack \in Stacks /\ built = <<>> /\ req = Nothing /\ seen = <<>> /\ at = 0 /\ dir = "new"
    /\ answer = Nothing /\ resp = Nothing /\ format = <<>> /\ wrapped = <<>> /\ size = <<>> /\ polled = 0 /\ lines = <<>>

\* new_transform of every layer: a Condition builds its transform or passes the service on.
new_transform ==
    /\ dir = "new" /\ dir' = "ready" /\ built' = SelectSeq(stack, LAMBDA l : l.on)
    /\ UNCHANGED <<stack, req, seen, at, answer, resp, format, wrapped, size, polled, lines>>

call(r) ==
    /\ dir = "ready" /\ dir' = "down" /\ at' = 1
    /\ req' = [uri |-> r.path, query |-> r.query, match |-> r.path]
    /\ format' = [i \in 1..Len(built) |-> Nothing] /\ size' = [i \in 1..Len(built) |-> 0]
    /\ UNCHANGED <<fixed, seen, resp, wrapped, polled, lines>>

\* NormalizePath::call: `//+` becomes `/`, the query stays.
MergeSlash(p) ==
    LET keep == SelectSeq([i \in DOMAIN p |-> i], LAMBDA i : ~(p[i] = "/" /\ i > 1 /\ p[i - 1] = "/"))
    IN [i \in DOMAIN keep |-> p[keep[i]]]
normalize(p) == IF Len(MergeSlash(p)) # Len(p) THEN [uri |-> MergeSlash(p), query |-> req.query, match |-> MergeSlash(p)]
                ELSE req

\* LoggerMiddleware::call.
LoggerFormat(l) == IF req.match \in l.arg.exclude THEN Nothing
                   ELSE [f |-> render_request(FormatNew(l.arg.format), req.match)]

call_layer ==
    /\ dir = "down" /\ at <= Len(built) /\ at' = at + 1 /\ seen' = Append(seen, req.match)
    /\ req' = IF built[at].kind = "normalize" THEN normalize(req.uri) ELSE req
    /\ format' = IF built[at].kind = "logger" THEN [format EXCEPT ![at] = LoggerFormat(built[at])] ELSE format
    /\ UNCHANGED <<fixed, dir, resp, wrapped, size, polled, lines>>

\* The service answers.
serve(a) ==
    /\ dir = "down" /\ at > Len(built) /\ dir' = "up" /\ at' = Len(built)
    /\ answer' = a /\ resp' = [err |-> a.err, status |-> a.status, headers |-> a.headers]
    /\ UNCHANGED <<stack, built, req, seen, format, wrapped, size, polled, lines>>

\* DefaultHeaders::call: the defaults in order, each only where the key is missing.
AddDefault(h, d) == IF d[1] \in DOMAIN h THEN h ELSE [k \in DOMAIN h \cup {d[1]} |-> IF k = d[1] THEN d[2] ELSE h[k]]
default_headers(l, h) ==
    FoldLeft(AddDefault, h, l.arg.headers \o (IF l.arg.ct THEN << <<"content-type", "octets">> >> ELSE <<>>))

\* StreamLog::drop, the outermost first.
Dropped(w) == FlattenSeq([j \in DOMAIN w |-> LET i == w[Len(w) + 1 - j] IN
                          IF format[i] = Nothing THEN <<>> ELSE << <<i, render(format[i].f, size[i])>> >>])

\* The response passes layer `at`.  A handler of ErrorHandlers answers at once
\* ("response"), later ("future"), or with an error.
respond_layer ==
    /\ dir = "up" /\ at > 0
    /\ LET l == built[at]
           h == IF l.kind = "errors" /\ ~resp.err /\ resp.status \in DOMAIN l.arg THEN l.arg[resp.status] ELSE Nothing
       IN IF resp.err \/ l.kind = "normalize" \/ (l.kind = "errors" /\ h = Nothing)
          THEN at' = at - 1 /\ UNCHANGED <<dir, resp, format, wrapped, lines>>
          ELSE CASE l.kind = "headers" ->
                      /\ resp' = [resp EXCEPT !.headers = default_headers(l, @)]
                      /\ at' = at - 1 /\ UNCHANGED <<dir, format, wrapped, lines>>
                 [] l.kind = "logger" ->
                      /\ format' = IF format[at] = Nothing THEN format
                                   ELSE [format EXCEPT ![at] = [f |-> render_response(@.f, resp)]]
                      /\ wrapped' = Append(wrapped, at) /\ at' = at - 1 /\ UNCHANGED <<dir, resp, lines>>
                 [] OTHER ->
                      /\ resp' = [resp EXCEPT !.status = h.status, !.err = (h.how = "err")]
                      /\ IF h.how = "err" THEN lines' = lines \o Dropped(wrapped) /\ wrapped' = <<>>
                         ELSE UNCHANGED <<lines, wrapped>>
                      /\ IF h.how = "future" THEN dir' = "wait" /\ UNCHANGED at ELSE at' = at - 1 /\ UNCHANGED dir
                      /\ UNCHANGED format
    /\ UNCHANGED <<fixed, req, seen, size, polled>>

\* The future of an error handler is done.
handler_done ==
    /\ dir = "wait" /\ dir' = "up" /\ at' = at - 1
    /\ UNCHANGED <<fixed, req, seen, resp, format, wrapped, size, polled, lines>>

\* The head goes out; the dispatcher has the body, or an error.
take ==
    /\ dir = "up" /\ at = 0 /\ dir' = IF resp.err THEN "done" ELSE "body"
    /\ UNCHANGED <<fixed, req, seen, at, resp, format, wrapped, size, polled, lines>>

poll_next ==
    /\ dir = "body" /\ polled < Len(answer.chunks) /\ polled' = polled + 1
    /\ size' = [i \in DOMAIN size |-> IF i \in ToSet(wrapped) THEN size[i] + answer.chunks[polled + 1] ELSE size[i]]
    /\ UNCHANGED <<fixed, req, seen, at, dir, resp, format, wrapped, lines>>

\* The response, or the future of the call, is dropped: at the end or before it.
drop ==
    /\ dir \in {"down", "up", "wait", "body"} /\ dir' = "done"
    /\ lines' = lines \o Dropped(wrapped) /\ wrapped' = <<>>
    /\ UNCHANGED <<fixed, req, seen, at, resp, format, size, polled>>

Next == new_transform \/ call_layer \/ respond_layer \/ handler_done \/ take \/ poll_next \/ drop
        \/ (\E r \in Requests : call(r)) \/ (\E a \in Answers : serve(a))

Spec == Init /\ [][Next]_vars

-----------------------------------------------------------------------------
Layers(kind) == {i \in DOMAIN built : built[i].kind = kind}
Letters(p) == SelectSeq(p, LAMBDA c : c # "/")
Starts(p) == Cardinality({i \in DOMAIN p : p[i] # "/" /\ (i = 1 \/ p[i - 1] = "/")})

\* Below an enabled NormalizePath the path has no empty segment, in the URI and in the
\* match info alike, and nothing else of it has changed: the segments, the slash at its
\* end and the query are those the client sent.
Normalised == dir = "down" /\ (\E i \in Layers("normalize") : i < at) =>
    /\ req.match = req.uri
    /\ \A i \in 1..Len(req.uri) - 1 : ~(req.uri[i] = "/" /\ req.uri[i + 1] = "/")
    /\ \E r \in Requests : /\ r.path = seen[1] /\ r.query = req.query
                           /\ Letters(r.path) = Letters(req.uri) /\ Starts(r.path) = Starts(req.uri)
                           /\ r.path # <<>> => Last(r.path) = Last(req.uri)

\* Default headers never replace what the service set, and are all there in the end.
DefaultsYield == dir = "body" =>
    /\ \A k \in DOMAIN answer.headers : k \in DOMAIN resp.headers /\ resp.headers[k] = answer.headers[k]
    /\ \A i \in Layers("headers") : \A j \in DOMAIN built[i].arg.headers : built[i].arg.headers[j][1] \in DOMAIN resp.headers

\* What a format means: each directive its value, all other text itself.
RECURSIVE Meaning(_, _, _, _)
Meaning(s, path, r, n) ==
    IF s = <<>> THEN <<>>
    ELSE IF s[1] # "%" THEN <<s[1]>> \o Meaning(Tail(s), path, r, n)
    ELSE IF Len(s) >= 5 /\ s[2] = "{"
         THEN (IF s[3] \in DOMAIN r.headers THEN <<r.headers[s[3]]>> ELSE <<"-">>) \o Meaning(SubSeq(s, 6, Len(s)), path, r, n)
    ELSE (CASE s[2] = "U" -> path [] s[2] = "s" -> <<r.status>> [] s[2] = "b" -> Unary(n) [] OTHER -> <<"%">>)
         \o Meaning(SubSeq(s, 3, Len(s)), path, r, n)

\* A response that passed a Logger is logged exactly once, when the last of its body is
\* let go, and never when its path is excluded.
LoggedOnce ==
    \A i \in Layers("logger") :
        LET n == Cardinality({j \in DOMAIN lines : lines[j][1] = i})
        IN /\ n <= 1
           /\ i \in ToSet(wrapped) => n = 0
           /\ n = 1 => seen[i] \notin built[i].arg.exclude
           /\ dir = "done" /\ polled > 0 /\ seen[i] \notin built[i].arg.exclude => n = 1

\* The line tells the path the Logger saw and the bytes of the body the client was given.
LineRight ==
    \A j \in DOMAIN lines :
        LET i == lines[j][1]
            bytes == FoldLeft(LAMBDA a, b : a + b, 0, SubSeq(answer.chunks, 1, polled))
        IN (\A k \in Layers("errors") \cup Layers("headers") : k < i) =>
               lines[j][2] = Meaning(built[i].arg.format, seen[i], answer, bytes)

MiddlewareSound == Normalised /\ DefaultsYield /\ LoggedOnce /\ LineRight

-----------------------------------------------------------------------------
(* Cross-origin resource sharing (web/middleware/cors.rs): the builder, whose   *)
(* calls come in any order, the checks of its finish, and the middleware that   *)
(* answers preflight requests and marks the responses of the service behind it. *)
(* "bad" is text that does not parse, "opaque" a value that is not text.        *)

CONSTANTS
    Origins,      \* the arguments of allowed_origin
    MethodLists, HeaderLists,   \* the arguments of the calls that take a list
    MaxCalls      \* bound: calls to the builder

VARIABLES
    inner,        \* the policy
    methods_set, error, expose,   \* the rest of the builder
    asked,        \* ghost: the calls made, in order
    phase,        \* "build", "ready", "called" or "panic"
    cors_req, out      \* the request in hand; the last answer

corsVars == <<inner, methods_set, error, expose, asked, phase, cors_req, out>>
builder == <<inner, methods_set, error, expose, asked>>

All == [all |-> TRUE, set |-> {}]
AllOrSomeAdd(s, x) == [all |-> FALSE, set |-> s.set \cup {x}]
DefaultMethods == <<"GET", "OPTIONS", "PUT">>
None == "none"
CorsNothing == [kind |-> "nothing"]

CorsInit ==
    /\ inner = [origins |-> All, methods |-> {}, headers |-> All, expose |-> {}, max_age |-> FALSE,
                preflight |-> TRUE, send_wildcard |-> FALSE, supports_credentials |-> FALSE, vary |-> TRUE]
    /\ methods_set = FALSE /\ error = FALSE /\ expose = {} /\ asked = <<>>
    /\ phase = "build" /\ cors_req = CorsNothing /\ out = CorsNothing

\* A list is taken up to its first element that does not parse.
Parsed(list) == LET bad == {i \in DOMAIN list : list[i] = "bad"}
                IN IF bad = {} THEN list ELSE SubSeq(list, 1, (CHOOSE i \in bad : \A j \in bad : i <= j) - 1)
HasBad(list) == \E i \in DOMAIN list : list[i] = "bad"

Call(name, arg) == phase = "build" /\ Len(asked) < MaxCalls /\ asked' = Append(asked, [name |-> name, arg |-> arg])

allowed_origin(o) ==
    /\ Call("origin", <<o>>)
    /\ IF error THEN UNCHANGED <<inner, error>>
       ELSE IF o = "bad" THEN error' = TRUE /\ UNCHANGED inner
       ELSE inner' = [inner EXCEPT !.origins = AllOrSomeAdd(@, o)] /\ UNCHANGED error
    /\ UNCHANGED <<methods_set, expose, phase, cors_req, out>>

\* The policy after allowed_methods.
WithMethods(list) == [inner EXCEPT !.methods = @ \cup ToSet(Parsed(list))]

allowed_methods(list) ==
    /\ Call("methods", list) /\ methods_set' = TRUE
    /\ IF error THEN UNCHANGED <<inner, error>>
       ELSE inner' = WithMethods(list) /\ error' = HasBad(list)
    /\ UNCHANGED <<expose, phase, cors_req, out>>

allowed_headers(list) ==
    /\ Call("headers", list)
    /\ IF error THEN UNCHANGED <<inner, error>>
       ELSE /\ inner' = [inner EXCEPT !.headers = FoldLeft(AllOrSomeAdd, @, Parsed(list))]
            /\ error' = HasBad(list)
    /\ UNCHANGED <<methods_set, expose, phase, cors_req, out>>

expose_headers(list) ==
    /\ Call("expose", list)
    /\ expose' = expose \cup ToSet(Parsed(list)) /\ error' = (error \/ HasBad(list))
    /\ UNCHANGED <<inner, methods_set, phase, cors_req, out>>

\* max_age, send_wildcard, supports_credentials, disable_vary_header, disable_preflight.
flag(name) ==
    /\ Call(name, <<>>)
    /\ inner' = IF error THEN inner
                ELSE CASE name = "max_age" -> [inner EXCEPT !.max_age = TRUE]
                       [] name = "wildcard" -> [inner EXCEPT !.send_wildcard = TRUE]
                       [] name = "credentials" -> [inner EXCEPT !.supports_credentials = TRUE]
                       [] name = "no_vary" -> [inner EXCEPT !.vary = FALSE]
                       [] OTHER -> [inner EXCEPT !.preflight = FALSE]
    /\ UNCHANGED <<methods_set, error, expose, phase, cors_req, out>>

Flags == {"max_age", "wildcard", "credentials", "no_vary", "no_preflight"}

finish ==
    /\ phase = "build"
    /\ LET p == IF methods_set \/ error THEN inner ELSE WithMethods(DefaultMethods)
       IN IF error \/ (p.supports_credentials /\ p.send_wildcard /\ p.origins.all)
          THEN phase' = "panic" /\ UNCHANGED inner
          ELSE phase' = "ready" /\ inner' = [p EXCEPT !.expose = expose]
    /\ UNCHANGED <<methods_set, error, expose, asked, cors_req, out>>

-----------------------------------------------------------------------------
validate_origin(r) ==
    IF r.origin = "opaque" THEN "BadOrigin"
    ELSE IF inner.origins.all \/ r.origin \in inner.origins.set THEN "ok"
    ELSE IF r.origin = None THEN "MissingOrigin" ELSE "OriginNotAllowed"

\* The list of all allowed origins is the fallback; the empty list cannot be sent.
access_control_allow_origin(r) ==
    IF inner.origins.all THEN IF inner.send_wildcard THEN {"*"} ELSE {r.origin} \ {None}
    ELSE IF r.origin \in inner.origins.set THEN {r.origin} ELSE inner.origins.set

validate_allowed_method(r) ==
    IF r.reqm = None THEN "MissingRequestMethod"
    ELSE IF r.reqm \in {"opaque", "bad"} THEN "BadRequestMethod"
    ELSE IF r.reqm \in inner.methods THEN "ok" ELSE "MethodNotAllowed"

\* "" splits into one empty name, which does not parse.
validate_allowed_headers(r) ==
    IF inner.headers.all \/ r.reqh = <<None>> THEN "ok"
    ELSE IF r.reqh = <<>> \/ ToSet(r.reqh) \cap {"opaque", "bad"} # {} THEN "BadRequestHeaders"
    ELSE IF ToSet(r.reqh) \subseteq inner.headers.set THEN "ok" ELSE "HeadersNotAllowed"

Preflight(r) ==
    IF validate_origin(r) # "ok" THEN validate_origin(r)
    ELSE IF validate_allowed_method(r) # "ok" THEN validate_allowed_method(r)
    ELSE validate_allowed_headers(r)

\* The answer to a preflight request.
Allowed(r) ==
    [kind |-> "preflight", acao |-> access_control_allow_origin(r), creds |-> inner.supports_credentials,
     methods |-> inner.methods, max_age |-> inner.max_age,
     headers |-> IF inner.headers.all THEN ToSet(r.reqh) \ {None} ELSE inner.headers.set]

Refused(e) == [kind |-> "refused", error |-> e]

\* CorsMiddleware::call.
cors_call(r) ==
    /\ phase = "ready" /\ out = CorsNothing /\ cors_req' = r
    /\ IF inner.preflight /\ r.method = "OPTIONS"
       THEN /\ out' = IF Preflight(r) = "ok" THEN Allowed(r) ELSE Refused(Preflight(r))
            \* `[1..]` of the joined methods.
            /\ phase' = IF Preflight(r) = "ok" /\ inner.methods = {} THEN "panic" ELSE "ready"
       ELSE IF r.origin # None /\ validate_origin(r) # "ok"
       THEN out' = Refused(validate_origin(r)) /\ UNCHANGED phase
       ELSE phase' = "called" /\ UNCHANGED out
    /\ UNCHANGED builder

\* HeaderMap::get gives the first value; insert replaces all of them.
VaryWithOrigin(values) == IF values = <<>> THEN << <<"Origin">> >> ELSE << Append(values[1], "Origin") >>

\* The service answers.  An error passes without the headers.
respond(a) ==
    /\ phase = "called" /\ phase' = "ready"
    /\ out' = IF ~a.ok THEN [kind |-> "error"]
              ELSE IF cors_req.origin = None THEN [kind |-> "plain", vary |-> a.vary]
              ELSE [kind |-> "marked", acao |-> access_control_allow_origin(cors_req), expose |-> inner.expose,
                    creds |-> inner.supports_credentials, had |-> a.vary,
                    vary |-> IF inner.vary THEN VaryWithOrigin(a.vary) ELSE a.vary]
    /\ UNCHANGED <<builder, cors_req>>

\* The answer leaves; the next request may come.
sent ==
    /\ phase = "ready" /\ out # CorsNothing /\ out' = CorsNothing /\ cors_req' = CorsNothing
    /\ UNCHANGED <<builder, phase>>

CorsNext ==
    \/ \E o \in Origins : allowed_origin(o)
    \/ \E l \in MethodLists : allowed_methods(l)
    \/ \E l \in HeaderLists : allowed_headers(l) \/ expose_headers(l)
    \/ \E f \in Flags : flag(f)
    \/ finish
    \/ \E r \in Requests : cors_call(r)
    \/ \E a \in Answers : respond(a)
    \/ sent

CorsSpec == CorsInit /\ [][CorsNext]_corsVars

-----------------------------------------------------------------------------
Given(name) == UNION {ToSet(asked[i].arg) : i \in {j \in DOMAIN asked : asked[j].name = name}}
Called(name) == \E i \in DOMAIN asked : asked[i].name = name

\* In whatever order the builder was called, the policy that serves requests is the one
\* asked for, and nothing is served when any argument did not parse.
PolicyAsAsked == phase \in {"ready", "called"} =>
    /\ "bad" \notin Given("origin") \cup Given("methods") \cup Given("headers") \cup Given("expose")
    /\ inner.origins.all <=> ~Called("origin")
    /\ inner.origins.set = Given("origin") /\ inner.headers.set = Given("headers")
    /\ inner.methods = IF Called("methods") THEN Given("methods") ELSE ToSet(DefaultMethods)
    /\ inner.supports_credentials = Called("credentials") /\ inner.vary = ~Called("no_vary")

\* An answer names at most the one origin that asked, and that origin is an allowed one.
OneOrigin == out.kind \in {"preflight", "marked"} =>
    /\ out.acao \subseteq {cors_req.origin, "*"} /\ Cardinality(out.acao) <= 1
    /\ Called("origin") => out.acao \subseteq Given("origin")

\* Credentials are never allowed together with the wildcard.
NoWildcardCredentials == out.kind \in {"preflight", "marked"} => ~(out.creds /\ "*" \in out.acao)

\* A request of an origin that is not allowed does not reach the service, and a preflight
\* is granted only for an allowed method and allowed headers.
OnlyAllowedServed ==
    /\ phase = "called" /\ Called("origin") /\ cors_req.origin # None => cors_req.origin \in Given("origin")
    /\ out.kind = "preflight" => /\ cors_req.reqm \in out.methods
                                 /\ inner.headers.all \/ ToSet(cors_req.reqh) \ {None} \subseteq out.headers

\* The caches are told about Origin, and what the service told them is kept.
VaryKept == out.kind = "marked" =>
    /\ \A i \in DOMAIN out.had : \E j \in DOMAIN out.vary : ToSet(out.had[i]) \subseteq ToSet(out.vary[j])
    /\ ~Called("no_vary") => \E j \in DOMAIN out.vary : "Origin" \in ToSet(out.vary[j])

\* A policy that was built answers every request.
NeverPanicsServing == phase = "panic" => cors_req = CorsNothing

CorsSound == PolicyAsAsked /\ OneOrigin /\ NoWildcardCredentials /\ OnlyAllowedServed /\ VaryKept
             /\ NeverPanicsServing
=============================================================================
