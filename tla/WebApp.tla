------------------------------- MODULE WebApp --------------------------------
(* Routing and the application: patterns, the router, percent decoding, the *)
(* application's services and how they are started.                         *)
EXTENDS Naturals, Sequences, FiniteSets, TLC, SequencesExt, FiniteSetsExt

(* The patterns of resources and what they match (router/resource.rs), the     *)
(* matched path and its parameters (router/path.rs), and the deserializer of   *)
(* parameters (router/de.rs).                                                  *)
(* A text is a sequence of characters; a pattern a sequence of tokens, each a  *)
(* character [c] or a parameter [var, chars, min]: its name, the class of      *)
(* characters its expression takes and how many at least, taken greedily.      *)

CONSTANTS
    U16       \* 2^16: the width of the offsets into a path

SLASH == "/"
STAR == "*"
IsVar(t) == "var" \in DOMAIN t
Chars(tokens) == [i \in DOMAIN tokens |-> tokens[i].c]
HasVars(pattern) == \E i \in DOMAIN pattern : IsVar(pattern[i])

insert_slash(s) == IF s # <<>> /\ s[1].c # SLASH THEN <<[c |-> SLASH]>> \o s ELSE s

\* parse_param: a parameter followed by nothing but a star takes the rest of the
\* path, slashes included.
parse_param(pattern, i, all) ==
    IF i + 1 = Len(pattern) /\ ~IsVar(pattern[i + 1]) /\ pattern[i + 1].c = STAR
    THEN [pattern[i] EXCEPT !.chars = all, !.min = 0] ELSE pattern[i]
LastVar(pattern) == Max({i \in DOMAIN pattern : IsVar(pattern[i])})
IsTail(pattern) == LET i == LastVar(pattern)
                   IN i + 1 = Len(pattern) /\ pattern[i + 1].c = STAR

\* parse: [re, elements, dynamic, len].  An expression is [front, back, els]: is
\* it bound to the start and to the end of the text, and its tokens.
parse(pattern, for_prefix, all) ==
    IF ~HasVars(pattern)
    THEN IF pattern # <<>> /\ Last(pattern).c = STAR
         THEN [re |-> [front |-> TRUE, back |-> FALSE,
                       els |-> Front(pattern) \o <<[var |-> "", chars |-> all, min |-> 0]>>],
               elements |-> Front(pattern), dynamic |-> TRUE, len |-> 0]
         ELSE [re |-> [front |-> FALSE, back |-> FALSE, els |-> pattern],
               elements |-> pattern, dynamic |-> FALSE, len |-> Len(pattern)]
    ELSE LET tail == IsTail(pattern)
             kept == IF tail THEN Front(pattern) ELSE pattern
             els == [i \in DOMAIN kept |-> IF IsVar(kept[i]) THEN parse_param(pattern, i, all) ELSE kept[i]]
         IN [re |-> [front |-> TRUE, back |-> ~(for_prefix \/ tail), els |-> els],
             elements |-> els, dynamic |-> TRUE, len |-> Len(kept) - LastVar(kept)]

\* with_prefix and new: the kinds of patterns.
with_prefix(pattern, for_prefix, all) ==
    LET p == parse(pattern, for_prefix, all)
    IN [tp |-> IF p.dynamic THEN "Dynamic" ELSE IF for_prefix THEN "Prefix" ELSE "Static",
        text |-> IF p.dynamic THEN <<>> ELSE Chars(pattern),
        alts |-> <<p>>, elements |-> p.elements]
new_set(patterns, all) ==
    [tp |-> "DynamicSet", text |-> <<>>, alts |-> [i \in DOMAIN patterns |-> parse(patterns[i], FALSE, all)],
     elements |-> <<>>]

\* Regex::captures: the leftmost match, each parameter as long as the rest allows.
\* A match is the sequence of [name, start, end]; the result holds it, or nothing.
RECURSIVE CapturesFrom(_, _, _, _)
CapturesFrom(re, i, s, pos) ==
    IF i > Len(re.els) THEN IF re.back /\ pos # Len(s) THEN {} ELSE {<<>>}
    ELSE IF ~IsVar(re.els[i])
         THEN IF pos < Len(s) /\ s[pos + 1] = re.els[i].c THEN CapturesFrom(re, i + 1, s, pos + 1) ELSE {}
         ELSE LET fits == {k \in re.els[i].min .. Len(s) - pos :
                              /\ \A j \in 1 .. k : s[pos + j] \in re.els[i].chars
                              /\ CapturesFrom(re, i + 1, s, pos + k) # {}}
              IN IF fits = {} THEN {}
                 ELSE {<<[name |-> re.els[i].var, start |-> pos, end |-> pos + Max(fits)]>> \o rest :
                          rest \in CapturesFrom(re, i + 1, s, pos + Max(fits))}
captures(re, s) ==
    LET starts == {p \in 0 .. (IF re.front THEN 0 ELSE Len(s)) : CapturesFrom(re, 1, s, p) # {}}
    IN IF starts = {} THEN {} ELSE CapturesFrom(re, 1, s, Min(starts))

StartsWith(s, p) == Len(p) <= Len(s) /\ SubSeq(s, 1, Len(p)) = p
EndsWithSlash(s) == s # <<>> /\ Last(s) = SLASH
Suffix(s, n) == SubSeq(s, n + 1, Len(s))

\* The expressions of a definition that match, first one first.
Matching(def, s) == {i \in DOMAIN def.alts : captures(def.alts[i].re, s) # {}}

\* is_match
is_match(def, s) ==
    CASE def.tp = "Static" -> s = def.text
      [] def.tp = "Prefix" -> StartsWith(s, def.text)
      [] OTHER -> Matching(def, s) # {}

\* How much of s a prefix takes, as a set of at most one length: up to a slash.
PrefixLen(text, s) ==
    IF s = text THEN {Len(text)}
    ELSE IF StartsWith(s, text) /\ (EndsWithSlash(text) \/ StartsWith(Suffix(s, Len(text)), <<SLASH>>))
         THEN {IF EndsWithSlash(text) THEN Len(text) - 1 ELSE Len(text)}
         ELSE {}

\* is_prefix_match
LastEnd(groups) == IF groups = <<>> THEN 0 ELSE Last(groups).end
prefix_of(def, s, plen) ==
    CASE def.tp = "Static" -> IF s = def.text THEN {plen} ELSE {}
      [] def.tp = "Prefix" -> {Min({plen, n}) : n \in PrefixLen(def.text, s)}
      [] OTHER -> IF Matching(def, s) = {} THEN {}
                  ELSE LET alt == def.alts[Min(Matching(def, s))]
                       IN {LastEnd(m) + alt.len : m \in captures(alt.re, s)}
is_prefix_match(def, s) == prefix_of(def, IF s = <<>> THEN <<SLASH>> ELSE s, Len(s))

-----------------------------------------------------------------------------
(* Path.                                                                       *)
PathNew(text) == [path |-> text, skip |-> 0, segments |-> <<>>]
rest(p) == IF p.skip <= Len(p.path) THEN Suffix(p.path, p.skip) ELSE <<>>
skip(p, n) == [p EXCEPT !.skip = (@ + n) % U16]
add(p, name, start, end) ==
    [p EXCEPT !.segments = Append(@, [name |-> name, start |-> (p.skip + start) % U16, end |-> (p.skip + end) % U16])]
Text(p, seg) == SubSeq(p.path, seg.start + 1, seg.end)
get(p, key) ==
    LET at == {i \in DOMAIN p.segments : p.segments[i].name = key}
    IN IF at # {} THEN {Text(p, p.segments[Min(at)])}
       ELSE IF key = "tail" THEN {Suffix(p.path, p.skip)} ELSE {}

\* match_path: the path after the match, or nothing.  The unnamed group of a
\* pattern that ends in a star is not a parameter.
AddAll(p, groups) ==
    FoldLeft(LAMBDA q, g : IF g.name = "" THEN q ELSE add(q, g.name, g.start, g.end), p, groups)
Named(groups) == SelectSeq(groups, LAMBDA g : g.name # "")
MatchAlt(p, alt) ==
    {skip(AddAll(p, m), LastEnd(Named(m)) + alt.len) : m \in captures(alt.re, rest(p))}
match_path(def, p) ==
    CASE def.tp = "Static" -> IF rest(p) = def.text THEN {skip(p, Len(p.segments))} ELSE {}
      [] def.tp = "Prefix" -> {skip(p, Min({Len(rest(p)), n})) : n \in PrefixLen(def.text, rest(p))}
      [] OTHER -> IF Matching(def, rest(p)) = {} THEN {}
                  ELSE MatchAlt(p, def.alts[Min(Matching(def, rest(p)))])
\* match_path_checked: nothing is written before the guards are asked.
match_path_checked(def, p, check) == IF check THEN match_path(def, p) ELSE {}

\* resource_path: the pattern with its parameters filled in, or nothing.
RECURSIVE Filled(_, _, _)
Filled(elements, i, values) ==
    IF i > Len(elements) THEN {<<>>}
    ELSE IF IsVar(elements[i])
         THEN IF values = <<>> THEN {}
              ELSE {values[1] \o t : t \in Filled(elements, i + 1, Tail(values))}
         ELSE {<<elements[i].c>> \o t : t \in Filled(elements, i + 1, values)}
resource_path(def, values) ==
    CASE def.tp \in {"Static", "Prefix"} -> {def.text}
      [] def.tp = "Dynamic" -> Filled(def.elements, 1, values)
      [] OTHER -> {}

-----------------------------------------------------------------------------
(* The deserializer of parameters.  A shape is [t, fields, len]; a number is a  *)
(* text of digits.                                                              *)
Digits == {"1", "2"}
parses(text, tp) == tp = "String" \/ (text # <<>> /\ \A i \in DOMAIN text : text[i] \in Digits)
Err == [ok |-> FALSE, value |-> <<>>]
Ok(v) == [ok |-> TRUE, value |-> v]
Values(p) == [i \in DOMAIN p.segments |-> Text(p, p.segments[i])]

\* deserialize_map, with the visitor of a struct: a name it does not know is passed
\* over, one that comes twice is refused, and so is one that does not come.
deserialize_map(p, shape) ==
    LET known == SelectSeq(p.segments, LAMBDA s : s.name \in shape.fields)
        names == {known[i].name : i \in DOMAIN known}
    IN IF \/ Len(known) # Cardinality(names) \/ names # shape.fields
          \/ \E i \in DOMAIN known : ~parses(Text(p, known[i]), shape.tp)
       THEN Err
       ELSE Ok([n \in names |-> Text(p, CHOOSE s \in {known[i] : i \in DOMAIN known} : s.name = n)])
\* deserialize_tuple: too few parameters are refused; the tuple's visitor takes
\* its own number of them.
deserialize_tuple(p, shape) ==
    IF Len(p.segments) < shape.len THEN Err
    ELSE IF \E i \in 1 .. shape.len : ~parses(Values(p)[i], shape.tp) THEN Err
    ELSE Ok(SubSeq(Values(p), 1, shape.len))
deserialize_seq(p, shape) ==
    IF \E i \in DOMAIN p.segments : ~parses(Values(p)[i], shape.tp) THEN Err ELSE Ok(Values(p))
deserialize_single(p, shape) ==
    IF Len(p.segments) # 1 THEN Err
    ELSE IF parses(Values(p)[1], shape.tp) THEN Ok(<<Values(p)[1]>>) ELSE Err
deserialize_enum(p) == IF p.segments = <<>> THEN Err ELSE Ok(<<Values(p)[1]>>)
load(p, shape) ==
    CASE shape.t = "struct" -> deserialize_map(p, shape)
      [] shape.t = "tuple" -> deserialize_tuple(p, shape)
      [] shape.t = "seq" -> deserialize_seq(p, shape)
      [] shape.t = "single" -> deserialize_single(p, shape)
      [] shape.t = "enum" -> deserialize_enum(p)
      [] OTHER -> Err

-----------------------------------------------------------------------------
(* A web application: the registration of its scopes and resources             *)
(* (web/app_service.rs, scope.rs, resource.rs, service.rs, config.rs), the     *)
(* routing of a request through them with guards and data containers, the map  *)
(* of resources that generates URLs (web/rmap.rs), the extraction of a         *)
(* handler's arguments (web/extract.rs, handler.rs) and the pool of request    *)
(* objects (web/request.rs).                                                   *)

CONSTANTS
    Application,   \* [services, default, data, ext, wraps, external]
    Requests,      \* the heads that come in: [path, method, header, host, scheme]
    Names, Params, \* the names and the parameters URLs are generated for
    All,           \* the characters of paths
    PoolMax,       \* 128 in the code
    MaxCalls,      \* bound on the requests of a behaviour
    MaxBusy        \* bound on the polls of one extractor or handler that are pending

VARIABLES
    app,      \* the registered services and the application's data
    inners,   \* HttpRequestInner objects: [head, path, app_data, payload, exts, rc]
    pool,     \* HttpRequestPool: indices of inners
    calls,    \* the calls in the order they came
    alive,    \* the service has not been dropped
    url       \* the last URL generated: [name, values, path], or <<>>

vars == <<app, inners, pool, calls, alive, url>>

-----------------------------------------------------------------------------
(* Guards.                                                                     *)
HeaderGuard(g, head) == head.header = g.v
\* The scheme is compared only when the address of the request has one.
HostGuard(g, head) ==
    /\ head.host # "" /\ head.host = g.v
    /\ g.scheme # "" /\ head.scheme # "" => g.scheme = head.scheme
RECURSIVE check(_, _)
check(g, head) ==
    CASE g.g = "any" -> \E i \in DOMAIN g.of : check(g.of[i], head)
      [] g.g = "all" -> \A i \in DOMAIN g.of : check(g.of[i], head)
      [] g.g = "not" -> ~check(g.of[1], head)
      [] g.g = "method" -> head.method = g.v
      [] g.g = "header" -> HeaderGuard(g, head)
      [] g.g = "host" -> HostGuard(g, head)
check_all(guards, head) == \A i \in DOMAIN guards : check(guards[i], head)

-----------------------------------------------------------------------------
(* Registration.                                                               *)

\* Data::create does not replace what is there.
create(container, data) == container @@ data

NoData == <<>>
ContainerOf(s) == IF s.data = NoData THEN NoData ELSE <<create(s.data[1], Application.data)>>

\* Resource::register and WebServiceImpl::register
resource_def(s) ==
    LET rdef == [i \in DOMAIN s.rdef |-> insert_slash(s.rdef[i])]
    IN IF Len(rdef) = 1 THEN with_prefix(rdef[1], FALSE, All) ELSE new_set(rdef, All)
register_resource(s) ==
    [t |-> "resource", def |-> resource_def(s), name |-> s.name, guards |-> s.guards, data |-> ContainerOf(s),
     routes |-> s.routes, default |-> s.default, wraps |-> s.wraps, services |-> <<>>, external |-> <<>>,
     starts |-> s.rdef[1] # <<>>, given |-> s.data]
\* The resources that only name a URL (external_resource).
External(external) ==
    [i \in DOMAIN external |-> [name |-> external[i].name, def |-> with_prefix(external[i].rdef, FALSE, All), starts |-> FALSE]]
\* Scope::register: a scope without a default service has the application's.
RECURSIVE register(_)
register(s) ==
    IF s.t = "resource" THEN register_resource(s)
    ELSE [t |-> "scope", def |-> with_prefix(insert_slash(s.rdef[1]), TRUE, All), name |-> "",
          guards |-> s.guards, data |-> ContainerOf(s), routes |-> <<>>,
          default |-> IF s.default = "" THEN Application.default ELSE s.default, wraps |-> s.wraps,
          services |-> [i \in DOMAIN s.services |-> register(s.services[i])], external |-> External(s.external),
          starts |-> TRUE, given |-> s.data]
\* AppInit::new_service and the container AppInitResult fills.
new_service == [services |-> [i \in DOMAIN Application.services |-> register(Application.services[i])],
                external |-> External(Application.external), data |-> create(Application.ext, Application.data)]

-----------------------------------------------------------------------------
(* Routing.  The service chosen: [to, who, data, path, through], where through  *)
(* holds the middlewares passed and the data given on the way.                  *)
Found(to, who, data, p, through) == [to |-> to, who |-> who, data |-> data, path |-> p, through |-> through]
Through(through, s) == [wraps |-> through.wraps \o Reverse(s.wraps), given |-> Append(through.given, s.given)]
EnterData(s, data) == IF s.data = NoData THEN data ELSE s.data[1]

\* ResourceService::call: the first route whose guards agree.
call_resource(s, p, head, data, through) ==
    LET ok == {i \in DOMAIN s.routes : check_all(s.routes[i].guards, head)}
    IN IF ok # {} THEN Found("handler", s.routes[Min(ok)].to, EnterData(s, data), p, through)
       ELSE IF s.default # "" THEN Found("default", s.default, data, p, through)
       ELSE Found("405", "", data, p, through)
\* AppRouting::call and ScopeService::call: the first service whose pattern and
\* guards agree.  A scope's container is set once one of its services is found.
Candidates(services, p, head) ==
    {i \in DOMAIN services : match_path_checked(services[i].def, p, check_all(services[i].guards, head)) # {}}
RECURSIVE call_router(_, _, _, _, _, _)
call_service(s, q, own, head, through) ==
    IF s.t = "resource" THEN call_resource(s, q, head, own.in, through)
    ELSE call_router(s.services, [in |-> EnterData(s, own.in), out |-> own.in], s.default, q, head, through)
call_first(services, at, own, default, p, head, through) ==
    IF at # {} THEN LET s == services[Min(at)]
                    IN call_service(s, CHOOSE q \in match_path(s.def, p) : TRUE, own, head, Through(through, s))
    ELSE IF default # "" THEN Found("default", default, own.out, p, through)
    ELSE Found("404", "", own.out, p, through)
call_router(services, own, default, p, head, through) ==
    call_first(services, Candidates(services, p, head), own, default, p, head, through)
call_app(p, data, head) ==
    call_router(app.services, [in |-> data, out |-> data], Application.default, p, head,
                [wraps |-> Reverse(Application.wraps), given |-> <<>>])

-----------------------------------------------------------------------------
(* ResourceMap: the names of a level, and URLs.  A later resource of a name     *)
(* replaces an earlier one; the external ones of a scope come first.            *)
NamedIn(items, name) == {i \in DOMAIN items : items[i].name = name}
Entries(services, external, top) ==
    LET own == [i \in DOMAIN services |-> [name |-> services[i].name, def |-> services[i].def, starts |-> services[i].starts]]
    IN IF top THEN own \o external ELSE external \o own
fill_root(roots) == FoldLeft(LAMBDA a, b : a \o b, <<>>, roots)
\* pattern_for and fill_root: the elements of the URL, or none.
RECURSIVE pattern_for(_, _, _, _, _)
pattern_for(services, external, roots, name, top) ==
    LET entries == Entries(services, external, top)
        at == NamedIn(entries, name)
    IN IF at # {}
       THEN LET e == entries[Max(at)]
            IN <<[els |-> (IF e.starts THEN fill_root(roots) ELSE <<>>) \o e.def.elements, set |-> e.def.tp = "DynamicSet"]>>
       ELSE LET below == {i \in DOMAIN services :
                             services[i].t = "scope" /\ pattern_for(services[i].services, services[i].external,
                                  Append(roots, services[i].def.elements), name, FALSE) # <<>>}
            IN IF below = {} THEN <<>>
               ELSE pattern_for(services[Min(below)].services, services[Min(below)].external,
                                Append(roots, services[Min(below)].def.elements), name, FALSE)
url_for(name, values) ==
    UNION {Filled(f[1].els, 1, values) :
           f \in {found \in {pattern_for(app.services, app.external, <<>>, name, TRUE)} : found # <<>> /\ ~found[1].set}}

-----------------------------------------------------------------------------
(* Requests.                                                                   *)


\* HttpRequest::drop, for n references: the last one gives the object to the pool.
DropRefs(ins, pl, i, n) ==
    IF ins[i].rc > n THEN [inners |-> [ins EXCEPT ![i].rc = @ - n], pool |-> pl]
    ELSE IF Len(pl) < PoolMax
         THEN [inners |-> [ins EXCEPT ![i].rc = 1, ![i].exts = FALSE], pool |-> Append(pl, i)]
         ELSE [inners |-> [ins EXCEPT ![i].rc = 0], pool |-> pl]
SetRefs(d) == inners' = d.inners /\ pool' = d.pool

\* from_request of the extractors of a handler, in their order: the first that
\* wants the body takes the payload.
Start(handler, data) ==
    [i \in DOMAIN handler.exts |->
        LET x == handler.exts[i]
        IN CASE x.x \in {"data", "optdata"} ->
                    IF x.ty \in DOMAIN data THEN [st |-> "ok", v |-> data[x.ty]]
                    ELSE IF x.x = "data" THEN [st |-> "err", v |-> "500"] ELSE [st |-> "ok", v |-> "None"]
             [] x.x = "request" -> [st |-> "ok", v |-> "request"]
             [] OTHER -> [st |-> "wait",
                          v |-> IF \E j \in 1 .. i - 1 : handler.exts[j].x = "body" THEN "nothing" ELSE "payload"]]
Clones(handler) == Cardinality({i \in DOMAIN handler.exts : handler.exts[i].x = "request"})

\* AppInitService::call: an object of the pool is filled anew.
Fresh(head) == [head |-> head, path |-> PathNew(head.path), app_data |-> app.data, payload |-> TRUE, exts |-> FALSE, rc |-> 1]
Reused(i, head) == [inners[i] EXCEPT !.path = [PathNew(head.path) EXCEPT !.skip = 0, !.segments = <<>>],
                                     !.head = head, !.payload = TRUE, !.app_data = app.data, !.exts = FALSE]
Routed(inner, to, handled) ==
    [inner EXCEPT !.path = to.path, !.app_data = to.data, !.payload = ~handled,
                  !.rc = IF handled THEN 1 + Clones(to.who) ELSE 1]
Called(head, i, to, alone, handled) ==
    [head |-> head, inner |-> i, to |-> to, alone |-> alone, busy |-> 0, kept |-> 0,
     items |-> IF handled THEN Start(to.who, to.data) ELSE <<>>,
     st |-> IF handled THEN "extract" ELSE "response",
     status |-> IF handled THEN "" ELSE IF to.to = "default" THEN to.who ELSE to.to]
CallWith(head, i, inner, to, alone) ==
    /\ inners' = IF i \in DOMAIN inners THEN [inners EXCEPT ![i] = Routed(inner, to, to.to = "handler")]
                 ELSE Append(inners, Routed(inner, to, to.to = "handler"))
    /\ pool' = IF i \in DOMAIN inners THEN Front(pool) ELSE pool
    /\ calls' = Append(calls, Called(head, i, to, alone, to.to = "handler"))
    /\ UNCHANGED <<app, alive, url>>
CallOn(head, i, inner) ==
    \E to \in {call_app(inner.path, inner.app_data, head)}, alone \in {call_app(PathNew(head.path), app.data, head)} :
        CallWith(head, i, inner, to, alone)
Call(head) ==
    /\ alive /\ Len(calls) < MaxCalls
    /\ \E taken \in {IF pool # <<>> THEN <<Last(pool), Reused(Last(pool), head)>> ELSE <<Len(inners) + 1, Fresh(head)>>} :
           CallOn(head, taken[1], taken[2])

\* ExtractResponse::poll: each extractor that has no value is polled once; the
\* first error ends it, all values call the handler.
Errors(items, outcome) ==
    {i \in DOMAIN items : items[i].st = "err" \/ (i \in DOMAIN outcome /\ outcome[i] = "err")}
PollItems(items, outcome, first) ==
    [i \in DOMAIN items |-> IF i \in DOMAIN outcome /\ i <= first THEN [items[i] EXCEPT !.st = outcome[i]] ELSE items[i]]
\* RouteServiceWrapper::call: an error becomes the response it stands for.
error_response(item) == IF item.st = "err" THEN item.v ELSE "400"
PollExtract(c) ==
    /\ calls[c].st = "extract"
    /\ LET call == calls[c]
           waits == {i \in DOMAIN call.items : call.items[i].st = "wait"}
       IN \E outcome \in [waits -> {"wait", "ok", "err"}] :
              /\ (\E i \in waits : outcome[i] = "wait") => call.busy < MaxBusy
              /\ LET errs == Errors(call.items, outcome)
                     first == IF errs = {} THEN Len(call.items) + 1 ELSE Min(errs)
                     items == PollItems(call.items, outcome, first)
                 IN IF errs # {}
                    THEN \* the error's own reference stays, the future's and the items' go
                         /\ SetRefs(DropRefs([inners EXCEPT ![call.inner].rc = @ + 1], pool, call.inner, 1 + Clones(call.to.who)))
                         /\ calls' = [calls EXCEPT ![c].st = "response", ![c].items = items,
                                      ![c].status = error_response(call.items[first])]
                    ELSE /\ inners' = IF \A i \in DOMAIN items : items[i].st = "ok"
                                      THEN [inners EXCEPT ![call.inner].rc = @ + 1] ELSE inners
                         /\ calls' = [calls EXCEPT ![c].items = items,
                                      ![c].busy = IF \A i \in DOMAIN items : items[i].st = "ok" THEN 0 ELSE @ + 1,
                                      ![c].st = IF \A i \in DOMAIN items : items[i].st = "ok" THEN "handler" ELSE "extract"]
                         /\ UNCHANGED pool
    /\ UNCHANGED <<app, alive, url>>

\* HandlerServiceResponse::poll: the handler, then what it returned becomes a
\* response.  A handler may store something with the request, and may leave the
\* request with another task.
PollHandler(c) ==
    /\ calls[c].st \in {"handler", "respond"}
    /\ \/ /\ calls[c].busy < MaxBusy
          /\ \E st \in IF calls[c].st = "handler" THEN {"handler", "respond"} ELSE {"respond"} :
                 calls' = [calls EXCEPT ![c].st = st, ![c].busy = @ + 1]
          /\ inners' = [inners EXCEPT ![calls[c].inner].exts = TRUE]
          /\ UNCHANGED pool
       \/ \E status \in {"200", "500"} : \E kept \in 0 .. Clones(calls[c].to.who) :
              \* the response's reference goes when it is taken out of the ServiceResponse
              /\ SetRefs(DropRefs(inners, pool, calls[c].inner, Clones(calls[c].to.who) - kept + 1))
              /\ calls' = [calls EXCEPT ![c].st = "response", ![c].status = status, ![c].kept = kept]
    /\ UNCHANGED <<app, alive, url>>

\* The response is taken, and the call's future dropped.
Finish(c) ==
    /\ calls[c].st = "response"
    /\ SetRefs(DropRefs(inners, pool, calls[c].inner, 1))
    /\ calls' = [calls EXCEPT ![c].st = "done"]
    /\ UNCHANGED <<app, alive, url>>

\* The connection is gone: the call's future is dropped with all it holds.
Cancel(c) ==
    /\ calls[c].st \in {"extract", "handler", "respond"}
    /\ SetRefs(DropRefs(inners, pool, calls[c].inner,
                        1 + Clones(calls[c].to.who) + (IF calls[c].st = "extract" THEN 0 ELSE 1)))
    /\ calls' = [calls EXCEPT ![c].st = "cancelled"]
    /\ UNCHANGED <<app, alive, url>>

\* The task that kept a request drops it.
DropKept(c) ==
    /\ calls[c].kept > 0
    /\ SetRefs(DropRefs(inners, pool, calls[c].inner, 1))
    /\ calls' = [calls EXCEPT ![c].kept = @ - 1]
    /\ UNCHANGED <<app, alive, url>>

\* AppInitService::drop
DropService ==
    /\ alive /\ alive' = FALSE
    /\ pool' = <<>>
    /\ inners' = [i \in DOMAIN inners |-> IF \E j \in DOMAIN pool : pool[j] = i THEN [inners[i] EXCEPT !.rc = 0] ELSE inners[i]]
    /\ UNCHANGED <<app, calls, url>>

\* HttpRequest::url_for, by a handler.
UrlFor ==
    /\ url = <<>>
    /\ \E c \in DOMAIN calls : calls[c].st = "handler"
    /\ \E name \in Names, values \in Params :
           \E p \in url_for(name, values) : url' = <<[name |-> name, values |-> values, path |-> p]>>
    /\ UNCHANGED <<app, inners, pool, calls, alive>>

Init == app = new_service /\ inners = <<>> /\ pool = <<>> /\ calls = <<>> /\ alive = TRUE /\ url = <<>>

Next == \/ \E head \in Requests : Call(head)
        \/ \E c \in DOMAIN calls : PollExtract(c) \/ PollHandler(c) \/ Finish(c) \/ Cancel(c) \/ DropKept(c)
        \/ DropService \/ UrlFor
Spec == Init /\ [][Next]_vars

-----------------------------------------------------------------------------
(* Properties.                                                                 *)
Live(c) == calls[c].st \in {"extract", "handler", "respond", "response"}
Holders(i) == {c \in DOMAIN calls : calls[c].inner = i /\ (Live(c) \/ calls[c].kept > 0)}

\* The request objects: the pool holds each object once and alone, so that
\* Rc::get_mut succeeds when it is filled anew; an object serves one call at a
\* time, and one nobody holds is in the pool or freed.
PoolExclusive ==
    /\ IsInjective(pool) /\ Len(pool) <= PoolMax
    /\ \A j \in DOMAIN pool : inners[pool[j]].rc = 1 /\ Holders(pool[j]) = {}
    /\ \A i \in DOMAIN inners : /\ Cardinality({c \in Holders(i) : Live(c)}) <= 1
                                /\ Holders(i) # {} => inners[i].rc > 0 /\ ~\E j \in DOMAIN pool : pool[j] = i
                                /\ Holders(i) = {} /\ alive => inners[i].rc = IF \E j \in DOMAIN pool : pool[j] = i THEN 1 ELSE 0

\* A call sees its own request, whoever used the object before it: its head, the
\* parameters and the data of the route it was sent to.
SeesItsOwn ==
    \A c \in DOMAIN calls : Live(c) =>
        LET inner == inners[calls[c].inner]
            alone == calls[c].alone
        IN /\ inner.head = calls[c].head
           /\ inner.path = alone.path /\ inner.app_data = alone.data
           /\ calls[c].st = "extract" => ~inner.exts

\* The data a handler extracts is what is registered nearest to it: with its
\* resource, else with its scope, else with the application; and of several
\* extractors of the body the first gets it.
Nearest(given, ty) ==
    LET at == {i \in DOMAIN given : given[i] # NoData /\ ty \in DOMAIN given[i][1]}
    IN IF at # {} THEN given[Max(at)][1][ty]
       ELSE IF ty \in DOMAIN app.data THEN app.data[ty] ELSE "None"
NearestData ==
    \A c \in DOMAIN calls : calls[c].st \in {"handler", "respond"} =>
        \A i \in DOMAIN calls[c].items :
            LET x == calls[c].to.who.exts[i]
            IN /\ calls[c].items[i].st = "ok"
               /\ x.x \in {"data", "optdata"} => calls[c].items[i].v = Nearest(calls[c].to.through.given, x.ty)
               /\ x.x = "body" => (calls[c].items[i].v = "payload" <=> \A j \in 1 .. i - 1 : calls[c].to.who.exts[j].x # "body")

\* A URL generated for a named resource leads back to it, with the values it was
\* generated from as its parameters.
UrlLeadsBack ==
    url # <<>> /\ url[1].name \in {"res", "leaf"} =>
        \A h \in {h \in Requests : h.method = "GET" /\ h.header = "yes"} :
            \A to \in {call_app(PathNew(url[1].path), app.data, [h EXCEPT !.path = url[1].path])} :
                LET n == Len(to.path.segments)
                IN /\ to.to = "handler" /\ to.who.name = url[1].name
                   /\ n <= Len(url[1].values)
                   /\ \A i \in 1 .. n : Text(to.path, to.path.segments[i]) = url[1].values[i]

WebAppSound == PoolExclusive /\ SeesItsOwn /\ NearestData /\ UrlLeadsBack

-----------------------------------------------------------------------------
(* A request passes the routers of nested scopes (router/router.rs), and its   *)
(* parameters are loaded into a type.                                          *)

CONSTANTS
    Cases,    \* [levels, path]: the routers a request goes through, and its path
    Shapes    \* the types the parameters are loaded into

VARIABLES
    levels,      \* the routers of the scopes not yet entered
    path,        \* Path: [path, skip, segments]
    trail,       \* the matches so far: [item, from, to, names]
    routing,     \* "on", "found" or "none"
    loaded       \* what loading the parameters gave

routerVars == <<levels, path, trail, routing, loaded>>

\* Router::recognize and recognize_mut_checked: the first that matches and whose
\* guards agree.  An item is [def, check].
Accepts(item, p) == match_path_checked(item.def, p, item.check)
recognize(router, p) == {i \in DOMAIN router : Accepts(router[i], p) # {}}

RouterInit == /\ \E c \in Cases : levels = c.levels /\ path = PathNew(c.path)
              /\ trail = <<>> /\ routing = "on" /\ loaded = <<>>

Recognize ==
    /\ routing = "on" /\ levels # <<>>
    /\ IF recognize(Head(levels), path) = {}
       THEN routing' = "none" /\ UNCHANGED <<levels, path, trail>>
       ELSE LET item == Head(levels)[Min(recognize(Head(levels), path))]
            IN \E p \in Accepts(item, path) :
                   /\ path' = p
                   /\ trail' = Append(trail, [def |-> item.def, from |-> path, to |-> p])
                   /\ levels' = Tail(levels)
                   /\ routing' = IF Len(levels) = 1 THEN "found" ELSE "on"
    /\ UNCHANGED loaded

Load == /\ routing = "found" /\ loaded = <<>>
        /\ \E shape \in Shapes : loaded' = <<[shape |-> shape, res |-> load(path, shape)]>>
        /\ UNCHANGED <<levels, path, trail, routing>>

Done == /\ routing = "none" \/ loaded # <<>>
        /\ UNCHANGED routerVars

RouterNext == Recognize \/ Load \/ Done
RouterSpec == RouterInit /\ [][RouterNext]_routerVars

-----------------------------------------------------------------------------
(* Properties.                                                                 *)

\* What a pattern says it matches, without reference to how it is matched: some
\* choice of values fills it to a text that is s, or that s begins with.
RECURSIVE Texts(_, _)
Texts(els, s) ==
    IF els = <<>> THEN {<<>>}
    ELSE LET heads == IF IsVar(els[1])
                      THEN {<<>>} \cup {SubSeq(s, a, b) : a \in 1 .. Len(s), b \in 1 .. Len(s)}
                      ELSE {<<els[1].c>>}
             fits == {h \in heads : IsVar(els[1]) => /\ Len(h) >= els[1].min
                                                     /\ \A i \in DOMAIN h : h[i] \in els[1].chars}
         IN {h \o t : h \in fits, t \in Texts(Tail(els), s)}
Says(def, s) ==
    CASE def.tp = "Static" -> s = def.text
      [] def.tp = "Prefix" -> \/ s = def.text \/ StartsWith(s, Append(def.text, SLASH))
                              \/ EndsWithSlash(def.text) /\ StartsWith(s, def.text)
      [] OTHER -> \E i \in DOMAIN def.alts : \E t \in Texts(def.alts[i].re.els, s) :
                      IF def.alts[i].re.back THEN t = s ELSE StartsWith(s, t)

\* A router enters the first of its resources that the path, as far as it is not
\* consumed, is described by and whose guards agree, and none when there is none.
FirstMatchWins ==
    routing = "on" /\ levels # <<>> =>
        LET described == {i \in DOMAIN Head(levels) : Head(levels)[i].check /\ Says(Head(levels)[i].def, rest(path))}
            found == recognize(Head(levels), path)
        IN IF described = {} THEN found = {} ELSE found # {} /\ Min(found) = Min(described)

\* The text a dynamic pattern consumes is the pattern with the parameters it
\* found filled in, so that the scopes below see the rest and url_for rebuilds
\* the path; a prefix consumes itself and leaves nothing or a path of its own.
New(t) == SubSeq(t.to.segments, Len(t.from.segments) + 1, Len(t.to.segments))
Consumed(t) == SubSeq(t.from.path, t.from.skip + 1, t.to.skip)
ConsumesItsText ==
    \A i \in DOMAIN trail :
        LET t == trail[i]
            values == [j \in DOMAIN New(t) |-> Text(t.to, New(t)[j])]
        IN CASE t.def.tp = "Dynamic" /\ New(t) # <<>> -> resource_path(t.def, values) = {Consumed(t)}
             [] t.def.tp = "Prefix" ->
                    /\ Consumed(t) = t.def.text \/ Append(Consumed(t), SLASH) = t.def.text
                    /\ rest(t.to) = <<>> \/ rest(t.to)[1] = SLASH
             [] OTHER -> TRUE

\* The parameters found by the outer scopes keep their texts when inner routers
\* add theirs, and offsets stay inside the path.
ParametersStay ==
    \A i \in DOMAIN trail : \A j \in DOMAIN trail[i].to.segments :
        /\ path.segments[j] = trail[i].to.segments[j]
        /\ path.segments[j].start <= path.segments[j].end /\ path.segments[j].end <= Len(path.path)

\* is_match and is_prefix_match, which the resource map uses, say yes to what
\* match_path takes, and the same length of it.
TestsAgree ==
    \A i \in DOMAIN trail :
        LET t == trail[i]
        IN /\ is_match(t.def, rest(t.from))
           /\ rest(t.from) # <<>> /\ (t.def.tp = "Prefix" \/ (t.def.tp # "Static" /\ New(t) # <<>>)) =>
                  is_prefix_match(t.def, rest(t.from)) = {t.to.skip - t.from.skip}

\* Parameters loaded into a struct are those get finds by name; a tuple takes the
\* first ones in the order of the path.
LoadsWhatGetFinds ==
    loaded # <<>> /\ loaded[1].res.ok =>
        LET shape == loaded[1].shape
            v == loaded[1].res.value
        IN CASE shape.t = "struct" -> \A n \in shape.fields : get(path, n) = {v[n]}
             [] OTHER -> \A i \in DOMAIN v : v[i] = Text(path, path.segments[i])

RouterSound == FirstMatchWins /\ ConsumesItsText /\ ParametersStay /\ TestsAgree /\ LoadsWhatGetFinds

-----------------------------------------------------------------------------
(* The decoding of percent escapes in the path of a request before it is routed *)
(* (router/url.rs).  A byte is a number.                                        *)

CONSTANTS
    Alphabet,    \* the bytes paths are made of
    MaxLen       \* bound on the length of a path

VARIABLES
    val,         \* the path as it was sent
    idx, has_pct, pct,
    cloned,      \* <<>> or <<the output>>
    protected_table, safe_table

quoterVars == <<val, idx, has_pct, pct, cloned, protected_table, safe_table>>

PERCENT == 37
QuoterSLASH == 47
ALPHANUM == (48 .. 57) \cup (65 .. 90) \cup (97 .. 122)
ALLOWED == ALPHANUM \cup {45, 46, 95, 126, 33, 36, 39, 40, 41, 42, 44, 10, 32}
QS == {43, 38, 61, 59, 98}

from_hex(v) ==
    CASE v \in 48 .. 57 -> v - 48
      [] v \in 65 .. 70 -> v - 55
      [] v \in 98 .. 102 -> v - 87
      [] OTHER -> 16
restore_ch(d1, d2) == IF from_hex(d1) = 16 \/ from_hex(d2) = 16 THEN 256 ELSE from_hex(d1) * 16 + from_hex(d2)

\* What an escape becomes: itself when it hides a protected character or is none.
Restored(p) ==
    LET ch == restore_ch(p[2], p[3])
    IN IF ch = 256 \/ ch \in protected_table THEN p ELSE <<ch>>

QuoterNew(safe, protected) ==
          /\ safe_table = ALLOWED \cup QS \cup safe \cup protected
          /\ protected_table = protected

QuoterInit == /\ val \in UNION {[1 .. n -> Alphabet] : n \in 0 .. MaxLen}
              /\ idx = 1 /\ has_pct = 0 /\ pct = <<PERCENT, 0, 0>> /\ cloned = <<>>
              /\ QuoterNew({64, 58}, {QuoterSLASH, 43})

\* One turn of the loop of requote.
Requote ==
    /\ idx <= Len(val)
    /\ LET ch == val[idx]
           filled == [pct EXCEPT ![has_pct + 1] = ch]
       IN IF has_pct # 0
          THEN /\ pct' = filled
               /\ has_pct' = (has_pct + 1) % 3
               /\ cloned' = IF has_pct = 2 THEN <<cloned[1] \o Restored(filled)>> ELSE cloned
          ELSE /\ has_pct' = IF ch = PERCENT THEN 1 ELSE 0
               /\ cloned' = IF ch = PERCENT
                            THEN IF cloned = <<>> THEN <<SubSeq(val, 1, idx - 1)>> ELSE cloned
                            ELSE IF cloned = <<>> THEN cloned ELSE <<Append(cloned[1], ch)>>
               /\ UNCHANGED pct
    /\ idx' = idx + 1
    /\ UNCHANGED <<val, protected_table, safe_table>>

\* Url::path: the decoded path if there is one.
Path == IF cloned = <<>> THEN val ELSE cloned[1]

QuoterDone == idx > Len(val) /\ UNCHANGED quoterVars

QuoterNext == Requote \/ QuoterDone
QuoterSpec == QuoterInit /\ [][QuoterNext]_quoterVars

-----------------------------------------------------------------------------
Count(s, ch) == Cardinality({i \in DOMAIN s : s[i] = ch})

\* Routing sees the segments that were sent: decoding neither makes a slash out
\* of an escape nor loses one outside of an escape.
Escaped(i) == \E j \in {i - 1, i - 2} : j >= 1 /\ val[j] = PERCENT
SegmentsStay ==
    idx > Len(val) => /\ Count(Path, QuoterSLASH) <= Count(val, QuoterSLASH)
                      /\ Count(Path, QuoterSLASH) >= Cardinality({i \in DOMAIN val : val[i] = QuoterSLASH /\ ~Escaped(i)})

\* A path without an escape is left as it is, and decoding works left to right:
\* what has been read so far is all the output depends on.
Decoded(s) ==
    LET RECURSIVE From(_)
        From(i) == IF i > Len(s) THEN <<>>
                   ELSE IF s[i] # PERCENT THEN <<s[i]>> \o From(i + 1)
                   ELSE IF i + 2 > Len(s) THEN <<>>
                   ELSE LET hex == [j \in 1 .. 2 |-> from_hex(s[i + j])]
                            ch == hex[1] * 16 + hex[2]
                        IN (IF hex[1] = 16 \/ hex[2] = 16 \/ ch \in {QuoterSLASH, 43} THEN SubSeq(s, i, i + 2) ELSE <<ch>>)
                           \o From(i + 3)
    IN From(1)
DecodesOnce == idx > Len(val) => Path = Decoded(val)

QuoterSound == SegmentsStay /\ DecodesOnce

-----------------------------------------------------------------------------
(* The construction of an application's services: the futures that build its    *)
(* routers (AppRoutingFactoryResponse, ScopeFactoryResponse,                    *)
(* CreateResourceService, CreateRouteService) and the one that joins them with  *)
(* the application's data (AppInitResult; all in web/).                         *)

CONSTANTS
    Tree,       \* the endpoint's factory: [id, leaf, guards, default, kids]
    Leaves,     \* the ids of the factories at its ends
    Factories,  \* the data factories: a sequence of [ty, v]
    Given,      \* the data given: app_data and data, type to value
    MaxPolls    \* bound on the polls of the construction

VARIABLES
    fut,         \* the endpoint's future, a tree
    endpoint,    \* is it done
    data_factories_fut, data_factories,   \* not yet made, and made, in that order
    polls, outcome,   \* "pending", "ready", "error" or "panic"
    data,        \* the container at the end
    early        \* a default service was made before one of its siblings

startupVars == <<fut, endpoint, data_factories_fut, data_factories, polls, outcome, data, early>>

\* new_service of the factories: every part starts as a future, with the guards it
\* was registered with; the default service has one of its own.
Fut(route, guards, leaf, default, kids) ==
    [path |-> route, guards |-> guards, leaf |-> leaf, default |-> default, kids |-> kids, made |-> FALSE]
RECURSIVE startup_new_service(_)
startup_new_service(f) ==
    Fut(f.id, f.guards, f.leaf, IF f.default = 0 THEN <<>> ELSE <<Fut(f.default, {}, TRUE, <<>>, <<>>)>>,
        [i \in DOMAIN f.kids |-> startup_new_service(f.kids[i])])

\* A future that is polled after it was ready panics.
PollLeaf(f, o) == IF f.made THEN [f |-> f, res |-> "panic"]
                  ELSE [f |-> [f EXCEPT !.made = o[f.path] = "ready"], res |-> o[f.path]]

\* The items in turn; one that is made is passed over, an error ends the poll.
RECURSIVE PollNode(_, _), StartupPollItems(_, _, _, _), PollNext(_, _, _, _, _)
PollItem(f, o) == IF f.made THEN [f |-> f, res |-> "ready"] ELSE PollNode(f, o)
StartupPollItems(kids, i, res, o) ==
    IF i > Len(kids) \/ res \in {"error", "panic"} THEN [kids |-> kids, res |-> res]
    ELSE PollNext(kids, i, res, PollItem(kids[i], o), o)
PollNext(kids, i, res, r, o) ==
    StartupPollItems([kids EXCEPT ![i] = r.f], i + 1, IF r.res = "ready" THEN res ELSE r.res, o)
\* AppRoutingFactoryResponse::poll and those of the scopes and resources: the
\* default service first, whether it is made or not.
PollRest(f, d, r) == [f |-> [f EXCEPT !.default = d, !.kids = r.kids, !.made = r.res = "ready"], res |-> r.res]
PollParts(f, d, o) ==
    IF d # <<>> /\ d[1].res \in {"error", "panic"} THEN [f |-> f, res |-> d[1].res]
    ELSE PollRest(f, IF d = <<>> THEN <<>> ELSE <<d[1].f>>,
                  StartupPollItems(f.kids, 1, IF d = <<>> THEN "ready" ELSE d[1].res, o))
PollNode(f, o) ==
    IF f.leaf THEN PollLeaf(f, o)
    ELSE PollParts(f, IF f.default = <<>> THEN <<>> ELSE <<PollLeaf(f.default[1], o)>>, o)

RECURSIVE EarlyDefault(_)
EarlyDefault(f) ==
    \/ f.default # <<>> /\ f.default[1].made /\ ~f.made
    \/ \E i \in DOMAIN f.kids : EarlyDefault(f.kids[i])

StartupInit == /\ fut = startup_new_service(Tree) /\ endpoint = FALSE
               /\ data_factories_fut = [i \in DOMAIN Factories |-> i] /\ data_factories = <<>>
               /\ polls = 0 /\ outcome = "pending" /\ data = <<>> /\ early = FALSE

\* The data: what was given, then what the factories made, in the order they made
\* it; a type that is there is not replaced.
Container(made) == FoldLeft(LAMBDA c, i : c @@ (Factories[i].ty :> Factories[i].v), Given, made)

\* AppInitResult::poll
Settle(o, made, left, r) ==
    /\ fut' = r.f /\ endpoint' = (r.res = "ready")
    /\ data_factories_fut' = left /\ data_factories' = made
    /\ outcome' = CASE r.res \in {"error", "panic"} -> r.res
                    [] r.res = "ready" /\ left = <<>> -> "ready"
                    [] OTHER -> "pending"
    /\ data' = IF r.res = "ready" /\ left = <<>> THEN <<Container(made)>> ELSE <<>>
    /\ early' = (early \/ (r.res = "pending" /\ EarlyDefault(r.f)))
Poll ==
    /\ outcome = "pending" /\ polls < MaxPolls
    /\ polls' = polls + 1
    /\ \E o \in [Leaves -> {"pending", "ready", "error"}], d \in [DOMAIN Factories -> {"pending", "ready", "error"}] :
           LET made == data_factories \o SelectSeq(data_factories_fut, LAMBDA i : d[i] = "ready")
               left == SelectSeq(data_factories_fut, LAMBDA i : d[i] # "ready")
           IN IF \E i \in DOMAIN data_factories_fut : d[data_factories_fut[i]] = "error"
              THEN outcome' = "error" /\ UNCHANGED <<fut, endpoint, data_factories_fut, data_factories, data, early>>
              ELSE Settle(o, made, left, IF endpoint THEN [f |-> fut, res |-> "ready"] ELSE PollNode(fut, o))

StartupNext == Poll
StartupSpec == StartupInit /\ [][StartupNext]_startupVars

-----------------------------------------------------------------------------
RECURSIVE Faithful(_, _)
Faithful(f, t) == /\ f.path = t.id /\ f.guards = t.guards /\ Len(f.kids) = Len(t.kids)
                  /\ \A i \in DOMAIN t.kids : Faithful(f.kids[i], t.kids[i])
RECURSIVE AllMade(_)
AllMade(f) == f.made /\ \A i \in DOMAIN f.kids : AllMade(f.kids[i])

\* In whatever order its parts get ready, the application is served only when all
\* of them are, and each router has its services in the order and with the guards
\* they were registered with.
BuiltAsRegistered == /\ Faithful(fut, Tree)
                     /\ outcome = "ready" => AllMade(fut) /\ data_factories_fut = <<>>
\* Data that was given is not replaced by what a factory makes of the same type.
GivenDataStays == data # <<>> => /\ \A ty \in DOMAIN Given : data[1][ty] = Given[ty]
                                 /\ \A i \in DOMAIN Factories : Factories[i].ty \in DOMAIN data[1]
\* Only a default service that is made before its siblings is polled again.
PolledAgainOnlyDefault == outcome = "panic" => early

InitSound == BuiltAsRegistered /\ GivenDataStays /\ PolledAgainOnlyDefault
=============================================================================
