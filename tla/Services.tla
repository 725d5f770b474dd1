------------------------------ MODULE Services -------------------------------
(* Services and their combinators, and the HTTP service built from them.    *)
EXTENDS Naturals, Sequences, FiniteSets, SequencesExt

(* Service combinators (service/*.rs): a tree of combinators over leaf        *)
(* services is made by its factories, polled for readiness, and called.       *)
(*                                                                             *)
(* A tree is a record whose `op` names the combinator; the leaves are          *)
(* services of the program.  A value is the sequence of what has touched it,   *)
(* starting with the number of the call, so that a result shows the path it    *)
(* has taken.  Leaves answer as `init`, `ready` and `out` say; the environment *)
(* decides these once, in any order.                                           *)

CONSTANTS
    Trees,     \* the trees to look at
    Calls,     \* numbers of the calls
    Undecided  \* bound: polls of leaves that find them pending

VARIABLES
    tree, phase,
    init, ready, out,  \* what each leaf's factory, the leaf, and each of its calls answer
    fut,               \* the factory's future; then the service
    calls,             \* the futures of the calls, or their results
    armed, asleep,     \* leaves holding the waker of the task that polls readiness; it sleeps
    cfgs               \* configurations the leaves' factories got

vars == <<tree, phase, init, ready, out, fut, calls, armed, asleep, cfgs>>

RECURSIVE Leaves(_)
Leaves(t) == CASE t.op = "leaf" -> {t.id}
               [] t.op \in {"and_then", "then", "and_then_apply_fn", "either"} -> Leaves(t.a) \union Leaves(t.b)
               [] OTHER -> Leaves(t.a)

Pending == [is |-> "pending", v |-> <<>>]
Ok(v) == [is |-> "ok", v |-> v]
Err(e) == [is |-> "err", v |-> e]
Answer(how, v) == IF how = "ok" THEN Ok(v) ELSE IF how = "err" THEN Err(v) ELSE Pending
Two == {"and_then", "then", "and_then_apply_fn", "either"}
\* Either sends a request left or right: here, by the number of the call.
Side(t, v) == IF v[1] % 2 = 1 THEN t.a ELSE t.b

-----------------------------------------------------------------------------
(* The combinators, one after the other: what poll_ready makes of the answers  *)
(* of the services inside (r; the error e; the leaves polled), what call makes *)
(* of theirs, what new_service builds and how its future uses the parts.       *)

Map1(f, a, r) == [f |-> [f EXCEPT !.a = a.f], r |-> r]
Mapped(a, g, v) == IF a.r.is = g THEN [is |-> g, v |-> v] ELSE a.r

\* and_then: both are polled, so that both wake the task; an error of the first ends it.
AndThenReady(a, b) ==
    IF a.r = "err" THEN a
    ELSE [r |-> IF b.r = "err" THEN "err" ELSE IF "pending" \in {a.r, b.r} THEN "pending" ELSE "ok",
          e |-> b.e, polled |-> a.polled \union b.polled]
AndThenCall(fa, b) == [op |-> "and_then", st |-> "A", fut |-> fa, b |-> b]
AndThenNew(fa, fb) == [op |-> "and_then", a |-> fa, b |-> fb, sa |-> Pending, sb |-> Pending]
AndThenMade(f, a, b) ==
    [f |-> [f EXCEPT !.sa = a.r, !.sb = b.r, !.a = a.f, !.b = b.f],
     r |-> IF a.r.is = "err" THEN a.r ELSE IF b.r.is = "err" THEN b.r
           ELSE IF a.r.is = "ok" /\ b.r.is = "ok" THEN Ok([op |-> f.op, a |-> a.r.v, b |-> b.r.v])
           ELSE Pending]

\* then: the second service gets the answer of the first, good or bad.
ThenCall(fa, b) == [AndThenCall(fa, b) EXCEPT !.op = "then"]
ThenNew(fa, fb) == [AndThenNew(fa, fb) EXCEPT !.op = "then"]
ThenMade(f, a, b) == AndThenMade(f, a, b)

\* and_then_apply_fn: a function is given the answer and the second service.
ApplyFnCall(fa, b) == [AndThenCall(fa, b) EXCEPT !.op = "and_then_apply_fn"]
ApplyFnNew(fa, fb) == [AndThenNew(fa, fb) EXCEPT !.op = "and_then_apply_fn"]
ApplyFnMade(f, a, b) == AndThenMade(f, a, b)

\* What the second service is asked, by what the first answered.
SecondRequest(op, a) ==
    CASE op = "then" -> Append(a.v, a.is)
      [] op = "and_then_apply_fn" -> Append(a.v, "apply_fn")
      [] op = "and_then" -> a.v
\* An error of the first ends the call, except for then.
AndThenEnds(op, a) == a.is = "err" /\ op # "then"

\* either: the right factory is polled when the left one has answered.
EitherNew(fa, fb) == [AndThenNew(fa, fb) EXCEPT !.op = "either"]
EitherMade(f, a, b) == IF a.r.is = "ok" THEN AndThenMade(f, a, b) ELSE Map1(f, a, a.r)
EitherCall(s, v) == Side(s, v)

\* map, map_err: a function on the answers, of calls and (map_err) of readiness.
MapPoll(f, a) == [f |-> [f EXCEPT !.fut = a.f], r |-> Mapped(a, "ok", Append(a.r.v, "map"))]
MapErrReady(p) == [p EXCEPT !.e = Append(@, "map_err")]
MapErrPoll(f, a) == [f |-> [f EXCEPT !.fut = a.f], r |-> Mapped(a, "err", Append(a.r.v, "map_err"))]
MapInitErr(f, a) == Map1(f, a, Mapped(a, "err", Append(a.r.v, "map_init_err")))

\* apply_fn: the function is given the request and the service.
ApplyCall(req) == Append(req, "apply")
\* boxed, and the services behind a reference, a box or a cell: the service inside.
BoxedMade(f, a) == Map1(f, a, Mapped(a, "ok", [op |-> f.op, a |-> a.r.v]))
\* The factories of map, map_err and apply_fn wrap the service made inside.
MapMade(f, a) == BoxedMade(f, a)
MapErrMade(f, a) == BoxedMade(f, a)
ApplyMade(f, a) == BoxedMade(f, a)

\* map_config and unit_config: the configuration on its way to the factory inside.
MapConfig(cfg) == Append(cfg, "cfg")
UnitConfig == <<>>

\* transform: the service first, then the transform around it.
TransformNew(fa) == [op |-> "transform", a |-> fa]
TransformMade(f, a) == Map1(f, a, Mapped(a, "ok", [op |-> "transform", a |-> a.r.v]))

\* apply_cfg_factory: A, the service is made; B, it is waited for; C, the function
\* makes the service of it.
ApplyCfgNew(fa) == [op |-> "apply_cfg", st |-> "A", a |-> fa]
ApplyCfgReady(f, p) ==
    [f |-> f, r |-> Answer(p.r, IF p.r = "ok" THEN [op |-> "apply_cfg", a |-> f.srv] ELSE p.e)]

-----------------------------------------------------------------------------
(* A tree of them: the recursion that the nested types spell out. *)

RECURSIVE new_service(_, _)
new_service(t, cfg) ==
    CASE t.op = "leaf" -> [op |-> "leaf", id |-> t.id, cfg |-> cfg]
      [] t.op = "and_then" -> AndThenNew(new_service(t.a, cfg), new_service(t.b, cfg))
      [] t.op = "then" -> ThenNew(new_service(t.a, cfg), new_service(t.b, cfg))
      [] t.op = "and_then_apply_fn" -> ApplyFnNew(new_service(t.a, cfg), new_service(t.b, cfg))
      [] t.op = "either" -> EitherNew(new_service(t.a, cfg), new_service(t.b, cfg))
      [] t.op = "map_config" -> new_service(t.a, MapConfig(cfg))
      [] t.op = "unit_config" -> new_service(t.a, UnitConfig)
      [] t.op = "transform" -> TransformNew(new_service(t.a, cfg))
      [] t.op = "apply_cfg" -> ApplyCfgNew(new_service(t.a, cfg))
      [] OTHER -> [op |-> t.op, a |-> new_service(t.a, cfg)]

RECURSIVE ConfigsOf(_)
ConfigsOf(f) == CASE f.op = "leaf" -> {<<f.id, f.cfg>>}
                  [] f.op \in Two -> ConfigsOf(f.a) \union ConfigsOf(f.b)
                  [] OTHER -> ConfigsOf(f.a)

RECURSIVE poll_ready(_)
poll_ready(s) ==
    CASE s.op = "leaf" -> [r |-> ready[s.id], e |-> <<s.id>>, polled |-> {s.id}]
      [] s.op \in Two -> AndThenReady(poll_ready(s.a), poll_ready(s.b))
      [] s.op = "map_err" -> MapErrReady(poll_ready(s.a))
      [] OTHER -> poll_ready(s.a)

\* The future of a factory is polled: its answer (the service), and the future after it.
RECURSIVE poll_factory(_)
poll_factory(f) ==
    LET part(s, g) == IF s.is = "ok" THEN [r |-> s, f |-> g] ELSE poll_factory(g)
    IN CASE f.op = "leaf" ->
               [r |-> Answer(init[f.id], IF init[f.id] = "ok" THEN [op |-> "leaf", id |-> f.id] ELSE <<f.id>>),
                f |-> f]
         [] f.op = "either" -> EitherMade(f, part(f.sa, f.a), part(f.sb, f.b))
         [] f.op = "and_then" -> AndThenMade(f, part(f.sa, f.a), part(f.sb, f.b))
         [] f.op = "then" -> ThenMade(f, part(f.sa, f.a), part(f.sb, f.b))
         [] f.op = "and_then_apply_fn" -> ApplyFnMade(f, part(f.sa, f.a), part(f.sb, f.b))
         [] f.op = "map_init_err" -> MapInitErr(f, poll_factory(f.a))
         [] f.op = "transform" -> TransformMade(f, poll_factory(f.a))
         [] f.op = "apply_cfg" /\ f.st = "A" ->
               LET a == poll_factory(f.a)
               IN IF a.r.is = "ok" THEN ApplyCfgReady([f EXCEPT !.st = "B"] @@ [srv |-> a.r.v], poll_ready(a.r.v))
                  ELSE Map1(f, a, a.r)
         [] f.op = "apply_cfg" /\ f.st = "B" -> ApplyCfgReady(f, poll_ready(f.srv))
         [] f.op = "boxed" -> BoxedMade(f, poll_factory(f.a))
         [] f.op = "map" -> MapMade(f, poll_factory(f.a))
         [] f.op = "map_err" -> MapErrMade(f, poll_factory(f.a))
         [] f.op = "apply" -> ApplyMade(f, poll_factory(f.a))

RECURSIVE call(_, _)
call(s, req) ==
    CASE s.op = "leaf" -> [op |-> "leaf", id |-> s.id, req |-> req]
      [] s.op = "and_then" -> AndThenCall(call(s.a, req), s.b)
      [] s.op = "then" -> ThenCall(call(s.a, req), s.b)
      [] s.op = "and_then_apply_fn" -> ApplyFnCall(call(s.a, req), s.b)
      [] s.op = "either" -> call(EitherCall(s, req), req)
      [] s.op \in {"map", "map_err"} -> [op |-> s.op, fut |-> call(s.a, req)]
      [] s.op = "apply" -> call(s.a, ApplyCall(req))
      [] s.op \in {"transform", "apply_cfg"} -> call(s.a, Append(req, s.op))
      [] OTHER -> call(s.a, req)

\* The future of a call is polled.  In state B the first service's future is gone.
RECURSIVE poll_call(_)
poll_call(f) ==
    IF f.op = "leaf" THEN [r |-> Answer(out[<<f.id, f.req[1]>>], Append(f.req, f.id)), f |-> f]
    ELSE LET a == poll_call(f.fut)
         IN CASE f.op = "map" -> MapPoll(f, a)
              [] f.op = "map_err" -> MapErrPoll(f, a)
              [] f.op \in Two /\ (f.st = "B" \/ a.r.is = "pending" \/ AndThenEnds(f.op, a.r)) ->
                    [r |-> a.r, f |-> [f EXCEPT !.fut = a.f]]
              [] OTHER -> poll_call([op |-> f.op, st |-> "B", fut |-> call(f.b, SecondRequest(f.op, a.r))])

-----------------------------------------------------------------------------
Idle == [op |-> "idle"]

Init ==
    /\ tree \in Trees /\ phase = "making"
    /\ init = [l \in Leaves(tree) |-> "pending"]
    /\ ready = [l \in Leaves(tree) |-> "pending"]
    /\ out = [c \in Leaves(tree) \X Calls |-> "pending"]
    /\ fut = new_service(tree, <<>>) /\ calls = [c \in Calls |-> Idle]
    /\ armed = {} /\ asleep = FALSE
    /\ cfgs = ConfigsOf(new_service(tree, <<>>))

\* The environment: a factory, a service or a call of a leaf has its answer.
decide ==
    /\ \/ \E l \in DOMAIN init, a \in {"ok", "err"} :
             /\ phase = "making" /\ init[l] = "pending" /\ init' = [init EXCEPT ![l] = a]
             /\ UNCHANGED <<ready, out, armed, asleep>>
       \/ \E l \in DOMAIN ready, a \in {"ok", "err"} :
             /\ ready[l] = "pending" /\ ready' = [ready EXCEPT ![l] = a]
             /\ armed' = armed \ {l} /\ asleep' = (asleep /\ l \notin armed)
             /\ UNCHANGED <<init, out>>
       \/ \E c \in DOMAIN out, a \in {"ok", "err"} :
             /\ phase = "ready" /\ calls[c[2]].op \notin {"idle", "done"}
             /\ out[c] = "pending" /\ out' = [out EXCEPT ![c] = a]
             /\ UNCHANGED <<init, ready, armed, asleep>>
    /\ UNCHANGED <<tree, phase, fut, calls, cfgs>>

\* A leaf that was ready is busy again.
busy ==
    /\ phase = "ready"
    /\ Cardinality({l \in DOMAIN ready : ready[l] = "pending"}) < Undecided
    /\ \E l \in DOMAIN ready : ready[l] = "ok" /\ ready' = [ready EXCEPT ![l] = "pending"]
    /\ \E c \in Calls : calls[c].op = "idle"
    /\ UNCHANGED <<tree, phase, init, out, fut, calls, armed, asleep, cfgs>>

make ==
    /\ phase = "making"
    /\ LET p == poll_factory(fut)
       IN /\ phase' = IF p.r.is = "ok" THEN "ready" ELSE IF p.r.is = "err" THEN "failed" ELSE "making"
          /\ fut' = IF p.r.is = "pending" THEN p.f ELSE p.r.v
    /\ UNCHANGED <<tree, init, ready, out, calls, armed, asleep, cfgs>>

\* The task polls readiness and, when ready, makes its next call.
serve(c) ==
    /\ phase = "ready" /\ ~asleep /\ calls[c].op = "idle"
    /\ \A d \in Calls : d < c => calls[d].op # "idle"
    /\ LET p == poll_ready(fut)
       IN CASE p.r = "pending" -> /\ asleep' = TRUE
                                  /\ armed' = armed \union {l \in p.polled : ready[l] = "pending"}
                                  /\ UNCHANGED <<phase, calls, fut>>
            [] p.r = "err" -> /\ phase' = "broken" /\ fut' = p.e
                              /\ UNCHANGED <<asleep, armed, calls>>
            [] p.r = "ok" -> /\ calls' = [calls EXCEPT ![c] = call(fut, <<c>>)]
                             /\ UNCHANGED <<phase, asleep, armed, fut>>
    /\ UNCHANGED <<tree, init, ready, out, cfgs>>

poll_response(c) ==
    /\ calls[c].op \notin {"idle", "done"}
    /\ LET p == poll_call(calls[c])
       IN /\ p.r.is # "pending" \/ p.f # calls[c]
          /\ calls' = [calls EXCEPT ![c] = IF p.r.is = "pending" THEN p.f ELSE [op |-> "done", r |-> p.r]]
    /\ UNCHANGED <<tree, phase, init, ready, out, fut, armed, asleep, cfgs>>

Next == decide \/ busy \/ make \/ \E c \in Calls : serve(c) \/ poll_response(c)

Spec == Init /\ [][Next]_vars

-----------------------------------------------------------------------------
(* What the combinators promise: the reference. *)

RECURSIVE Denotes(_, _)
Denotes(t, v) ==
    CASE t.op = "leaf" -> Answer(out[<<t.id, v[1]>>], Append(v, t.id))
      [] t.op = "and_then" -> LET a == Denotes(t.a, v) IN IF a.is = "ok" THEN Denotes(t.b, a.v) ELSE a
      [] t.op = "and_then_apply_fn" ->
            LET a == Denotes(t.a, v) IN IF a.is = "ok" THEN Denotes(t.b, Append(a.v, "apply_fn")) ELSE a
      [] t.op = "then" -> LET a == Denotes(t.a, v) IN IF a.is = "pending" THEN a ELSE Denotes(t.b, Append(a.v, a.is))
      [] t.op = "either" -> Denotes(Side(t, v), v)
      [] t.op = "map" -> LET a == Denotes(t.a, v) IN IF a.is = "ok" THEN Ok(Append(a.v, "map")) ELSE a
      [] t.op = "map_err" -> LET a == Denotes(t.a, v) IN IF a.is = "err" THEN Err(Append(a.v, "map_err")) ELSE a
      [] t.op \in {"apply", "transform", "apply_cfg"} -> Denotes(t.a, Append(v, t.op))
      [] OTHER -> Denotes(t.a, v)

\* A call through the futures gives what the tree denotes, whatever the order in
\* which its leaves answer and its future is polled.
ResultsRight == \A c \in Calls : calls[c].op = "done" => calls[c].r = Denotes(tree, <<c>>)

\* A service is made only when every factory under it has made its part, and fails
\* with an error of one of them (or, for apply_cfg, of a service's readiness).
MadeWhole ==
    /\ phase = "ready" => \A l \in DOMAIN init : init[l] = "ok"
    /\ phase = "failed" => \E l \in DOMAIN init : fut[1] = l /\ (init[l] = "err" \/ ready[l] = "err")

RECURSIVE ConfigOf(_, _, _)
ConfigOf(t, l, cfg) ==
    CASE t.op = "leaf" -> cfg
      [] t.op \in Two -> IF l \in Leaves(t.a) THEN ConfigOf(t.a, l, cfg) ELSE ConfigOf(t.b, l, cfg)
      [] t.op = "map_config" -> ConfigOf(t.a, l, Append(cfg, "cfg"))
      [] t.op = "unit_config" -> ConfigOf(t.a, l, <<>>)
      [] OTHER -> ConfigOf(t.a, l, cfg)
ConfigsRight == cfgs = {<<l, ConfigOf(tree, l, <<>>)>> : l \in Leaves(tree)}

\* A task that sleeps on readiness will be woken by a leaf that is not ready yet:
\* poll_ready of a pair polls both, never only the first that is pending.
NoLostReadiness == asleep => \E l \in armed : ready[l] = "pending"


-----------------------------------------------------------------------------
(* http/builder.rs, http/service.rs, h1/service.rs and h2/service.rs: a        *)
(* service is configured, made from its factories, polled for readiness, and   *)
(* called with connections, each of which gets its dispatcher.                 *)

CONSTANTS
    Kind,         \* "h1", "h2" or "http": the service that is built
    Settings,     \* how the builder may be used: sequences of <<name, value>>
    Conns         \* the connections, [id |-> protocol]

VARIABLES
    todo, builder,          \* calls of the builder to come; its fields
    http_phase,                  \* "build", "making", "serving", "failed", "panicked"
    http_init,                   \* answers of the factories "expect", "upgrade", "srv"
    expect, upgrade, fut_ex, fut_upg,  \* the fields of the response future
    http_ready,                  \* readiness of the three services
    http_asleep, http_armed,
    conns,                  \* the state of each connection's future
    spoke                   \* protocol the peer speaks, by the TLS handshake

httpVars == <<todo, builder, http_phase, http_init, expect, upgrade, fut_ex, fut_upg, http_ready, http_asleep, http_armed, conns, spoke>>

Services == {"expect", "upgrade", "srv"}
HasUpgrade == Kind # "h2" /\ builder.upgrade # "none"
Used == IF Kind = "h2" THEN {"srv"} ELSE IF HasUpgrade THEN Services ELSE {"expect", "srv"}

\* HttpServiceBuilder::new
builder_new == [keep_alive |-> 5, client_timeout |-> 5000, client_disconnect |-> 0, secure |-> FALSE,
                expect |-> "default", upgrade |-> "none", on_connect |-> "none"]

HttpInit ==
    /\ todo \in Settings /\ builder = builder_new /\ http_phase = "build"
    /\ http_init = [s \in Services |-> "pending"] /\ http_ready = [s \in Services |-> "pending"]
    /\ expect = FALSE /\ upgrade = FALSE /\ fut_ex = FALSE /\ fut_upg = FALSE
    /\ http_asleep = FALSE /\ http_armed = {}
    /\ conns = [c \in DOMAIN Conns |-> "none"] /\ spoke = Conns

\* One call of the builder: expect and upgrade make a builder of another type, with
\* the other settings carried over.
configure ==
    /\ http_phase = "build" /\ todo # <<>>
    /\ builder' = [builder EXCEPT ![Head(todo)[1]] = Head(todo)[2]]
    /\ todo' = Tail(todo)
    /\ UNCHANGED <<http_phase, http_init, expect, upgrade, fut_ex, fut_upg, http_ready, http_asleep, http_armed, conns, spoke>>

\* finish, h1 or h2, and new_service.
finish ==
    /\ http_phase = "build" /\ todo = <<>>
    /\ http_phase' = "making" /\ fut_ex' = (Kind # "h2") /\ fut_upg' = HasUpgrade
    /\ UNCHANGED <<todo, builder, http_init, expect, upgrade, http_ready, http_asleep, http_armed, conns, spoke>>

\* HttpServiceResponse::poll, H1ServiceResponse::poll: expect, then upgrade, then the
\* service.  When upgrade is made it is fut_ex that is cleared: a poll that comes again
\* polls the finished future of upgrade.
poll_init ==
    /\ http_phase = "making"
    /\ LET ex == IF fut_ex THEN http_init["expect"] ELSE "ok"
           upg == IF ~fut_upg THEN "ok" ELSE IF upgrade THEN "panic" ELSE http_init["upgrade"]
           got_ex == ex = "ok"
           got_upg == got_ex /\ upg = "ok"
       IN /\ expect' = (expect \/ (fut_ex /\ got_ex))
          /\ upgrade' = (upgrade \/ (fut_upg /\ got_upg))
          /\ fut_ex' = (fut_ex /\ ~got_ex)
          /\ http_phase' = IF ex = "err" THEN "failed" ELSE IF ~got_ex THEN "making"
                           ELSE IF upg = "panic" THEN "panicked" ELSE IF upg = "err" THEN "failed"
                           ELSE IF ~got_upg THEN "making"
                           ELSE IF http_init["srv"] = "ok" THEN "serving"
                           ELSE IF http_init["srv"] = "err" THEN "failed" ELSE "making"
    /\ UNCHANGED <<todo, builder, http_init, fut_upg, http_ready, http_asleep, http_armed, conns, spoke>>

\* poll_ready of the handler: expect, the service and upgrade are all polled, unless
\* one fails.
http_poll_ready ==
    LET order == IF Kind = "h2" THEN <<"srv">> ELSE IF HasUpgrade THEN <<"expect", "srv", "upgrade">>
                 ELSE <<"expect", "srv">>
        bad == {i \in DOMAIN order : http_ready[order[i]] = "err"}
        polled == {order[i] : i \in {j \in DOMAIN order : \A b \in bad : j <= b}}
    IN [r |-> IF bad # {} THEN "err" ELSE IF \E s \in polled : http_ready[s] = "pending" THEN "pending" ELSE "ok",
        polled |-> polled]

\* The worker polls the handler and, when it is ready, calls it with a connection;
\* on_connect is called with the connection, before anything is read from it.
http_serve(c) ==
    /\ http_phase = "serving" /\ ~http_asleep /\ conns[c] = "none"
    /\ LET p == http_poll_ready
       IN CASE p.r = "pending" -> /\ http_asleep' = TRUE /\ http_armed' = {s \in p.polled : http_ready[s] = "pending"}
                                  /\ UNCHANGED <<http_phase, conns>>
            [] p.r = "err" -> http_phase' = "failed" /\ UNCHANGED <<http_asleep, http_armed, conns>>
            [] p.r = "ok" ->
                 /\ conns' = [conns EXCEPT ![c] =
                        IF Kind = "h2" \/ (Kind = "http" /\ spoke[c] = "h2") THEN "handshake" ELSE "h1"]
                 /\ UNCHANGED <<http_phase, http_asleep, http_armed>>
    /\ UNCHANGED <<todo, builder, http_init, expect, upgrade, fut_ex, fut_upg, http_ready, spoke>>

\* A handshake that succeeds becomes the HTTP/2 dispatcher, which is polled at once.
poll_handshake(c) ==
    /\ conns[c] = "handshake"
    /\ \E r \in {"h2", "error"} : conns' = [conns EXCEPT ![c] = r]
    /\ UNCHANGED <<todo, builder, http_phase, http_init, expect, upgrade, fut_ex, fut_upg, http_ready, http_asleep, http_armed, spoke>>

\* State::poll: the dispatcher of the connection ends.
poll_state(c) ==
    /\ conns[c] \in {"h1", "h2"}
    /\ \E r \in {"closed", "error"} : conns' = [conns EXCEPT ![c] = r]
    /\ UNCHANGED <<todo, builder, http_phase, http_init, expect, upgrade, fut_ex, fut_upg, http_ready, http_asleep, http_armed, spoke>>

\* The program's factories and services.
http_decide ==
    /\ \/ /\ http_phase = "making"
          /\ \E s \in Used, a \in {"ok", "err"} : http_init[s] = "pending" /\ http_init' = [http_init EXCEPT ![s] = a]
          /\ UNCHANGED <<http_ready, http_asleep, http_armed>>
       \/ /\ http_phase = "serving"
          /\ \E s \in Used, a \in {"ok", "err"} :
                /\ http_ready[s] = "pending" /\ http_ready' = [http_ready EXCEPT ![s] = a]
                /\ http_asleep' = (http_asleep /\ s \notin http_armed) /\ http_armed' = http_armed \ {s}
          /\ UNCHANGED http_init
       \/ /\ http_phase = "serving"
          /\ \E s \in Used : http_ready[s] = "ok" /\ http_ready' = [http_ready EXCEPT ![s] = "pending"]
          /\ UNCHANGED <<http_init, http_asleep, http_armed>>
    /\ UNCHANGED <<todo, builder, http_phase, expect, upgrade, fut_ex, fut_upg, conns, spoke>>

HttpNext == configure \/ finish \/ poll_init \/ http_decide
        \/ \E c \in DOMAIN Conns : http_serve(c) \/ poll_handshake(c) \/ poll_state(c)

HttpSpec == HttpInit /\ [][HttpNext]_httpVars

-----------------------------------------------------------------------------
\* The service serves only when all its parts are made, with the settings of the
\* builder's last calls, in whatever order they came.
HttpMadeWhole == http_phase = "serving" => \A s \in Used : http_init[s] = "ok"
SettingsKept == todo = <<>> =>
    \E s \in Settings : \A f \in DOMAIN builder :
        LET set == {i \in DOMAIN s : s[i][1] = f}
        IN builder[f] = IF set = {} THEN builder_new[f]
                        ELSE s[CHOOSE i \in set : \A j \in set : j <= i][2]

\* A worker asleep on the handler will be woken by a part that is not ready.
HttpNoLostReadiness == http_asleep => \E s \in http_armed : http_ready[s] = "pending"

\* A connection speaks what was negotiated for it.
ProtocolsRight == \A c \in DOMAIN Conns :
    /\ conns[c] = "h1" => Kind = "h1" \/ spoke[c] # "h2"
    /\ conns[c] \in {"handshake", "h2"} => Kind = "h2" \/ spoke[c] = "h2"

\* No future is polled again after it has finished.  It holds while the upgrade
\* service is not made before the service itself.
PolledOnce == http_phase # "panicked"

HttpServiceSound == HttpMadeWhole /\ SettingsKept /\ HttpNoLostReadiness /\ ProtocolsRight
=============================================================================
