------------------------------- MODULE JsonRpc -------------------------------
(* JSON-RPC: the raw server, the server over it, and the client.            *)
EXTENDS Naturals, Sequences, FiniteSets, SequencesExt, Functions

(* The raw JSON-RPC server (jrpc/raw/server/core.rs with its batches and      *)
(* batch modules) over the local transport (jrpc/transport/local.rs).         *)
(*                                                                             *)
(* The n-th request of the client is Inputs[n], a sequence of calls.  The      *)
(* transport and the batches count their ids up together, so that n names     *)
(* both the raw request and the batch made of it.  `fut` is the future the    *)
(* user of the server is polling: "user" when none is, otherwise the await at *)
(* which `next_event` stands.  The user may drop the future at any await.     *)
(*                                                                             *)
(* Data left out: methods and parameters.  A subscription is named by the     *)
(* call it answers, where the code draws a fresh random id.                   *)

CONSTANTS
    Inputs,      \* the requests the client sends, each a sequence of calls
    Capacity,    \* messages the channel to the client holds
    MaxPushes,   \* bound: notifications the user pushes on one subscription
    Drops        \* may the user drop a pending next_event?

VARIABLES
    arrived,     \* LocalTransportServer::next_request_id
    requests,    \* LocalTransportServer::requests
    gone,        \* has the client dropped its end?
    to_client,   \* the channel to the client
    batches,     \* BatchesState::batches: id -> batch
    subs,        \* RawServer::subscriptions: id -> [raw, pending]
    num,         \* RawServer::num_subscriptions
    fut,         \* where next_event stands
    got,         \* what the client has received, in order
    cut,         \* raw requests whose response went down with a dropped future
    pushed       \* notifications pushed, per subscription

rawvars == <<arrived, requests, gone, to_client, batches, subs, num, fut, got,
             cut, pushed>>

Raws == 1 .. Len(Inputs)
Called(call) == call \in {"method", "unknown", "subscribe", "unsubscribe"}
Kind(id) == Inputs[id[1]][id[2]]
None == 0
User == [at |-> "user"]
Scan == [at |-> "scan"]

\* A function without some of its domain (HashMap::remove).
Without(f, S) == Restrict(f, DOMAIN f \ S)

RawInit ==
    /\ arrived = 0 /\ requests = {} /\ gone = FALSE /\ to_client = <<>>
    /\ batches = <<>> /\ subs = <<>> /\ num = <<>> /\ fut = User
    /\ got = <<>> /\ cut = {} /\ pushed = <<>>

-----------------------------------------------------------------------------
\* batch.rs: an invalid call is answered as soon as the batch is made.
from_request(n) ==
    LET calls == [i \in 1 .. Len(Inputs[n]) |-> <<n, i>>]
    IN [to_yield  |-> SelectSeq(calls, LAMBDA id : Kind(id) # "invalid"),
        open      |-> {},
        responses |-> SelectSeq(calls, LAMBDA id : Kind(id) = "invalid"),
        raw       |-> n]

is_ready_to_respond(b) == b.to_yield = <<>> /\ b.open = {}

set_response(id) ==
    batches' = [batches EXCEPT ![id[1]].open = @ \ {id},
                               ![id[1]].responses = Append(@, id)]

\* LocalTransportServer::send and finish, once the channel has room.
deliver(msg) == to_client' = Append(to_client, msg)
HasRoom == Len(to_client) < Capacity

Response(n, outs) == [raw |-> n, kind |-> "response", outs |-> outs]
Notif(n, id) == [raw |-> n, kind |-> "notif", outs |-> <<id>>]

-----------------------------------------------------------------------------
(* RawServer::next_event. *)

next_event ==
    /\ fut = User
    /\ fut' = Scan
    /\ UNCHANGED <<arrived, requests, gone, to_client, batches, subs, num, got,
                   cut, pushed>>

\* The batches are looked at in the order of a hash map.  A batch with a call
\* left gives it to the user.
yield(n) ==
    /\ fut = Scan /\ n \in DOMAIN batches
    /\ LET b == batches[n] IN
       /\ b.to_yield # <<>>
       /\ batches' = [batches EXCEPT
              ![n].to_yield = Tail(@),
              ![n].open = IF Called(Kind(Head(b.to_yield)))
                          THEN @ \union {Head(b.to_yield)} ELSE @]
       /\ fut' = [at |-> "event", id |-> Head(b.to_yield)]
    /\ UNCHANGED <<arrived, requests, gone, to_client, subs, num, got, cut, pushed>>

\* A batch with every call answered leaves.  Without a response, or without a
\* client to send it to, nothing follows and the scan goes on.
ready(n) ==
    /\ fut = Scan /\ n \in DOMAIN batches
    /\ LET b == batches[n] IN
       /\ is_ready_to_respond(b)
       /\ batches' = Without(batches, {n})
       /\ IF b.responses = <<>> \/ b.raw = None THEN fut' = fut /\ UNCHANGED requests
          ELSE /\ fut' = [at |-> "send", raw |-> n, outs |-> b.responses,
                          keep |-> n \in DOMAIN num,
                          ok |-> n \in requests]
               /\ requests' = IF n \in DOMAIN num THEN requests ELSE requests \ {n}
    /\ UNCHANGED <<arrived, gone, to_client, subs, num, got, cut, pushed>>

Idle(b) == b.to_yield = <<>> /\ b.open # {}

nothing_to_do ==
    /\ fut = Scan
    /\ \A n \in DOMAIN batches : Idle(batches[n])
    /\ fut' = [at |-> "wait"]
    /\ UNCHANGED <<arrived, requests, gone, to_client, batches, subs, num, got,
                   cut, pushed>>

\* The response leaves, and the subscriptions it confirms are open.
send ==
    /\ fut.at = "send"
    /\ HasRoom \/ ~fut.ok \/ gone
    /\ IF fut.ok /\ ~gone THEN deliver(Response(fut.raw, fut.outs))
       ELSE UNCHANGED to_client
    /\ IF fut.keep
       THEN /\ subs' = [s \in DOMAIN subs |->
                  IF subs[s].raw = fut.raw THEN [subs[s] EXCEPT !.pending = FALSE]
                  ELSE subs[s]]
            /\ fut' = [at |-> "ready", subs |-> {s \in DOMAIN subs : subs[s].raw = fut.raw}]
       ELSE fut' = Scan /\ UNCHANGED subs
    /\ UNCHANGED <<arrived, requests, gone, batches, num, got, cut, pushed>>

next_request ==
    /\ fut.at = "wait" /\ arrived < Len(Inputs) /\ ~gone
    /\ arrived' = arrived + 1
    /\ requests' = requests \union {arrived'}
    /\ batches' = (arrived' :> from_request(arrived')) @@ batches
    /\ fut' = Scan
    /\ UNCHANGED <<gone, to_client, subs, num, got, cut, pushed>>

\* The client has gone: its requests are closed one by one.
closed(n) ==
    /\ fut.at = "wait" /\ gone /\ n \in requests
    /\ requests' = requests \ {n}
    /\ batches' = [b \in DOMAIN batches |->
           IF batches[b].raw = n THEN [batches[b] EXCEPT !.raw = None] ELSE batches[b]]
    /\ num' = Without(num, {n})
    /\ LET ids == {s \in DOMAIN subs : subs[s].raw = n} IN
       IF n \in DOMAIN num
       THEN /\ subs' = Without(subs, ids)
            /\ fut' = [at |-> "closed", subs |-> ids]
       ELSE fut' = Scan /\ UNCHANGED subs
    /\ UNCHANGED <<arrived, gone, to_client, got, cut, pushed>>

\* The user takes the event that next_event returns.
returned ==
    /\ fut.at \in {"event", "ready", "closed"}
    /\ fut' = User
    /\ UNCHANGED <<arrived, requests, gone, to_client, batches, subs, num, got,
                   cut, pushed>>

\* The user drops next_event while it waits.
drop_next_event ==
    /\ Drops
    /\ fut.at = "wait" \/ (fut.at = "send" /\ ~HasRoom)
    /\ fut' = User
    /\ cut' = IF fut.at = "send" THEN cut \union {fut.raw} ELSE cut
    /\ UNCHANGED <<arrived, requests, gone, to_client, batches, subs, num, got, pushed>>

-----------------------------------------------------------------------------
(* What the user does between two events. *)

Open == UNION {batches[n].open : n \in DOMAIN batches}

respond(id) ==
    /\ fut = User /\ id \in Open
    /\ set_response(id)
    /\ UNCHANGED <<arrived, requests, gone, to_client, subs, num, fut, got, cut, pushed>>

CanSubscribe(id) == batches[id[1]].raw # None /\ batches[id[1]].raw \in requests

subscribe(id) ==
    /\ LET n == id[1] IN
       /\ subs' = (id :> [raw |-> n, pending |-> TRUE]) @@ subs
       /\ num' = IF n \in DOMAIN num THEN [num EXCEPT ![n] = @ + 1] ELSE (n :> 1) @@ num
    /\ set_response(id)
    /\ pushed' = (id :> 0) @@ pushed

\* A client that has gone, or whose transport keeps no request open, is refused
\* and the call stays with the user.
into_subscription(id) ==
    /\ fut = User /\ id \in Open /\ CanSubscribe(id)
    /\ subscribe(id)
    /\ UNCHANGED <<arrived, requests, gone, to_client, fut, got, cut>>

push(s) ==
    /\ fut = User /\ s \in DOMAIN subs /\ pushed[s] < MaxPushes
    /\ IF subs[s].pending \/ subs[s].raw \notin requests \/ gone THEN UNCHANGED to_client
       ELSE HasRoom /\ deliver(Notif(subs[s].raw, s))
    /\ pushed' = [pushed EXCEPT ![s] = @ + 1]
    /\ UNCHANGED <<arrived, requests, gone, batches, subs, num, fut, got, cut>>

\* The last subscription of a confirmed request finishes the request.
close(s) ==
    /\ fut = User /\ s \in DOMAIN subs
    /\ LET n == subs[s].raw
           last == num[n] = 1
       IN /\ num' = IF last THEN Without(num, {n}) ELSE [num EXCEPT ![n] = @ - 1]
          /\ requests' = IF last /\ ~subs[s].pending THEN requests \ {n} ELSE requests
    /\ subs' = Without(subs, {s})
    /\ UNCHANGED <<arrived, gone, to_client, batches, fut, got, cut, pushed>>

-----------------------------------------------------------------------------
(* The client's end of the local transport. *)

next_response ==
    /\ ~gone /\ to_client # <<>>
    /\ got' = Append(got, Head(to_client))
    /\ to_client' = Tail(to_client)
    /\ UNCHANGED <<arrived, requests, gone, batches, subs, num, fut, cut, pushed>>

\* Requests the client sent before it goes are still read: it goes once they are.
client_gone ==
    /\ ~gone /\ arrived = Len(Inputs)
    /\ gone' = TRUE
    /\ UNCHANGED <<arrived, requests, to_client, batches, subs, num, fut, got, cut, pushed>>

ServerStep ==
    \/ nothing_to_do \/ send \/ next_request
    \/ \E n \in Raws : yield(n) \/ ready(n) \/ closed(n)

ClientStep == next_response \/ client_gone

Next ==
    \/ next_event \/ ServerStep \/ ClientStep \/ returned \/ drop_next_event
    \/ \E id \in Open : respond(id) \/ into_subscription(id)
    \/ \E s \in DOMAIN subs : push(s) \/ close(s)

Stutter == UNCHANGED rawvars

Spec == RawInit /\ [][Next \/ Stutter]_rawvars

-----------------------------------------------------------------------------
Sent == got \o to_client
Answers(n) == {i \in DOMAIN Sent : Sent[i].raw = n /\ Sent[i].kind = "response"}
ToAnswer(n) == {<<n, i>> : i \in {j \in DOMAIN Inputs[n] : Inputs[n][j] # "notify"}}

\* A client gets at most one response to a request, with one output for every
\* call that asks for one and none for a notification
\* (BatchState::into_response, RawServer::next_event).
AnsweredOnce ==
    \A n \in Raws : Cardinality(Answers(n)) <= 1 /\ \A i \in Answers(n) :
        LET outs == Sent[i].outs
        IN Len(outs) = Cardinality(ToAnswer(n)) /\ Range(outs) = ToAnswer(n)

\* No notification of a subscription precedes the response that tells the
\* client its id ("the subscription shouldn't accept any notification push
\* because the confirmation hasn't been sent", core.rs:136).
ConfirmedFirst ==
    \A i \in DOMAIN Sent : Sent[i].kind = "notif" =>
        \E j \in Answers(Sent[i].raw) : j < i

\* num_subscriptions counts the subscriptions of each live raw request; close
\* reaches no `unreachable!()` and next_event's assertions hold.
Counted ==
    /\ DOMAIN num = {subs[s].raw : s \in DOMAIN subs}
    /\ \A n \in DOMAIN num :
          /\ num[n] = Cardinality({s \in DOMAIN subs : subs[s].raw = n})
          /\ n \in requests
    /\ fut.at = "send" /\ fut.keep => \E s \in DOMAIN subs : subs[s].raw = fut.raw

\* A server with nothing to do has answered every request that asks for an
\* answer and has no call still with the user.  The transport keeps only the
\* requests with a subscription or an open call, those with nothing to answer,
\* which are never finished, and those whose response a dropped future took.
NothingLost ==
    fut.at = "wait" /\ ~gone =>
        \A n \in 1 .. arrived :
            /\ n \notin DOMAIN batches /\ ToAnswer(n) # {} /\ n \notin cut => Answers(n) # {}
            /\ n \in requests =>
                 n \in DOMAIN num \union DOMAIN batches \union cut \/ ToAnswer(n) = {}

RawServerSound == AnsweredOnce /\ ConfirmedFirst /\ Counted /\ NothingLost

-----------------------------------------------------------------------------
(* The JSON-RPC server (jrpc/server.rs): its background task is the user of   *)
(* the raw server, and the program's tasks talk to it through channels.       *)
(*                                                                             *)
(* One method, one kind of notifications and one subscription can be          *)
(* registered; calls of kind "unknown" never are.  `bg` is what the           *)
(* background task does: it is in its `select`, it waits for room in the      *)
(* channel of the notifications' reader, or it has panicked.                  *)

CONSTANTS
    HandlerCapacity,  \* capacity of a registered handler's channel (32)
    AllowLosses       \* allow_losses of the registered notifications

VARIABLES
    front,        \* messages to the background task (FrontToBack)
    asked,        \* what the program has registered (registered_methods)
    registered,   \* what the background task knows of
    queries,      \* handler channels: "method" and "notify"
    held,         \* calls the method's tasks are working on
    listening,    \* is the RegisteredMethod still there?
    clients,      \* subscribed_clients of the registered subscription
    active,       \* active_subscriptions
    bg

srvvars == <<front, asked, registered, queries, held, listening, clients, active, bg>>
vars == <<rawvars, srvvars>>

Loop == [at |-> "loop"]
Registrable == {"method", "notify", "subscribe"}

Init ==
    /\ RawInit
    /\ front = <<>> /\ asked = {} /\ registered = {} /\ held = {} /\ listening = TRUE
    /\ queries = [k \in {"method", "notify"} |-> <<>>]
    /\ clients = <<>> /\ active = {} /\ bg = Loop

-----------------------------------------------------------------------------
(* The program's side. *)

register(kind) ==
    /\ kind \notin asked
    /\ asked' = asked \union {kind}
    /\ front' = Append(front, [msg |-> "register", kind |-> kind])
    /\ UNCHANGED <<rawvars, registered, queries, held, listening, clients, active, bg>>

\* RegisteredMethod::next and RegisteredNotifications::next.
take(kind) ==
    /\ kind \in asked /\ queries[kind] # <<>> /\ (kind = "method" => listening)
    /\ queries' = [queries EXCEPT ![kind] = Tail(@)]
    /\ held' = IF kind = "method" THEN held \union {Head(queries[kind])} ELSE held
    /\ UNCHANGED <<rawvars, front, asked, registered, listening, clients, active, bg>>

\* IncomingRequest::respond.
answer(id) ==
    /\ id \in held
    /\ held' = held \ {id}
    /\ front' = Append(front, [msg |-> "answer", id |-> id])
    /\ UNCHANGED <<rawvars, asked, registered, queries, listening, clients, active, bg>>

\* RegisteredSubscription::send makes a future that it never polls.
subscription_send == "subscribe" \in asked /\ UNCHANGED vars

\* The program drops its RegisteredMethod.
drop_method ==
    /\ "method" \in asked /\ listening
    /\ listening' = FALSE
    /\ UNCHANGED <<rawvars, front, asked, registered, queries, held, clients, active, bg>>

-----------------------------------------------------------------------------
(* background_task.  `select` polls the channel first; a next_event that is   *)
(* pending when a message comes is dropped.                                   *)

Pending == fut.at = "wait" \/ (fut.at = "send" /\ ~HasRoom /\ ~gone)

\* RawServer::request_by_id(..).unwrap().respond(..)
message ==
    /\ bg = Loop /\ front # <<>>
    /\ fut = User \/ Pending
    /\ front' = Tail(front)
    /\ fut' = User
    /\ cut' = IF fut.at = "send" THEN cut \union {fut.raw} ELSE cut
    /\ LET m == Head(front) IN
       \/ /\ m.msg = "register"
          /\ registered' = registered \union {m.kind}
          /\ UNCHANGED <<batches, bg>>
       \/ /\ m.msg = "answer"
          /\ set_response(m.id)
          /\ bg' = IF m.id \in Open THEN bg ELSE [at |-> "panicked"]
          /\ UNCHANGED registered
    /\ UNCHANGED <<arrived, requests, gone, to_client, subs, num, got, pushed,
                   asked, queries, held, listening, clients, active>>

poll_next_event ==
    /\ bg = Loop /\ front = <<>>
    /\ next_event
    /\ UNCHANGED srvvars

server_step == bg = Loop /\ ServerStep /\ UNCHANGED srvvars

Full(kind) == Len(queries[kind]) >= HandlerCapacity

\* A notification waits for room, or is lost when the program allows that.
on_notification ==
    /\ bg = Loop /\ fut.at = "event" /\ Kind(fut.id) = "notify"
    /\ IF "notify" \in registered /\ Full("notify") /\ ~AllowLosses
       THEN bg' = [at |-> "room", id |-> fut.id] /\ UNCHANGED queries
       ELSE /\ queries' = IF "notify" \in registered /\ ~Full("notify")
                          THEN [queries EXCEPT !["notify"] = Append(@, fut.id)] ELSE queries
            /\ UNCHANGED bg
    /\ returned
    /\ UNCHANGED <<front, asked, registered, held, listening, clients, active>>

room ==
    /\ bg.at = "room" /\ ~Full("notify")
    /\ queries' = [queries EXCEPT !["notify"] = Append(@, bg.id)]
    /\ bg' = Loop
    /\ UNCHANGED <<rawvars, front, asked, registered, held, listening, clients, active>>

\* A call of a registered method goes to its handler, or is answered with an
\* error when the handler has no room or is gone; a call of no registered
\* method is answered at once.  A call to unsubscribe, whose id is parsed from
\* `null`, is left without an answer.  So would a refused subscription be;
\* RpcServerSound says that the local transport refuses none.
on_request ==
    /\ bg = Loop /\ fut.at = "event" /\ Called(Kind(fut.id))
    /\ fut' = User
    /\ LET id == fut.id IN
       \/ /\ Kind(id) = "method" /\ "method" \in registered
          /\ IF listening /\ ~Full("method")
             THEN /\ queries' = [queries EXCEPT !["method"] = Append(@, id)]
                  /\ UNCHANGED batches
             ELSE set_response(id) /\ UNCHANGED queries
          /\ UNCHANGED <<subs, num, pushed, clients, active>>
       \/ /\ Kind(id) = "subscribe" /\ "subscribe" \in registered
          /\ subscribe(id)
          /\ clients' = Append(clients, id)
          /\ active' = active \union {id}
          /\ UNCHANGED queries
       \/ /\ Kind(id) = "unsubscribe" /\ "subscribe" \in registered
          /\ UNCHANGED <<subs, num, pushed, batches, queries, clients, active>>
       \/ /\ IF Kind(id) = "unsubscribe" THEN "subscribe" \notin registered
             ELSE Kind(id) \notin registered
          /\ set_response(id)
          /\ UNCHANGED <<subs, num, pushed, queries, clients, active>>
    /\ UNCHANGED <<arrived, requests, gone, to_client, got, cut,
                   front, asked, registered, held, listening, bg>>

on_subscriptions ==
    /\ bg = Loop /\ fut.at \in {"ready", "closed"}
    /\ IF fut.at = "closed"
       THEN /\ active' = active \ fut.subs
            /\ clients' = SelectSeq(clients, LAMBDA c : c \notin fut.subs)
       ELSE UNCHANGED <<active, clients>>
    /\ returned
    /\ UNCHANGED <<front, asked, registered, queries, held, listening, bg>>

client_step == ClientStep /\ UNCHANGED srvvars

ServerNext ==
    \/ \E kind \in Registrable : register(kind)
    \/ \E kind \in {"method", "notify"} : take(kind)
    \/ \E id \in held : answer(id)
    \/ subscription_send \/ drop_method
    \/ message \/ poll_next_event \/ server_step \/ on_notification \/ room
    \/ on_request \/ on_subscriptions \/ client_step

ServerSpec == Init /\ [][ServerNext]_vars

-----------------------------------------------------------------------------
\* An answer always finds its call: `request_by_id(..).unwrap()` does not panic.
NoPanic == bg.at # "panicked"

Waiting == held \union {m.id : m \in {x \in Range(front) : x.msg = "answer"}}
                \union Range(queries["method"])

\* Each call is in one place: with the handler, with its task or on its way
\* back, and then it is open in its batch.
OneOwner ==
    /\ Waiting \subseteq Open
    /\ Len(queries["method"]) + Cardinality(held)
         + Cardinality({i \in DOMAIN front : front[i].msg = "answer"}) = Cardinality(Waiting)

\* The two tables of the background task and the raw server agree on the
\* subscriptions (the assertions of SendOutNotif and SubscriptionsClosed).
TablesAgree ==
    fut.at # "closed" =>
        /\ active = DOMAIN subs /\ Range(clients) = active
        /\ IsInjective(clients)

\* An open call is one that somebody will answer, one whose handler was dropped
\* with the call in its channel, or a call to unsubscribe, which the background
\* task leaves without an answer.  A subscription is never refused.
NoneForgotten ==
    \A id \in Open : \/ id \in Waiting \/ Kind(id) = "unsubscribe"
                     \/ /\ fut = [at |-> "event", id |-> id]
                        /\ Kind(id) = "subscribe" => CanSubscribe(id)

RpcServerSound ==
    /\ AnsweredOnce /\ Counted /\ NothingLost
    /\ NoPanic /\ OneOwner /\ TablesAgree /\ NoneForgotten

-----------------------------------------------------------------------------
(* The JSON-RPC client (jrpc/client.rs) and the raw client under it           *)
(* (jrpc/raw/client.rs), over a transport to some server.                     *)
(*                                                                             *)
(* Every caller runs one operation: a request, or a subscription that it      *)
(* reads and then drops.  The background task owns the raw client.  The       *)
(* server is external: it answers each call once, in any order, and pushes    *)
(* notifications on a subscription until it has answered its unsubscription.  *)
(*                                                                             *)
(* The background task unwraps the entry of a notification's subscription; a  *)
(* notification the server sent before it knew of an unsubscription makes it  *)
(* panic.  That is modelled: a panicked task drops its channels.              *)

CONSTANTS
    Callers,        \* tasks that use the Client
    OpOf,           \* Callers -> {"request", "subscribe"}
    ID_MOD,         \* request ids wrap around at 2^64
    QueueCapacity,  \* of the channel to the background task (16)
    NotifCapacity,  \* of the channel of a subscription (4)
    Fails           \* may the transport fail to send, and the server refuse?

VARIABLES
    caller,     \* caller -> where it stands
    client_front,      \* the channel to the background task
    client_bg,         \* "loop", "room" (a full subscription channel), "panicked"
    next_id,    \* RawClient::next_request_id
    client_requests,   \* RawClient::requests: id -> what for
    subscribed, \* RawClient::subscriptions: subscription id -> request id
    events,     \* RawClient::events_queue
    ongoing,    \* ongoing_requests: id -> caller
    pending,    \* pending_subscriptions
    client_active,     \* active_subscriptions
    chan,       \* notifications in the channel of a caller's subscription
    calls,      \* calls with the server
    live,       \* subscriptions open at the server: id -> notifications sent
    responses   \* messages on their way back

clientVars == <<caller, client_front, client_bg, next_id, client_requests, subscribed, events, ongoing,
                pending, client_active, chan, calls, live, responses>>

client_rawvars == <<next_id, client_requests, subscribed, events, calls>>
client_srvvars == <<live, responses>>

Ids == 0 .. ID_MOD - 1
Put(f, k, v) == (k :> v) @@ f
ClientWithout(f, k) == Restrict(f, DOMAIN f \ {k})

ClientInit ==
    /\ caller = [c \in Callers |-> "idle"]
    /\ client_front = <<>> /\ client_bg = [at |-> "loop"] /\ next_id = 0
    /\ client_requests = <<>> /\ subscribed = <<>> /\ events = <<>>
    /\ ongoing = <<>> /\ pending = <<>> /\ client_active = <<>>
    /\ chan = [c \in Callers |-> <<>>]
    /\ calls = {} /\ live = <<>> /\ responses = <<>>

-----------------------------------------------------------------------------
(* The callers. *)

Running == client_bg.at # "panicked"

\* Client::request and Client::subscribe, once the channel has room.  Without a
\* background task the sender of the answer is dropped with the message.
call(c) ==
    /\ caller[c] = "idle" /\ Len(client_front) < QueueCapacity
    /\ client_front' = IF Running THEN Append(client_front, [msg |-> OpOf[c], caller |-> c]) ELSE client_front
    /\ caller' = [caller EXCEPT ![c] = IF Running THEN "waiting" ELSE "failed"]
    /\ UNCHANGED <<client_bg, client_rawvars, ongoing, pending, client_active, chan, client_srvvars>>

\* The caller drops its future, and with it the receiver of the answer.
give_up(c) ==
    /\ caller[c] = "waiting"
    /\ caller' = [caller EXCEPT ![c] = "gave_up"]
    /\ UNCHANGED <<client_front, client_bg, client_rawvars, ongoing, pending, client_active, chan, client_srvvars>>

\* Subscription::next.
next(c) ==
    /\ caller[c] = "reading" /\ chan[c] # <<>>
    /\ chan' = [chan EXCEPT ![c] = Tail(@)]
    /\ UNCHANGED <<caller, client_front, client_bg, client_rawvars, ongoing, pending, client_active, client_srvvars>>

\* Subscription::drop: ChannelClosed is lost when the channel has no room.
drop(c) ==
    /\ caller[c] = "reading"
    /\ caller' = [caller EXCEPT ![c] = "dropped"]
    /\ chan' = [chan EXCEPT ![c] = <<>>]
    /\ client_front' = IF Running /\ Len(client_front) < QueueCapacity
                       THEN Append(client_front, [msg |-> "closed", caller |-> c]) ELSE client_front
    /\ UNCHANGED <<client_bg, client_rawvars, ongoing, pending, client_active, client_srvvars>>

-----------------------------------------------------------------------------
(* The raw client. *)

\* start_impl: the ids in use are skipped.
FreshId == CHOOSE i \in {(next_id + k) % ID_MOD : k \in Ids} :
    /\ i \notin DOMAIN client_requests
    /\ \A k \in Ids : ((next_id + k) % ID_MOD \notin DOMAIN client_requests) =>
           (i + ID_MOD - next_id) % ID_MOD <= k

start(what) ==
    /\ next_id' = (FreshId + 1) % ID_MOD
    /\ client_requests' = Put(client_requests, FreshId, what)
    /\ calls' = calls \union {[id |-> FreshId, for |-> what]}

start_failed ==
    /\ next_id' = (FreshId + 1) % ID_MOD
    /\ UNCHANGED <<client_requests, calls>>

\* RawClientActiveSubscription::close, for the subscription of request r.
client_close(r) ==
    LET sub == client_requests[r].sub IN
    /\ next_id' = (FreshId + 1) % ID_MOD
    /\ client_requests' = Put([client_requests EXCEPT ![r].closing = TRUE], FreshId,
                       [is |-> "unsubscribe", of |-> r])
    /\ calls' = calls \union {[id |-> FreshId, for |-> [is |-> "unsubscribe", of |-> sub]]}

\* process_response and the notification branch of event_step.  The background
\* task empties the queue before it reads on, so that it never fills up.
event_step(m) ==
    \/ /\ m.kind = "notif" /\ m.sub \in DOMAIN subscribed
       /\ events' = Append(events, [is |-> "notif", id |-> subscribed[m.sub]])
       /\ UNCHANGED <<client_requests, subscribed>>
    \/ /\ m.kind = "response" /\ client_requests[m.id].is = "request"
       /\ client_requests' = ClientWithout(client_requests, m.id)
       /\ events' = Append(events, [is |-> "response", id |-> m.id])
       /\ UNCHANGED subscribed
    \/ /\ m.kind = "response" /\ client_requests[m.id].is = "pending"
       /\ IF m.ok
          THEN /\ subscribed' = Put(subscribed, m.sub, m.id)
               /\ client_requests' = [client_requests EXCEPT ![m.id] =
                                        [is |-> "active", sub |-> m.sub, closing |-> FALSE]]
          ELSE client_requests' = ClientWithout(client_requests, m.id) /\ UNCHANGED subscribed
       /\ events' = Append(events, [is |-> "subscribed", id |-> m.id, ok |-> m.ok])
    \/ /\ m.kind = "response" /\ client_requests[m.id].is = "unsubscribe"
       /\ LET r == client_requests[m.id].of IN
          /\ subscribed' = ClientWithout(subscribed, client_requests[r].sub)
          /\ client_requests' = ClientWithout(ClientWithout(client_requests, r), m.id)
          /\ events' = Append(events, [is |-> "unsubscribed", id |-> r])

-----------------------------------------------------------------------------
(* background_task.  `select` polls the channel of the callers first. *)

ClientLoop == [at |-> "loop"]

\* A panicking or ending task drops its channels: whoever waits gets an error.
panic ==
    /\ client_bg' = [at |-> "panicked"]
    /\ caller' = [c \in Callers |-> IF caller[c] = "waiting" THEN "failed" ELSE caller[c]]
    /\ client_front' = <<>>

Answer(c, how) == caller' = IF caller[c] = "waiting" THEN [caller EXCEPT ![c] = how] ELSE caller

on_call ==
    /\ client_bg = ClientLoop /\ client_front # <<>> /\ Head(client_front).msg # "closed"
    /\ client_front' = Tail(client_front)
    /\ LET m == Head(client_front) IN
       \/ /\ m.msg = "request"
          /\ start([is |-> "request"])
          /\ ongoing' = Put(ongoing, FreshId, m.caller)
          /\ UNCHANGED <<caller, pending>>
       \/ /\ m.msg = "subscribe"
          /\ start([is |-> "pending"])
          /\ pending' = Put(pending, FreshId, m.caller)
          /\ UNCHANGED <<caller, ongoing>>
       \/ /\ Fails
          /\ start_failed
          /\ Answer(m.caller, "failed")
          /\ UNCHANGED <<ongoing, pending>>
    /\ UNCHANGED <<client_bg, subscribed, events, client_active, chan, client_srvvars>>

Closed(r) == caller[client_active[r]] = "dropped"

\* ChannelClosed: every subscription whose receiver is gone is closed.  With
\* one more to close, the message stays at the head for the next step.
on_closed ==
    /\ client_bg = ClientLoop /\ client_front # <<>> /\ Head(client_front).msg = "closed"
    /\ LET lost == {r \in DOMAIN client_active : Closed(r)} IN
       /\ client_front' = IF Cardinality(lost) <= 1 THEN Tail(client_front) ELSE client_front
       /\ IF lost = {} THEN UNCHANGED <<next_id, client_requests, calls, client_active>>
          ELSE \E r \in lost : client_close(r) /\ client_active' = ClientWithout(client_active, r)
    /\ UNCHANGED <<caller, client_bg, subscribed, events, ongoing, pending, chan, client_srvvars>>

\* next_event with an empty queue waits for the transport.
poll_transport ==
    /\ client_bg = ClientLoop /\ client_front = <<>> /\ events = <<>> /\ responses # <<>>
    /\ responses' = Tail(responses)
    /\ event_step(Head(responses))
    /\ UNCHANGED <<caller, client_front, client_bg, next_id, calls, ongoing, pending, client_active, chan, live>>

TakeEvent == client_bg = ClientLoop /\ client_front = <<>> /\ events # <<>> /\ events' = Tail(events)

on_response ==
    /\ TakeEvent /\ Head(events).is = "response"
    /\ LET r == Head(events).id IN
       /\ Answer(ongoing[r], "answered")
       /\ ongoing' = ClientWithout(ongoing, r)
    /\ UNCHANGED <<client_front, client_bg, next_id, client_requests, subscribed, calls, pending, client_active,
                   chan, client_srvvars>>

\* A subscription whose caller is gone is closed again.
on_subscribed ==
    /\ TakeEvent /\ Head(events).is = "subscribed"
    /\ LET r == Head(events).id
           c == pending[r]
       IN /\ pending' = ClientWithout(pending, r)
          /\ \/ /\ ~Head(events).ok
                /\ Answer(c, "failed")
                /\ UNCHANGED <<client_active, next_id, client_requests, calls>>
             \/ /\ Head(events).ok /\ caller[c] = "waiting"
                /\ client_active' = Put(client_active, r, c)
                /\ caller' = [caller EXCEPT ![c] = "reading"]
                /\ UNCHANGED <<next_id, client_requests, calls>>
             \/ /\ Head(events).ok /\ caller[c] # "waiting"
                /\ client_close(r)
                /\ UNCHANGED <<client_active, caller>>
    /\ UNCHANGED <<client_front, client_bg, subscribed, ongoing, chan, client_srvvars>>

\* The channel has room, is closed, or makes the background task wait.  A
\* notification of a subscription no longer in the table is a panic.
on_notif ==
    /\ TakeEvent /\ Head(events).is = "notif"
    /\ LET r == Head(events).id IN
       \/ /\ r \notin DOMAIN client_active
          /\ panic
          /\ UNCHANGED <<client_active, next_id, client_requests, calls, chan>>
       \/ /\ r \in DOMAIN client_active /\ Closed(r)
          /\ client_active' = ClientWithout(client_active, r)
          /\ client_close(r)
          /\ UNCHANGED <<caller, client_front, client_bg, chan>>
       \/ /\ r \in DOMAIN client_active /\ ~Closed(r)
          /\ IF Len(chan[client_active[r]]) < NotifCapacity
             THEN chan' = [chan EXCEPT ![client_active[r]] = Append(@, r)] /\ UNCHANGED client_bg
             ELSE client_bg' = [at |-> "room", id |-> r] /\ UNCHANGED chan
          /\ UNCHANGED <<caller, client_front, client_active, next_id, client_requests, calls>>
    /\ UNCHANGED <<subscribed, ongoing, pending, client_srvvars>>

\* The blocked send goes on once the reader has taken or dropped its channel.
client_room ==
    /\ client_bg.at = "room"
    /\ LET c == client_active[client_bg.id] IN
       \/ /\ Closed(client_bg.id)
          /\ client_active' = ClientWithout(client_active, client_bg.id)
          /\ client_close(client_bg.id)
          /\ UNCHANGED chan
       \/ /\ ~Closed(client_bg.id) /\ Len(chan[c]) < NotifCapacity
          /\ chan' = [chan EXCEPT ![c] = Append(@, client_bg.id)]
          /\ UNCHANGED <<client_active, next_id, client_requests, calls>>
    /\ client_bg' = ClientLoop
    /\ UNCHANGED <<caller, client_front, subscribed, events, ongoing, pending, client_srvvars>>

on_unsubscribed ==
    /\ TakeEvent /\ Head(events).is = "unsubscribed"
    /\ UNCHANGED <<caller, client_front, client_bg, next_id, client_requests, subscribed, calls, ongoing,
                   pending, client_active, chan, client_srvvars>>

-----------------------------------------------------------------------------
(* The server. *)

\* A subscription is named after the request that opens it, and the names are
\* used again only when the request ids are.
server_answer(q) ==
    /\ q \in calls
    /\ calls' = calls \ {q}
    /\ \/ /\ q.for.is # "pending"
          /\ responses' = Append(responses, [kind |-> "response", id |-> q.id])
          /\ live' = IF q.for.is = "unsubscribe" THEN ClientWithout(live, q.for.of) ELSE live
       \/ /\ q.for.is = "pending"
          /\ responses' = Append(responses,
                 [kind |-> "response", id |-> q.id, ok |-> TRUE, sub |-> q.id])
          /\ live' = Put(live, q.id, 0)
       \/ /\ q.for.is = "pending" /\ Fails
          /\ responses' = Append(responses,
                 [kind |-> "response", id |-> q.id, ok |-> FALSE])
          /\ UNCHANGED live
    /\ UNCHANGED <<caller, client_front, client_bg, next_id, client_requests, subscribed, events, ongoing,
                   pending, client_active, chan>>

server_push(s) ==
    /\ s \in DOMAIN live /\ live[s] < MaxPushes
    /\ live' = [live EXCEPT ![s] = @ + 1]
    /\ responses' = Append(responses, [kind |-> "notif", sub |-> s])
    /\ UNCHANGED <<caller, client_front, client_bg, client_rawvars, ongoing, pending, client_active, chan>>

ClientNext ==
    \/ \E c \in Callers : call(c) \/ give_up(c) \/ next(c) \/ drop(c)
    \/ on_call \/ on_closed \/ poll_transport \/ on_response \/ on_subscribed
    \/ on_notif \/ client_room \/ on_unsubscribed
    \/ \E q \in calls : server_answer(q)
    \/ \E s \in DOMAIN live : server_push(s)

ClientSpec == ClientInit /\ [][ClientNext]_clientVars

-----------------------------------------------------------------------------
Of(kind) == {r \in DOMAIN client_requests : client_requests[r].is = kind}
Due(kind) == {e.id : e \in {x \in Range(events) : x.is = kind}}

\* The tables of the background task and of the raw client agree: each request
\* in one has its entry in the other or its event on the way, so that the
\* `unwrap`s of background_task find their entries.
ClientTablesAgree ==
    Running =>
        /\ DOMAIN ongoing = Of("request") \union Due("response")
        /\ DOMAIN pending = Of("pending") \union Due("subscribed")
        /\ DOMAIN client_active \subseteq {r \in Of("active") : ~client_requests[r].closing}
        /\ Of("active") \ (DOMAIN client_active \union DOMAIN pending)
              \subseteq {r \in Of("active") : client_requests[r].closing}

\* RawClient's two tables mirror each other, and an unsubscription has its
\* subscription (the debug assertions of subscription_by_id and
\* process_response).
RawTables ==
    /\ Of("active") = Range(subscribed) /\ IsInjective(subscribed)
    /\ \A r \in Of("active") : subscribed[client_requests[r].sub] = r
    /\ \A r \in Of("unsubscribe") :
          client_requests[r].of \in Of("active") /\ client_requests[client_requests[r].of].closing
    /\ \A r, q \in Of("unsubscribe") : client_requests[r].of = client_requests[q].of => r = q

\* Every message of the server is one the raw client expects: it reports no
\* unknown request or subscription.
Expected ==
    Running /\ responses # <<>> /\ events = <<>> =>
        LET m == Head(responses)
        IN IF m.kind = "notif" THEN m.sub \in DOMAIN subscribed ELSE m.id \in DOMAIN client_requests

Settled == client_front = <<>> /\ events = <<>> /\ responses = <<>> /\ calls = {} /\ client_bg = ClientLoop

\* When the server and the background task have nothing left to do, or the
\* task has panicked, no caller waits for an answer (Client::request,
\* Client::subscribe).
Answered ==
    /\ Settled => \A c \in Callers : caller[c] # "waiting"
    /\ ~Running => \A c \in Callers : caller[c] # "waiting"

RpcClientSound == ClientTablesAgree /\ RawTables /\ Expected /\ Answered
=============================================================================
