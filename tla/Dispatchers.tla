----------------------------- MODULE Dispatchers -----------------------------
(* The futures that feed a service from a stream: util's dispatcher with its*)
(* in-order, in-flight, timeout and keep-alive services, and framed's.      *)
EXTENDS Naturals, Sequences, FiniteSets, SequencesExt

(* util::stream::Dispatcher, which calls a service for each item of a stream, *)
(* over one of the middlewares of util: InFlight, InOrder, Timeout, KeepAlive  *)
(* (with the cached clock LowResTime it reads).  Everything runs on the fibers *)
(* of one thread: a poll is one step, and only timers, arrivals and other      *)
(* fibers come between polls.                                                  *)

CONSTANTS
    Kind,        \* "inflight", "inorder", "timeout" or "keepalive"
    Items,       \* bound: items of the stream, numbered from 1
    max_inflight, timeout, ka, resolution,
    MaxTime,     \* bound on the clock
    MaxBusy      \* bound: times the service becomes busy

VARIABLES
    arrived, closed,   \* the stream: items that have come, and its end
    taken,             \* items taken by the dispatcher
    dsp,               \* the dispatcher's fiber: "run", "asleep", "ok" or "err"
    reg,               \* whom its waker is registered with
    leaf, busy,        \* is the inner service ready; times it has been busy
    fut,               \* fut[i]: the inner future of call i: "none", "run", "ok", "bad"
    res,               \* res[i]: what the fiber of call i got: "none", "ok", "bad", "timeout", "gone"
    errors,            \* the err_tx/err_rx channel
    acks, tx1, tx2,    \* InOrder: records in order; results sent to it, and by it
    sent,              \* InOrder: the order in which it passed results on
    now, current,      \* the clock; LowResTime's cached value
    clear,             \* when the cached value is cleared
    deadline,          \* Timeout: the delays of the calls
    expire, delay,     \* KeepAlive
    last               \* history: the time of the last call

vars == <<arrived, closed, taken, dsp, reg, leaf, busy, fut, res, errors, acks, tx1, tx2, sent,
          now, current, clear, deadline, expire, delay, last>>
clock == <<now, current, clear>>

None == 0  \* no time; the clock starts at 1
I == 1..Items

Init ==
    /\ arrived = 0 /\ closed = FALSE /\ taken = 0 /\ dsp = "run" /\ reg = {}
    /\ leaf = "ok" /\ busy = 0
    /\ fut = [i \in I |-> "none"] /\ res = [i \in I |-> "none"] /\ errors = <<>>
    /\ acks = <<>> /\ tx1 = [i \in I |-> "none"] /\ tx2 = [i \in I |-> "none"] /\ sent = <<>>
    /\ now = 1
    /\ current = IF Kind = "keepalive" THEN 1 ELSE None
    /\ clear = IF Kind = "keepalive" THEN 1 + resolution ELSE None
    /\ deadline = [i \in I |-> None]
    /\ expire = 1 + ka /\ delay = 1 + ka /\ last = 1

-----------------------------------------------------------------------------
\* Counter: the calls that hold a guard.
InFlight == {i \in I : fut[i] # "none" /\ res[i] = "none"}

\* LowResTimeService::now: the cached time, or the time, which is then cached.
read_clock(s) ==
    IF s.current # None THEN [t |-> s.current, s |-> s]
    ELSE [t |-> now, s |-> [s EXCEPT !.current = now, !.clear = now + resolution]]

\* InOrderService::poll_ready passes on the results at the head of the queue.
RECURSIVE pass_on(_)
pass_on(s) ==
    IF s.acks = <<>> \/ tx1[Head(s.acks)] = "none" THEN s
    ELSE pass_on([s EXCEPT !.tx2[Head(s.acks)] = tx1[Head(s.acks)], !.acks = Tail(@),
                           !.sent = Append(@, Head(s.acks))])

\* poll_ready of the middleware: "ok", "pending" or "err", and the state after it.
poll_ready(s0) ==
    LET s == [s0 EXCEPT !.reg = @ \union {"leaf"}]
    IN CASE Kind = "inflight" ->
              IF leaf = "pending" THEN [r |-> "pending", s |-> s]
              ELSE [r |-> IF Cardinality(InFlight \union s.calls) < max_inflight THEN "ok" ELSE "pending",
                    s |-> [s EXCEPT !.reg = @ \union {"count"}]]
         [] Kind = "inorder" ->
              [r |-> IF leaf = "pending" THEN "pending" ELSE "ok",
               s |-> pass_on([s EXCEPT !.reg = @ \union {"order"}])]
         [] Kind = "timeout" -> [r |-> IF leaf = "pending" THEN "pending" ELSE "ok", s |-> s]
         [] Kind = "keepalive" ->
              IF s.delay > now THEN [r |-> "ok", s |-> [s0 EXCEPT !.reg = @ \union {"delay"}]]
              ELSE LET c == read_clock(s0)
                   IN IF s0.expire <= c.t THEN [r |-> "err", s |-> c.s]
                      \* The delay is reset and polled; what the poll says is dropped.
                      ELSE [r |-> "ok", s |-> [c.s EXCEPT !.delay = s0.expire,
                                    !.reg = IF s0.expire > now THEN @ \union {"delay"} ELSE @ \ {"delay"}]]

\* Service::call of the middleware for the item i.
call(s, i) ==
    CASE Kind = "inorder" -> [s EXCEPT !.acks = Append(@, i), !.calls = @ \union {i}]
      [] Kind = "keepalive" ->
           LET c == read_clock(s) IN [c.s EXCEPT !.expire = c.t + ka, !.calls = @ \union {i}]
      [] OTHER -> [s EXCEPT !.calls = @ \union {i}]

\* Dispatcher::poll, the loop: ready, an item, a call spawned, again.
RECURSIVE loop(_)
loop(s) ==
    LET p == poll_ready(s)
    IN CASE p.r = "err" -> [p.s EXCEPT !.end = "err"]
         [] p.r = "pending" -> p.s
         [] p.r = "ok" /\ p.s.taken < arrived ->
               loop(call([p.s EXCEPT !.taken = @ + 1], p.s.taken + 1))
         [] p.r = "ok" /\ p.s.taken = arrived /\ closed -> [p.s EXCEPT !.end = "ok"]
         [] OTHER -> [p.s EXCEPT !.reg = @ \union {"stream"}]

\* When the dispatcher ends its service is dropped: InOrder's senders with it.
poll ==
    /\ dsp = "run"
    /\ LET s0 == [taken |-> taken, calls |-> {}, acks |-> acks, tx2 |-> tx2, sent |-> sent, end |-> "asleep",
                  reg |-> {"err"}, current |-> current, clear |-> clear, expire |-> expire, delay |-> delay]
           s == IF errors # <<>> THEN [s0 EXCEPT !.end = "err"] ELSE loop(s0)
           ended == s.end # "asleep"
       IN /\ dsp' = s.end /\ reg' = IF ended THEN {} ELSE s.reg
          /\ taken' = s.taken /\ sent' = s.sent /\ tx2' = IF ended
                 THEN [i \in I |-> IF i \in Range(s.acks) THEN "gone" ELSE s.tx2[i]] ELSE s.tx2
          /\ acks' = IF ended THEN <<>> ELSE s.acks
          /\ fut' = [i \in I |-> IF i \notin s.calls THEN fut[i] ELSE IF Kind = "keepalive" THEN "ok" ELSE "run"]
          /\ deadline' = [i \in I |-> IF i \in s.calls /\ Kind = "timeout" THEN now + timeout ELSE deadline[i]]
          /\ last' = IF s.calls # {} THEN now ELSE last
          /\ errors' = IF errors # <<>> THEN Tail(errors) ELSE errors
          /\ current' = s.current /\ clear' = s.clear /\ expire' = s.expire /\ delay' = s.delay
    /\ UNCHANGED <<arrived, closed, leaf, busy, res, tx1, now>>

\* A source that holds the dispatcher's waker wakes it.
Wakes(by) == /\ dsp' = IF dsp = "asleep" /\ reg \intersect by # {} THEN "run" ELSE dsp
             /\ reg' = reg \ by

-----------------------------------------------------------------------------
\* The future of call i completes (Timeout polls it before its delay), or its delay
\* has elapsed; for InOrder a fiber of its own wakes the service and sends the result.
Finish(i, r) ==
    /\ res' = [res EXCEPT ![i] = r]
    /\ errors' = IF r # "ok" /\ dsp \notin {"ok", "err"} THEN Append(errors, r) ELSE errors
    /\ Wakes((IF r # "ok" THEN {"err"} ELSE {})
             \union (IF Cardinality(InFlight) = max_inflight THEN {"count"} ELSE {}))

respond(i) ==
    /\ fut[i] # "none" /\ res[i] = "none"
    /\ CASE Kind = "inorder" -> /\ tx2[i] # "none" /\ Finish(i, tx2[i])
         [] Kind = "timeout" -> \/ fut[i] # "run" /\ Finish(i, fut[i])
                                \/ fut[i] = "run" /\ deadline[i] <= now /\ Finish(i, "timeout")
         [] OTHER -> fut[i] # "run" /\ Finish(i, fut[i])
    /\ UNCHANGED <<arrived, closed, taken, leaf, busy, fut, acks, tx1, tx2, sent, clock, deadline,
                   expire, delay, last>>


send_result(i) ==
    /\ Kind = "inorder" /\ fut[i] \in {"ok", "bad"} /\ tx1[i] = "none"
    /\ tx1' = [tx1 EXCEPT ![i] = fut[i]]
    /\ Wakes({"order"})
    /\ UNCHANGED <<arrived, closed, taken, leaf, busy, fut, res, errors, acks, tx2, sent, clock, deadline,
                   expire, delay, last>>

\* The environment: the inner service answers a call, is busy or ready again; the
\* stream has an item, or ends; time passes; the cached time is cleared.
answer(i) ==
    /\ fut[i] = "run" /\ \E r \in {"ok", "bad"} : fut' = [fut EXCEPT ![i] = r]
    /\ UNCHANGED <<arrived, closed, taken, dsp, reg, leaf, busy, res, errors, acks, tx1, tx2, sent, clock,
                   deadline, expire, delay, last>>

turn ==
    /\ \/ /\ leaf = "ok" /\ busy < MaxBusy /\ leaf' = "pending" /\ busy' = busy + 1
          /\ UNCHANGED <<dsp, reg>>
       \/ /\ leaf = "pending" /\ leaf' = "ok" /\ Wakes({"leaf"}) /\ UNCHANGED busy
    /\ UNCHANGED <<arrived, closed, taken, fut, res, errors, acks, tx1, tx2, sent, clock,
                   deadline, expire, delay, last>>

arrive ==
    /\ ~closed
    /\ \/ /\ arrived < Items /\ arrived' = arrived + 1 /\ UNCHANGED closed
       \/ /\ closed' = TRUE /\ UNCHANGED arrived
    /\ Wakes({"stream"})
    /\ UNCHANGED <<taken, leaf, busy, fut, res, errors, acks, tx1, tx2, sent, clock,
                   deadline, expire, delay, last>>

\* (A fiber whose timer has fired runs within the tick.)
tick ==
    /\ now < MaxTime /\ now' = now + 1
    /\ current # None => clear > now
    /\ Wakes(IF Kind = "keepalive" /\ delay <= now' THEN {"delay"} ELSE {})
    /\ UNCHANGED <<arrived, closed, taken, leaf, busy, fut, res, errors, acks, tx1, tx2, sent, current, clear,
                   deadline, expire, delay, last>>

clear_time ==
    /\ current # None /\ clear <= now /\ current' = None /\ clear' = None
    /\ UNCHANGED <<arrived, closed, taken, dsp, reg, leaf, busy, fut, res, errors, acks, tx1, tx2, sent, now,
                   deadline, expire, delay, last>>

Next == poll \/ turn \/ arrive \/ tick \/ clear_time
        \/ \E i \in I : respond(i) \/ send_result(i) \/ answer(i)

Spec == Init /\ [][Next]_vars

-----------------------------------------------------------------------------
\* InFlight lets no more than max_inflight calls run at a time (also when several
\* items are taken in one poll), and InOrder passes results on in the order of calls.
InFlightBounded == Kind = "inflight" => Cardinality(InFlight) <= max_inflight
InOrderResults == Kind = "inorder" =>
    /\ \A n \in DOMAIN sent : sent[n] = n
    /\ \A i \in I : res[i] \in {"ok", "bad"} => res[i] = fut[i]

\* A call times out only when its time is up and its future has not answered.
TimeoutsJust == \A i \in I : res[i] = "timeout" => deadline[i] <= now /\ deadline[i] # None

\* KeepAlive ends the dispatcher only when no call came for `ka`, less the error of
\* the cached clock.
KeepAliveNotEarly == Kind = "keepalive" /\ dsp = "err" /\ errors = <<>> => now + resolution >= last + ka

\* A dispatcher asleep has nothing to do: no error to report, no result it could pass
\* on, and neither an item nor the end of the stream while the middleware would be ready.
NoLostWork == dsp = "asleep" =>
    /\ errors = <<>>
    /\ acks # <<>> => tx1[Head(acks)] = "none"
    /\ (taken < arrived \/ closed) =>
           \/ leaf = "pending"
           \/ Kind = "inflight" /\ Cardinality(InFlight) >= max_inflight

\* No item is skipped or called twice, and results are lost only when the
\* dispatcher has ended and dropped the InOrder service with its senders.
CallsAreItems == /\ \A i \in I : (fut[i] # "none") <=> (i <= taken)
                 /\ (\E i \in I : res[i] = "gone") => dsp \in {"ok", "err"}

StreamDispatchSound == InFlightBounded /\ InOrderResults /\ TimeoutsJust /\ KeepAliveNotEarly
                       /\ NoLostWork /\ CallsAreItems

-----------------------------------------------------------------------------
(* The two dispatchers that drive a service from a framed transport:          *)
(* framed/framed.rs (Kind = "framed", with a sink that may send Close) and    *)
(* framed/dispatcher.rs (Kind = "io", with an outgoing stream of its own,     *)
(* started by framed/service.rs once it has connected and has its handler).   *)
(*                                                                             *)
(* The dispatcher is one task: `pc` is where a poll of it stands, "idle"      *)
(* between polls.  Service calls are tasks that send their result to `rx`.    *)
(* `armed` holds the sources whose waker the dispatcher has left behind; an   *)
(* event of an armed source wakes it.                                         *)

CONSTANTS
    Inputs,    \* what the peer sends: "item" or "bad"; then it closes
    HW,        \* messages that fill the write buffer
    Outs,      \* "io": messages of the outgoing stream, before it ends
    HasSink,   \* "io": is there an outgoing stream?
    Closes,    \* "framed": may the program send Close?
    Fails      \* may a call, the service's readiness or a flush fail?

VARIABLES
    framed_arrived, framed_taken,  \* inputs on the wire, and decoded
    framed_busy,            \* times the service has been not ready; is it ready now?
    ready,
    calls,           \* calls in flight
    rx,              \* results on their way to the dispatcher
    outs,            \* messages the outgoing stream has yielded
    sink,            \* "some" or "none"
    wbuf,            \* messages in the write buffer
    blocked,         \* does the socket take no bytes?
    framed_sent,            \* messages written to the socket
    state, pc, moved, armed, woken, result

framedVars == <<framed_arrived, framed_taken, framed_busy, ready, calls, rx, outs, sink, wbuf, blocked, framed_sent,
                state, pc, moved, armed, woken, result>>
env == <<framed_arrived, framed_busy, ready, calls, outs, blocked>>

Eof == Len(Inputs) + 1

FramedInit ==
    /\ framed_arrived = 0 /\ framed_taken = 0 /\ framed_busy = 0 /\ ready = TRUE /\ calls = {} /\ rx = <<>>
    /\ outs = 0 /\ sink = (IF HasSink THEN "some" ELSE "none")
    /\ wbuf = <<>> /\ blocked = FALSE /\ framed_sent = <<>>
    /\ state = (IF Kind = "io" THEN "Connect" ELSE "Processing") /\ pc = "idle" /\ moved = FALSE
    /\ armed = {} /\ woken = TRUE /\ result = "none"

Wake(src) == woken' = (woken \/ src \in armed) /\ armed' = armed \ {src}

-----------------------------------------------------------------------------
(* The environment: the socket, the service and its calls, the program. *)

framed_arrive ==
    /\ framed_arrived < Eof /\ framed_arrived' = framed_arrived + 1
    /\ Wake("read")
    /\ UNCHANGED <<framed_taken, framed_busy, ready, calls, rx, outs, sink, wbuf, blocked, framed_sent,
                   state, pc, moved, result>>

service_busy ==
    /\ ready /\ framed_busy < MaxBusy /\ framed_busy' = framed_busy + 1 /\ ready' = FALSE
    /\ UNCHANGED <<framed_arrived, framed_taken, calls, rx, outs, sink, wbuf, blocked, framed_sent,
                   state, pc, moved, armed, woken, result>>

service_ready ==
    /\ ~ready /\ ready' = TRUE
    /\ Wake("service")
    /\ UNCHANGED <<framed_arrived, framed_taken, framed_busy, calls, rx, outs, sink, wbuf, blocked, framed_sent,
                   state, pc, moved, result>>

\* A spawned call ends and sends its result; without a dispatcher it is lost.
call_done(c) ==
    /\ c \in calls /\ calls' = calls \ {c}
    /\ \E r \in {[is |-> "item", of |-> c]} \union
                (IF Fails THEN {[is |-> "error", of |-> c]} ELSE {}) \union
                (IF Kind = "io" THEN {[is |-> "none", of |-> c]} ELSE {}) :
          rx' = IF r.is = "none" \/ result # "none" THEN rx ELSE Append(rx, r)
    /\ Wake("rx")
    /\ UNCHANGED <<framed_arrived, framed_taken, framed_busy, ready, outs, sink, wbuf, blocked, framed_sent,
                   state, pc, moved, result>>

send_close ==
    /\ Closes /\ result = "none"
    /\ \A i \in DOMAIN rx : rx[i].is # "close"
    /\ state = "Processing"
    /\ rx' = Append(rx, [is |-> "close"])
    /\ Wake("rx")
    /\ UNCHANGED <<framed_arrived, framed_taken, framed_busy, ready, calls, outs, sink, wbuf, blocked, framed_sent,
                   state, pc, moved, result>>

\* The outgoing stream has its next message, or its end.
out_ready ==
    /\ HasSink /\ outs <= Outs /\ outs' = outs + 1
    /\ Wake("out")
    /\ UNCHANGED <<framed_arrived, framed_taken, framed_busy, ready, calls, rx, sink, wbuf, blocked, framed_sent,
                   state, pc, moved, result>>

block ==
    /\ ~blocked /\ pc = "idle" /\ wbuf = <<>> /\ blocked' = TRUE
    /\ UNCHANGED <<framed_arrived, framed_taken, framed_busy, ready, calls, rx, outs, sink, wbuf, framed_sent,
                   state, pc, moved, armed, woken, result>>

unblock ==
    /\ blocked /\ blocked' = FALSE
    /\ Wake("write")
    /\ UNCHANGED <<framed_arrived, framed_taken, framed_busy, ready, calls, rx, outs, sink, wbuf, framed_sent,
                   state, pc, moved, result>>

-----------------------------------------------------------------------------
(* Future::poll: the state decides; "Processing" reads and writes until both  *)
(* have nothing to do.  framed.rs looks at the state again after each round,  *)
(* dispatcher.rs does not.                                                     *)

Again(st) == IF Kind = "io" \/ st = "Processing" THEN "read" ELSE "poll"

framed_poll ==
    /\ pc \in {"idle", "poll"} /\ result = "none" /\ state \notin {"Connect", "Handler"}
    /\ pc = "idle" => woken
    /\ woken' = IF pc = "idle" THEN FALSE ELSE woken
    /\ CASE state = "Processing" -> pc' = "read" /\ moved' = FALSE /\ UNCHANGED result
         [] state \in {"FramedError", "Stopping"} ->
                pc' = "idle" /\ UNCHANGED moved
                /\ result' = IF state = "Stopping" THEN "ok" ELSE "error"
         [] state \in {"Error", "FlushAndStop"} -> pc' = "last" /\ UNCHANGED <<moved, result>>
    /\ UNCHANGED <<framed_arrived, framed_taken, framed_busy, ready, calls, rx, outs, sink, wbuf, blocked, framed_sent,
                   state, armed>>

\* FramedServiceImplResponse::poll: connect, then make the handler, then dispatch;
\* `ready` says whether the future polled is done.
poll_service ==
    /\ pc \in {"idle", "service"} /\ result = "none" /\ state \in {"Connect", "Handler"}
    /\ pc = "idle" => woken
    /\ woken' = IF pc = "idle" THEN FALSE ELSE woken
    /\ \/ /\ ~ready
          /\ armed' = armed \union {"service"} /\ pc' = "idle" /\ UNCHANGED <<state, result>>
       \/ /\ ready
          /\ state' = IF state = "Connect" THEN "Handler" ELSE "Processing"
          /\ pc' = IF state = "Connect" THEN "service" ELSE "poll"
          /\ UNCHANGED <<armed, result>>
       \/ /\ ready /\ Fails
          /\ result' = "error" /\ pc' = "idle" /\ UNCHANGED <<armed, state>>
    /\ UNCHANGED <<env, framed_taken, rx, sink, wbuf, framed_sent, moved>>

\* poll_read asks the service first; each item becomes a spawned call.
poll_read ==
    /\ pc = "read"
    /\ \/ /\ ~ready
          /\ armed' = armed \union {"service"} /\ pc' = "write"
          /\ UNCHANGED <<framed_taken, calls, state, moved>>
       \/ /\ ready /\ Fails /\ framed_busy < MaxBusy
          /\ state' = "Error"
          /\ IF Kind = "io" THEN pc' = "write" /\ moved' = TRUE
             ELSE pc' = Again("Error") /\ UNCHANGED moved
          /\ UNCHANGED <<framed_taken, calls, armed>>
       \/ /\ ready /\ framed_taken = framed_arrived /\ framed_taken < Eof
          /\ armed' = armed \union {"read"} /\ pc' = "write"
          /\ UNCHANGED <<framed_taken, calls, state, moved>>
       \/ /\ ready /\ framed_taken < framed_arrived /\ framed_taken < Len(Inputs) /\ Inputs[framed_taken + 1] = "item"
          /\ framed_taken' = framed_taken + 1 /\ calls' = calls \union {framed_taken'}
          /\ UNCHANGED <<state, moved, armed, pc>>
       \/ /\ ready /\ (framed_taken = Eof \/ framed_taken < framed_arrived)
          /\ IF framed_taken < Len(Inputs) THEN Inputs[framed_taken + 1] = "bad" ELSE TRUE
          /\ framed_taken' = IF framed_taken = Len(Inputs) THEN Eof ELSE framed_taken
          /\ state' = IF framed_taken >= Len(Inputs) THEN "Stopping" ELSE "FramedError"
          /\ IF Kind = "io" THEN pc' = "write" /\ moved' = TRUE
             ELSE pc' = Again(state') /\ UNCHANGED moved
          /\ UNCHANGED <<calls, armed>>
    /\ UNCHANGED <<framed_arrived, framed_busy, ready, rx, outs, sink, wbuf, blocked, framed_sent, woken, result>>

Full == Len(wbuf) >= HW
SinkMsgs == Len(SelectSeq(wbuf \o framed_sent, LAMBDA m : m.is = "out"))

\* poll_write fills the buffer from rx, then from the outgoing stream.
poll_write ==
    /\ pc = "write" /\ ~Full
    /\ \/ /\ rx # <<>> /\ Head(rx).is = "item"
          /\ rx' = Tail(rx) /\ wbuf' = Append(wbuf, Head(rx))
          /\ UNCHANGED <<state, pc, sink, moved, armed>>
       \/ /\ rx # <<>> /\ Head(rx).is \in {"error", "close"}
          /\ rx' = Tail(rx)
          /\ state' = IF Head(rx).is = "close" THEN "FlushAndStop" ELSE "Error"
          /\ pc' = Again(state') /\ moved' = FALSE
          /\ UNCHANGED <<wbuf, sink, armed>>
       \/ /\ rx = <<>> /\ sink = "some" /\ outs > SinkMsgs
          /\ IF SinkMsgs = Outs
             THEN /\ sink' = "none" /\ state' = "FlushAndStop"
                  /\ pc' = Again(state') /\ moved' = FALSE
                  /\ UNCHANGED wbuf
             ELSE /\ wbuf' = Append(wbuf, [is |-> "out", of |-> SinkMsgs + 1])
                  /\ UNCHANGED <<sink, state, pc, moved>>
          /\ armed' = armed \union {"rx"}
          /\ UNCHANGED rx
       \/ /\ rx = <<>> /\ (sink = "none" \/ outs = SinkMsgs)
          /\ armed' = armed \union {"rx"} \union (IF sink = "some" THEN {"out"} ELSE {})
          /\ pc' = "flush"
          /\ UNCHANGED <<rx, wbuf, state, sink, moved>>
    /\ UNCHANGED <<env, framed_taken, framed_sent, woken, result>>

buffer_full == pc = "write" /\ Full /\ pc' = "flush"
    /\ UNCHANGED <<env, framed_taken, rx, sink, wbuf, framed_sent, state, moved, armed, woken, result>>

\* A pending flush, or an empty buffer, ends poll_write and with it the poll.
Rest == IF Kind = "io" /\ moved THEN "read" ELSE "idle"

flush ==
    /\ pc = "flush"
    /\ \/ /\ wbuf = <<>>
          /\ pc' = Rest /\ moved' = FALSE
          /\ UNCHANGED <<wbuf, framed_sent, armed, state>>
       \/ /\ wbuf # <<>> /\ blocked
          /\ armed' = armed \union {"write"} /\ pc' = Rest /\ moved' = FALSE
          /\ UNCHANGED <<wbuf, framed_sent, state>>
       \/ /\ wbuf # <<>> /\ ~blocked
          /\ framed_sent' = framed_sent \o wbuf /\ wbuf' = <<>> /\ pc' = "write"
          /\ UNCHANGED <<armed, state, moved>>
       \/ /\ wbuf # <<>> /\ Fails
          /\ state' = "FramedError" /\ pc' = Again(state') /\ moved' = FALSE
          /\ UNCHANGED <<wbuf, framed_sent, armed>>
    /\ UNCHANGED <<env, framed_taken, rx, sink, woken, result>>

\* The states Error and FlushAndStop flush what there is and end.
\* dispatcher.rs takes one more message of rx before it stops.
framed_last ==
    /\ pc = "last"
    /\ LET extra == Kind = "io" /\ state = "FlushAndStop" /\ rx # <<>>
           buf == IF extra /\ Head(rx).is = "item" THEN Append(wbuf, Head(rx)) ELSE wbuf
           done == IF state = "Error" THEN "error" ELSE "ok"
       IN /\ rx' = IF extra THEN Tail(rx) ELSE rx
          /\ pc' = "idle"
          /\ \/ /\ buf = <<>> \/ (extra /\ Head(rx).is = "error")
                /\ result' = done /\ wbuf' = buf /\ UNCHANGED <<framed_sent, armed>>
             \/ /\ buf # <<>> /\ ~blocked
                /\ framed_sent' = framed_sent \o buf /\ wbuf' = <<>> /\ result' = done /\ UNCHANGED armed
             \/ /\ buf # <<>> /\ blocked
                /\ wbuf' = buf /\ armed' = armed \union {"write"} /\ UNCHANGED <<framed_sent, result>>
             \/ /\ buf # <<>> /\ Fails
                /\ wbuf' = buf /\ result' = done /\ UNCHANGED <<framed_sent, armed>>
    /\ UNCHANGED <<env, framed_taken, sink, state, moved, woken>>

FramedNext ==
    \/ framed_arrive \/ service_busy \/ service_ready \/ send_close \/ out_ready \/ block \/ unblock
    \/ \E c \in calls : call_done(c)
    \/ poll_service \/ framed_poll \/ poll_read \/ poll_write \/ buffer_full \/ flush \/ framed_last

FramedSpec == FramedInit /\ [][FramedNext]_framedVars

-----------------------------------------------------------------------------
Asleep == pc = "idle" /\ ~woken /\ result = "none"

\* A sleeping dispatcher has nothing to do: every source with something for it
\* would have woken it.
NoLostWakeup ==
    /\ Asleep /\ state \in {"Connect", "Handler"} => ~ready /\ "service" \in armed
    /\ Asleep /\ state = "Processing" =>
        /\ \/ ~ready /\ "service" \in armed
           \/ framed_taken = framed_arrived /\ "read" \in armed
        /\ Full \/ (rx = <<>> /\ "rx" \in armed)
        /\ wbuf # <<>> => blocked /\ "write" \in armed
        /\ sink = "some" /\ ~Full => (outs = SinkMsgs /\ "out" \in armed)

\* A response is written once, only for an item that was read.
WrittenOnce ==
    LET w == framed_sent \o wbuf
    IN /\ \A i, j \in DOMAIN w : w[i] = w[j] => i = j
       /\ \A i \in DOMAIN w : w[i].is = "item" => w[i].of <= framed_taken /\ w[i].of \notin calls

\* A dispatcher that ends well after Close has written all it took before; one
\* that goes on has lost nothing.
NothingDropped ==
    /\ state = "FlushAndStop" /\ result = "ok" /\ ~Fails => wbuf = <<>>
    /\ state = "Processing" => \A i \in 1 .. framed_taken :
          \/ i = Eof \/ i \in calls \/ Kind = "io"
          \/ \E j \in DOMAIN rx : rx[j].is # "close" /\ rx[j].of = i
          \/ \E j \in DOMAIN (framed_sent \o wbuf) : (framed_sent \o wbuf)[j] = [is |-> "item", of |-> i]

\* framed.rs: once the state is decided the same poll acts on it.  (In
\* dispatcher.rs a poll that has read the end of the stream reads it for ever.)
ActsOnState == Kind = "framed" /\ pc \in {"read", "write", "flush", "idle"} =>
    state = "Processing" \/ result # "none" \/ "write" \in armed \/ woken

FramedDispatcherSound == NoLostWakeup /\ WrittenOnce /\ NothingDropped /\ ActsOnState
=============================================================================
