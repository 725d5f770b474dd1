---------------------------- MODULE H1Dispatcher ----------------------------
(***************************************************************************)
(* The server's side of one HTTP/1 connection: Dispatcher::poll            *)
(* (src/http/h1/dispatcher.rs) with its codec (codec.rs) and the request   *)
(* payload it feeds (payload.rs).  A poll is the walk of pc through        *)
(* keepalive, read, request, response, flush and finish; d is the          *)
(* InnerDispatcher, with the payloads it shares with the services.  The    *)
(* service reads its payload inside its own poll.  The wire carries units: *)
(* the head of request n, a chunk and the end of its body, or what does    *)
(* not parse.                                                              *)
(***************************************************************************)
EXTENDS Integers, Sequences, SequencesExt, FiniteSets

CONSTANTS
  Configs,          \* what a client sends (units), how the service may answer (results: "empty",
                    \* "body", "close", "err") and the timers there are (ka, disc)
  MAX_PIPELINED_MESSAGES, HW_BUFFER_SIZE, MAX_BUFFER_SIZE,
  BodyItems         \* chunks of a response body

VARIABLES
  conf,                \* the configuration
  script, wire, fin,   \* what the client will send, what is unread, how its side ended
  d,                   \* InnerDispatcher and the payloads
  out,                 \* what the client was sent
  ka,                  \* ka_timer; late: its deadline is before ka_expire
  pc,                  \* where poll is
  call,                \* the caller of poll_request and its result, should_disconnect, drain
  woken,               \* woken while it was polled
  ret                  \* "running", or how the dispatcher ended
vars == <<conf, script, wire, fin, d, out, ka, pc, call, woken, ret>>

None == 0
Requests == 1..3
NoState == [t |-> "None", n |-> None, wait |-> "none"]
State_(t, n, wait) == [t |-> t, n |-> n, wait |-> wait]
is_empty == d.state.t = "None"

Init ==
  /\ conf \in Configs /\ script = conf.units /\ wire = <<>> /\ fin = "open" /\ out = <<>>
  /\ d = [flags |-> {"KEEPALIVE"}, state |-> NoState, messages |-> <<>>, payload |-> None,
          head |-> FALSE, ctype |-> "Close",
          read_buf |-> <<>>, write_buf |-> <<>>, error |-> "none", bad |-> "none", left |-> 0, te |-> TRUE,
          pl |-> [n \in Requests |-> [len |-> 0, got |-> 0, eof |-> FALSE, err |-> FALSE, need_read |-> TRUE,
                                      alive |-> FALSE, io_task |-> FALSE, ended |-> "no"]]]
  /\ ka = [t |-> IF conf.ka THEN "ka" ELSE "none", fired |-> FALSE, late |-> FALSE]
  /\ call = [back |-> "disc", updated |-> FALSE, disc |-> FALSE, drain |-> FALSE]
  /\ pc = "keepalive" /\ woken = FALSE /\ ret = "running"

Has(e, f) == f \in e.flags
Insert(e, fs) == [e EXCEPT !.flags = @ \cup fs]
Bad(e, p, name) == IF p THEN [e EXCEPT !.bad = name] ELSE e
At(p) == ret = "running" /\ pc = p
Ends(r) == ret' = r /\ pc' = "done"
-----------------------------------------------------------------------------
(* payload.rs *)
create(e, n) == [e EXCEPT !.payload = n, !.pl[n].alive = TRUE]
feed_data(e, n) ==
  [e EXCEPT !.pl[n].len = @ + 1, !.pl[n].need_read = e.pl[n].len + 1 < MAX_BUFFER_SIZE]
feed_eof(e) == [e EXCEPT !.pl[e.payload].eof = TRUE, !.payload = None]
set_error(e) == [e EXCEPT !.pl[e.payload].err = TRUE, !.payload = None]
TakePayloadError(e) == IF e.payload = None THEN e ELSE set_error(e)
Dropped(e) == e.payload # None /\ ~e.pl[e.payload].alive
Paused(e) == e.payload # None /\ e.pl[e.payload].alive /\ ~e.pl[e.payload].need_read

\* A service that reads takes all there is, then the error or the end, or waits for more.
Readable(e, n) == e.pl[n].len > 0 \/ e.pl[n].err \/ e.pl[n].eof
ReadAll(e, n) ==
  LET p == e.pl[n] IN
  [e EXCEPT !.pl[n] = [p EXCEPT !.len = 0, !.got = @ + p.len, !.need_read = TRUE, !.io_task = FALSE,
                                !.err = FALSE,
                                !.ended = IF p.err THEN "err" ELSE IF p.eof THEN "eof" ELSE "no"]]
ReadWakes(e, n) == e.pl[n].io_task
-----------------------------------------------------------------------------
(* codec.rs and the calls into the service *)
send_response(e, n, r) ==
  LET ctype == IF r = "close" THEN "Close" ELSE e.ctype IN
  [e EXCEPT !.ctype = ctype,
            !.flags = IF ctype = "KeepAlive" THEN @ \cup {"KEEPALIVE"} ELSE @ \ {"KEEPALIVE"},
            !.write_buf = Append(@, [t |-> "head", n |-> n, head |-> e.head, more |-> r = "body"]),
            !.left = IF r = "body" THEN BodyItems ELSE 0, !.te = ~e.head,
            !.state = IF r = "body" THEN State_("SendPayload", n, "none") ELSE NoState]
send_continue(e, n) == [e EXCEPT !.write_buf = Append(@, [t |-> "continue", n |-> n, head |-> FALSE, more |-> FALSE])]

\* One poll of the service's future for request n: it may read its payload, and answers or
\* stays pending.  One that waits for its payload does not answer before there is some.
ServiceOutcomes(e, n) ==
  {o \in [reads : BOOLEAN, r : conf.results \cup {"pending"}] :
     /\ o.reads => e.pl[n].alive
     /\ e.state.wait = "payload" /\ e.state.n = n /\ ~Readable(e, n) => o.r = "pending" /\ o.reads
     /\ o.reads /\ ~(e.pl[n].err \/ e.pl[n].eof) => o.r = "pending"}
PollService(e, n, o) ==
  LET e1 == IF o.reads THEN ReadAll(e, n) ELSE e IN
  IF o.r = "pending"
  THEN [e1 EXCEPT !.state = State_("ServiceCall", n, IF o.reads /\ e1.pl[n].ended = "no" THEN "payload" ELSE "other")]
  ELSE send_response([e1 EXCEPT !.pl[n].alive = FALSE], n, o.r)
Wakes(e, n, o) == o.reads /\ ReadWakes(e, n)

\* handle_request; x is what the expect service does with a request that expects 100.
ExpectOutcomes(u) == IF u.expect THEN {"ok", "pending", "body"} ELSE {"none"}
handle_request(e, u, x, o) ==
  CASE x = "pending" -> [e EXCEPT !.state = State_("ExpectCall", u.n, "other")]
    [] x = "body" -> send_response([e EXCEPT !.pl[u.n].alive = FALSE], u.n, "body")
    [] x = "ok" -> PollService(send_continue(e, u.n), u.n, o)
    [] x = "none" -> PollService(e, u.n, o)
-----------------------------------------------------------------------------
(* poll_request *)
can_read(e) == ~Has(e, "READ_DISCONNECT") /\ ~Dropped(e) /\ ~Paused(e)
\* A paused payload remembers the dispatcher's waker.
need_read(e) ==
  IF ~Has(e, "READ_DISCONNECT") /\ Paused(e) THEN [e EXCEPT !.pl[e.payload].io_task = TRUE] ELSE e

\* Where poll_request was called from: poll, or a poll_response that waits for its service.
Return(k) == IF k.back = "disc" THEN "disc" ELSE IF k.updated THEN "response" ELSE "flush"

poll_request(e, caller, disconnect) ==
  LET k == [call EXCEPT !.back = caller, !.updated = FALSE, !.disc = disconnect]
      full == Len(e.messages) >= MAX_PIPELINED_MESSAGES IN
  /\ call' = k
  /\ d' = IF full THEN e ELSE need_read(e)
  /\ pc' = IF ~full /\ can_read(e) THEN "decode" ELSE Return(k)

Message(t, u) == [t |-> t, n |-> u.n, expect |-> u.expect]
ErrorMessage == [t |-> "Error", n |-> None, expect |-> FALSE]
Refuse(e, error) == [Insert(e, {"READ_DISCONNECT"}) EXCEPT !.messages = Append(@, ErrorMessage), !.error = error]
DecodeBody(e, u) ==
  CASE u.t \in {"chunk", "eof"} /\ e.payload = None -> Refuse(e, "internal")
    [] u.t = "chunk" /\ e.payload # None -> Bad(feed_data(e, e.payload), e.payload # u.n, "wrong payload")
    [] u.t = "eof" /\ e.payload # None -> Bad(feed_eof(e), e.payload # u.n, "wrong payload")
    [] u.t = "badchunk" -> [Insert(TakePayloadError(e), {"READ_DISCONNECT", "WRITE_DISCONNECT"}) EXCEPT !.error = "io"]
    [] u.t = "bad" -> Refuse(TakePayloadError(e), "parse")
DecodeHead(e, u) ==
  LET e1 == [e EXCEPT !.head = u.head, !.ctype = u.ctype]
  IN IF u.body = "payload" THEN create(e1, u.n) ELSE e1
Queue(e, t, u) == [e EXCEPT !.messages = Append(@, Message(t, u))]

\* One turn of the decode loop, which ends with the buffer or at what breaks it.
Decode ==
  /\ At("decode")
  /\ IF d.read_buf = <<>>
     THEN pc' = Return(call) /\ UNCHANGED <<d, ka, call, woken>>
     ELSE LET u == Head(d.read_buf)
              parsed == u.t \notin {"bad", "badchunk"}
              e == [d EXCEPT !.read_buf = Tail(@), !.flags = IF parsed THEN @ \cup {"STARTED"} ELSE @]
              h == DecodeHead(e, u)
              k == [call EXCEPT !.updated = @ \/ parsed]
              stops == ~parsed \/ u.body = "stream" \/ (u.t \in {"chunk", "eof"} /\ e.payload = None) IN
          /\ call' = k
          /\ ka' = [ka EXCEPT !.late = @ \/ (ka.t # "none" /\ parsed)]
          /\ pc' = IF stops THEN Return(k) ELSE "decode"
          /\ \/ u.t # "req" /\ d' = DecodeBody(e, u) /\ UNCHANGED woken
             \/ u.t = "req" /\ u.body = "stream" /\ d' = Queue(h, "Upgrade", u) /\ UNCHANGED woken
             \/ u.t = "req" /\ u.body # "stream" /\ ~is_empty /\ d' = Queue(h, "Item", u) /\ UNCHANGED woken
             \/ /\ u.t = "req" /\ u.body # "stream" /\ is_empty
                /\ \E x \in ExpectOutcomes(u), o \in ServiceOutcomes(h, u.n) :
                     /\ d' = handle_request(h, u, x, o)
                     /\ woken' = (woken \/ Wakes(h, u.n, o))
  /\ UNCHANGED <<script, wire, fin, out, ret>>
-----------------------------------------------------------------------------
(* poll *)
Sleep == pc' = (IF woken THEN "keepalive" ELSE "asleep") /\ woken' = FALSE

poll_keepalive ==
  /\ At("keepalive")
  /\ LET next == IF Has(d, "SHUTDOWN") THEN "shutdown" ELSE "read"
         rearmed == [ka EXCEPT !.fired = FALSE, !.late = FALSE] IN
     \/ /\ ka.t = "none" /\ ~Has(d, "SHUTDOWN")
        /\ pc' = next /\ UNCHANGED <<d, ka, ret>>
     \/ /\ ka.t = "none" /\ Has(d, "SHUTDOWN") /\ conf.disc
        /\ ka' = [rearmed EXCEPT !.t = "ka"] /\ pc' = next /\ UNCHANGED <<d, ret>>
     \/ /\ ka.t = "none" /\ Has(d, "SHUTDOWN") /\ ~conf.disc
        /\ d' = Insert(TakePayloadError(d), {"READ_DISCONNECT"}) /\ pc' = next /\ UNCHANGED <<ka, ret>>
     \/ ka.t # "none" /\ ~ka.fired /\ pc' = next /\ UNCHANGED <<d, ka, ret>>
     \/ ka.fired /\ Has(d, "SHUTDOWN") /\ Ends("timeout") /\ UNCHANGED <<d, ka>>
     \/ /\ ka.fired /\ ~Has(d, "SHUTDOWN") /\ (ka.late \/ ~(is_empty /\ d.write_buf = <<>>))
        /\ ka' = rearmed /\ pc' = next /\ UNCHANGED <<d, ret>>
     \/ /\ ka.fired /\ ~Has(d, "SHUTDOWN") /\ ~ka.late /\ is_empty /\ d.write_buf = <<>>
        /\ d' = IF ~Has(d, "STARTED")
                THEN Insert(send_response(d, None, "empty"), {"STARTED", "SHUTDOWN"})
                ELSE Insert(d, {"SHUTDOWN"} \cup IF conf.disc THEN {} ELSE {"WRITE_DISCONNECT"})
        /\ ka' = IF Has(d, "STARTED") /\ conf.disc THEN rearmed ELSE ka
        /\ pc' = "shutdown" /\ UNCHANGED ret
  /\ UNCHANGED <<script, wire, fin, out, call, woken>>

\* What is left is written and the socket shut down; it may not be ready for either.
Shutdown ==
  /\ At("shutdown")
  /\ \/ Has(d, "WRITE_DISCONNECT") /\ Ends("ok") /\ UNCHANGED <<d, out, woken>>
     \/ /\ ~Has(d, "WRITE_DISCONNECT")
        /\ \E k \in 0..Len(d.write_buf) :
             /\ out' = out \o SubSeq(d.write_buf, 1, k)
             /\ d' = [d EXCEPT !.write_buf = SubSeq(@, k + 1, Len(@))]
             /\ \/ Sleep /\ UNCHANGED ret
                \/ k = Len(d.write_buf) /\ Ends("ok") /\ UNCHANGED woken
     \/ ~Has(d, "WRITE_DISCONNECT") /\ fin = "reset" /\ Ends("error") /\ UNCHANGED <<d, out, woken>>
  /\ UNCHANGED <<script, wire, fin, ka, call>>

\* read_available takes all there is; a reset after data counts as the end.
ReadAvailable ==
  /\ At("read")
  /\ \/ /\ Has(d, "READ_DISCONNECT")
        /\ poll_request(d, "disc", FALSE) /\ UNCHANGED <<wire, ret>>
     \/ /\ ~Has(d, "READ_DISCONNECT") /\ fin = "reset" /\ wire = <<>>
        /\ Ends("error") /\ UNCHANGED <<d, wire, call>>
     \/ /\ ~Has(d, "READ_DISCONNECT") /\ ~(fin = "reset" /\ wire = <<>>)
        /\ poll_request([d EXCEPT !.read_buf = @ \o wire], "disc", fin # "open") /\ wire' = <<>> /\ UNCHANGED ret
  /\ UNCHANGED <<script, fin, out, ka, woken>>

\* should_disconnect
Disconnect ==
  /\ At("disc")
  /\ d' = IF ~call.disc THEN d
          ELSE Insert(IF d.payload = None THEN d ELSE feed_eof(d), {"READ_DISCONNECT"})
  /\ pc' = "response"
  /\ UNCHANGED <<script, wire, fin, out, ka, call, woken, ret>>

\* poll_response, one turn of its loop.
Write(e, t, n) == IF e.te \/ t = "end" THEN [e EXCEPT !.write_buf = Append(@, [t |-> t, n |-> n, head |-> FALSE, more |-> FALSE])] ELSE e
NextMessage ==
  LET m == Head(d.messages)
      e == [d EXCEPT !.messages = Tail(@)] IN
  /\ is_empty
  /\ \/ d.messages = <<>> /\ pc' = "flush" /\ UNCHANGED <<d, woken, ret>>
     \/ /\ d.messages # <<>> /\ m.t = "Upgrade"
        /\ Ends("upgrade") /\ d' = e /\ UNCHANGED woken
     \/ /\ d.messages # <<>> /\ m.t = "Error"
        /\ d' = send_response(e, None, "empty") /\ pc' = "flush" /\ UNCHANGED <<woken, ret>>
     \/ /\ d.messages # <<>> /\ m.t = "Item"
        /\ \E x \in ExpectOutcomes(m), o \in ServiceOutcomes(e, m.n) :
             /\ d' = handle_request(e, m, x, o)
             /\ woken' = (woken \/ Wakes(e, m.n, o))
        /\ pc' = IF d'.state.t = "None" THEN "flush" ELSE "response"
        /\ UNCHANGED ret
  /\ call' = [call EXCEPT !.drain = FALSE]
PollExpect ==
  /\ d.state.t = "ExpectCall"
  /\ \/ /\ d' = [send_continue(d, d.state.n) EXCEPT !.state = State_("ServiceCall", d.state.n, "other")]
        /\ pc' = "response"
     \/ /\ d' = send_response([d EXCEPT !.pl[d.state.n].alive = FALSE], d.state.n, "body")
        /\ pc' = "response"
     \* still pending: with messages waiting the loop turns without an end
     \/ d' = Bad(d, d.messages # <<>>, "spins") /\ pc' = "flush"
  /\ call' = [call EXCEPT !.drain = FALSE]
  /\ UNCHANGED <<woken, ret>>
\* While the service is pending more is decoded, for the payload it may wait for.
PollServiceCall ==
  /\ d.state.t = "ServiceCall"
  /\ \E o \in ServiceOutcomes(d, d.state.n) :
       LET e == PollService(d, d.state.n, o) IN
       /\ woken' = (woken \/ Wakes(d, d.state.n, o))
       /\ \/ o.r = "pending" /\ poll_request(e, "response", FALSE)
          \/ /\ o.r # "pending" /\ d' = e
             /\ pc' = IF o.r = "err" THEN "flush" ELSE "response"
             /\ call' = [call EXCEPT !.drain = FALSE]
  /\ UNCHANGED ret
SendPayload ==
  LET n == d.state.n
      room == Len(d.write_buf) < HW_BUFFER_SIZE IN
  /\ d.state.t = "SendPayload"
  /\ \/ room /\ d.left > 0 /\ d' = Write([d EXCEPT !.left = @ - 1], "chunk", n) /\ pc' = "response" /\ UNCHANGED ret
     \/ room /\ d.left = 0 /\ d' = Write([d EXCEPT !.state = NoState], "end", n) /\ pc' = "response" /\ UNCHANGED ret
     \/ room /\ pc' = "flush" /\ UNCHANGED <<d, ret>>      \* the body is pending
     \/ room /\ d.left > 0 /\ Ends("error") /\ UNCHANGED d  \* or fails
     \/ ~room /\ pc' = "flush" /\ UNCHANGED <<d, ret>>
  /\ call' = [call EXCEPT !.drain = ~room]
  /\ UNCHANGED woken
poll_response ==
  /\ At("response")
  /\ NextMessage \/ PollExpect \/ PollServiceCall \/ SendPayload
  /\ UNCHANGED <<script, wire, fin, out, ka>>

poll_flush ==
  /\ At("flush")
  /\ \/ \E k \in 0..Len(d.write_buf) :
          /\ out' = out \o SubSeq(d.write_buf, 1, k)
          /\ d' = [d EXCEPT !.write_buf = SubSeq(@, k + 1, Len(@))]
          /\ pc' = IF k = Len(d.write_buf) /\ call.drain THEN "response" ELSE "finish"
          /\ UNCHANGED ret
     \/ fin = "reset" /\ d.write_buf # <<>> /\ Ends("error") /\ UNCHANGED <<d, out>>
  /\ UNCHANGED <<script, wire, fin, ka, call, woken>>

Finish ==
  LET e == IF Has(d, "READ_DISCONNECT") /\ is_empty THEN Insert(d, {"SHUTDOWN"}) ELSE d
      idle == is_empty /\ d.write_buf = <<>>
      close == Has(d, "STARTED") /\ ~Has(d, "KEEPALIVE") IN
  /\ At("finish")
  /\ \/ Has(d, "WRITE_DISCONNECT") /\ Ends("ok") /\ UNCHANGED <<d, woken>>
     \/ ~Has(d, "WRITE_DISCONNECT") /\ idle /\ d.error # "none" /\ Ends("error") /\ UNCHANGED <<d, woken>>
     \/ /\ ~Has(d, "WRITE_DISCONNECT") /\ idle /\ d.error = "none" /\ (close \/ Has(e, "SHUTDOWN"))
        /\ d' = Insert(e, {"SHUTDOWN"}) /\ pc' = "keepalive" /\ UNCHANGED <<woken, ret>>
     \/ /\ ~Has(d, "WRITE_DISCONNECT") /\ ~(idle /\ (d.error # "none" \/ close \/ Has(e, "SHUTDOWN")))
        /\ d' = e /\ Sleep /\ UNCHANGED ret
  /\ UNCHANGED <<script, wire, fin, out, ka, call>>
-----------------------------------------------------------------------------
(* The client, the socket, the timer and what the services wait for. *)
Wakes_ == IF pc = "asleep" THEN pc' = "keepalive" /\ UNCHANGED woken ELSE woken' = TRUE /\ UNCHANGED pc
ClientSends ==
  /\ ret = "running" /\ fin = "open" /\ script # <<>>
  /\ wire' = Append(wire, Head(script)) /\ script' = Tail(script) /\ Wakes_
  /\ UNCHANGED <<fin, d, out, ka, call, ret>>
ClientEnds ==
  /\ ret = "running" /\ fin = "open"
  /\ fin' \in {"eof", "reset"} /\ Wakes_
  /\ UNCHANGED <<script, wire, d, out, ka, call, ret>>
TimerFires ==
  /\ ret = "running" /\ pc = "asleep" /\ ka.t # "none" /\ ~ka.fired
  /\ ka' = [ka EXCEPT !.fired = TRUE] /\ pc' = "keepalive"
  /\ UNCHANGED <<script, wire, fin, d, out, call, woken, ret>>
\* The socket can be written, the service or the body goes on.
Ready ==
  /\ ret = "running" /\ pc = "asleep"
  /\ d.write_buf # <<>> \/ d.state.t \in {"ExpectCall", "SendPayload"} \/ d.state.wait = "other"
     \/ Has(d, "SHUTDOWN")
  /\ pc' = "keepalive"
  /\ UNCHANGED <<script, wire, fin, d, out, ka, call, woken, ret>>

Next ==
  /\ \/ poll_keepalive \/ Shutdown \/ ReadAvailable \/ Decode \/ Disconnect
     \/ poll_response \/ poll_flush \/ Finish
     \/ ClientSends \/ ClientEnds \/ TimerFires \/ Ready
  /\ UNCHANGED conf
Spec == Init /\ [][Next]_vars
-----------------------------------------------------------------------------
TypeOK ==
  /\ d.state.t \in {"None", "ExpectCall", "ServiceCall", "SendPayload"} /\ d.payload \in {None} \cup Requests
  /\ pc \in {"keepalive", "shutdown", "read", "decode", "disc", "response", "flush", "finish", "asleep", "done"}
  /\ ret \in {"running", "ok", "error", "timeout", "upgrade"}

\* A chunk goes to the payload of its own request, and a body's chunk always finds a payload:
\* the branches of poll_request that report an internal error are dead.  Nothing spins.
Sane == d.bad = "none" /\ d.error # "internal"

\* The responses go out whole and in the order of the requests.
Written == out \o d.write_buf
Heads == SelectSeq(Written, LAMBDA w : w.t = "head" /\ w.n # None)
ResponsesInOrder ==
  /\ \A i \in 1..Len(Heads) : Heads[i].n = i
  /\ \A i, j \in 1..Len(Written) :
       i < j /\ Written[i].t = "head" /\ Written[i].more /\ Written[j].t = "head" =>
         \E k \in i..j : Written[k].t = "end" /\ Written[k].n = Written[i].n

\* A dispatcher that sleeps has no request it could answer, and none it could decode unless
\* its body's reader will wake it.
SleepsSoundly ==
  pc = "asleep" /\ ~Has(d, "SHUTDOWN") =>
    /\ d.messages # <<>> => ~is_empty
    /\ d.read_buf # <<>> /\ is_empty /\ ~Has(d, "READ_DISCONNECT") => Dropped(d) \/ (Paused(d) /\ d.pl[d.payload].io_task)
    /\ d.state.wait = "payload" => ~Readable(d, d.state.n)

\* While the connection can still be read, the end of a body a reader sees is the end the
\* client sent: all its chunks came first.
EofIsTheEnd ==
  \A n \in Requests : d.pl[n].ended = "eof" /\ ~Has(d, "READ_DISCONNECT") =>
    d.pl[n].got = Len(SelectSeq(conf.units, LAMBDA u : u.t = "chunk" /\ u.n = n))

=============================================================================
