------------------------------ MODULE H2Streams ------------------------------
(* HTTP/2 streams: the state of one, and all of a connection's.             *)
EXTENDS Integers, Sequences, SequencesExt, FiniteSetsExt

(***************************************************************************)
(* The state of an HTTP/2 stream (src/http/h2/proto/streams/state.rs): the *)
(* transitions of Inner, as operators from a state to a state.  A          *)
(* transition the code refuses yields Refused.                             *)
(***************************************************************************)

Make(k, l, r, cause) == [k |-> k, l |-> l, r |-> r, cause |-> cause]
Idle == Make("Idle", "none", "none", "none")
ReservedLocal == Make("ReservedLocal", "none", "none", "none")
ReservedRemote == Make("ReservedRemote", "none", "none", "none")
Open(l, r) == Make("Open", l, r, "none")
HalfClosedLocal(r) == Make("HalfClosedLocal", "none", r, "none")
HalfClosedRemote(l) == Make("HalfClosedRemote", l, "none", "none")
Closed(cause) == Make("Closed", "none", "none", cause)
Refused == Make("Refused", "none", "none", "none")

AwaitingHeaders == "AwaitingHeaders"
Streaming == "Streaming"

is_closed(s) == s.k = "Closed"
is_idle(s) == s.k = "Idle"
is_scheduled_reset(s) == is_closed(s) /\ s.cause = "Scheduled"
is_local_reset(s) == is_closed(s) /\ s.cause \in {"LocallyReset", "Scheduled"}
is_reset(s) == is_closed(s) /\ s.cause # "EndStream"
is_send_streaming(s) == s.k \in {"Open", "HalfClosedRemote"} /\ s.l = Streaming
is_recv_streaming(s) == s.k \in {"Open", "HalfClosedLocal"} /\ s.r = Streaming
is_recv_headers(s) ==
  s.k \in {"Idle", "ReservedRemote"} \/ (s.k \in {"Open", "HalfClosedLocal"} /\ s.r = AwaitingHeaders)
is_recv_closed(s) == s.k \in {"Closed", "HalfClosedRemote", "ReservedLocal"}
is_send_closed(s) == s.k \in {"Closed", "HalfClosedLocal", "ReservedRemote"}

\* ensure_recv_open: whether more may come; an error for a reset stream.
ensure_recv_open(s) ==
  IF is_reset(s) THEN "error" ELSE IF is_recv_closed(s) THEN "closed" ELSE "open"

send_open(s, eos) ==
  CASE is_idle(s) ->
         IF eos THEN HalfClosedLocal(AwaitingHeaders) ELSE Open(Streaming, AwaitingHeaders)
    [] s.k = "Open" /\ s.l = AwaitingHeaders ->
         IF eos THEN HalfClosedLocal(s.r) ELSE Open(Streaming, s.r)
    [] (s.k = "HalfClosedRemote" /\ s.l = AwaitingHeaders) \/ s = ReservedLocal ->
         IF eos THEN Closed("EndStream") ELSE HalfClosedRemote(Streaming)
    [] OTHER -> Refused

\* recv_open; the stream is new when its state is Initial.
Initial(s) == s \in {Idle, ReservedRemote}
recv_open(s, eos) ==
  CASE is_idle(s) ->
         IF eos THEN HalfClosedRemote(AwaitingHeaders) ELSE Open(AwaitingHeaders, Streaming)
    [] s = ReservedRemote -> IF eos THEN Closed("EndStream") ELSE HalfClosedLocal(Streaming)
    [] s.k = "Open" /\ s.r = AwaitingHeaders ->
         IF eos THEN HalfClosedRemote(s.l) ELSE Open(s.l, Streaming)
    [] s.k = "HalfClosedLocal" /\ s.r = AwaitingHeaders ->
         IF eos THEN Closed("EndStream") ELSE HalfClosedLocal(Streaming)
    [] OTHER -> Refused

recv_close(s) ==
  CASE s.k = "Open" -> HalfClosedRemote(s.l)
    [] s.k = "HalfClosedLocal" -> Closed("EndStream")
    [] OTHER -> Refused

\* send_close panics in any other state.
send_close(s) ==
  CASE s.k = "Open" -> HalfClosedLocal(s.r)
    [] s.k = "HalfClosedRemote" -> Closed("EndStream")
    [] OTHER -> Refused

\* A reset that arrives is heeded unless the stream is closed and has nothing queued.
recv_reset(s, queued) == IF is_closed(s) /\ ~queued THEN s ELSE Closed("Proto")
recv_err(s) == IF is_closed(s) THEN s ELSE Closed("LocallyReset")
recv_eof(s) == IF is_closed(s) THEN s ELSE Closed("Io")

-----------------------------------------------------------------------------
(***************************************************************************)
(* The streams of one HTTP/2 connection (src/http/h2/proto/streams):       *)
(* store, counts, the send half (send.rs, prioritize.rs), the receive half *)
(* (recv.rs), and the handlers of streams.rs.  Everything lives behind one *)
(* mutex, so that a handler is one step; the connection's task and the     *)
(* threads that hold stream references interleave between handlers.        *)
(* Inner is the record c; an operator takes it and returns the next one,   *)
(* as the functions of the source do with &mut.  c.bad names the assertion *)
(* of the source that failed.  Server push is left out.                    *)
(***************************************************************************)

CONSTANTS
  Configs,       \* the connections of the run: records of what is defined from conf below
  MAX_WINDOW, max_frame_len

VARIABLES
  conf,          \* one of Configs, for good
  c,             \* Inner
  ops            \* calls and frames so far
vars == <<conf, c, ops>>

Server == conf.server      \* TRUE: this end is the server
Ids == conf.ids            \* stream ids; the client's are odd
Ops == conf.ops            \* the user's calls and the frames of the peer
ConnWindow == conf.conn
InitSendWindow == conf.swin
InitRecvWindow == conf.rwin
MaxSend == conf.max_send
MaxRecv == conf.max_recv
MaxReset == 1
Sizes == conf.sizes        \* of DATA, reservations, releases and window updates
Windows == conf.windows    \* values of settings
MaxOps == conf.max_ops     \* a bound

None == 0
Queues == {"send", "capacity", "open", "accept", "window_update", "reset"}
\* A stream that was forgotten may be entered again under its id, to be reset.
Again == 100
Keys == Ids \cup {i + Again : i \in Ids}
id(k) == k % Again
NoStream == [state |-> Refused]
Live(d) == {k \in Keys : d.stream[k] # NoStream}
is_local_init(i) == Server = (i % 2 = 0)
as_size(w) == IF w < 0 THEN 0 ELSE w

NewStream(swin, rwin) ==
  [state |-> Idle, counted |-> FALSE, refs |-> 0,
   swin |-> swin, savail |-> 0, requested |-> 0, buffered |-> 0, inc |-> FALSE,
   sendq |-> <<>>, stask |-> FALSE,
   rwin |-> rwin, ravail |-> rwin, inflight |-> 0, recvq |-> <<>>, rtask |-> FALSE]

Init ==
  /\ conf \in Configs
  /\ ops = 0
  /\ c = [stream |-> [k \in Keys |-> NoStream], ids |-> [i \in Ids |-> None],
          q |-> [q \in Queues |-> <<>>],
          swin |-> ConnWindow, savail |-> ConnWindow, sinit |-> InitSendWindow,
          rwin |-> ConnWindow, ravail |-> ConnWindow, rinit |-> InitRecvWindow, inflight |-> 0,
          num_send |-> 0, num_recv |-> 0, num_reset |-> 0, max_send |-> MaxSend,
          next_send |-> Min(Ids), next_recv |-> Min(Ids), last_processed |-> 0, max_id |-> Again, refused |-> None,
          target |-> ConnWindow,
          error |-> FALSE, codec |-> <<>>, last_data |-> "Nothing",
          task |-> FALSE, running |-> TRUE, phase |-> "open", bad |-> "none"]
-----------------------------------------------------------------------------
(* store.rs, stream.rs, counts.rs *)
push(d, q, k) == IF Contains(d.q[q], k) THEN d ELSE [d EXCEPT !.q[q] = Append(@, k)]
drop_head(d, q) == [d EXCEPT !.q[q] = Tail(@)]
Queued(d, q, k) == Contains(d.q[q], k)
find(d, i) == d.ids[i]
Assert_(d, p, name) == IF p \/ d.bad # "none" THEN d ELSE [d EXCEPT !.bad = name]
wake_conn(d) == IF d.task THEN [d EXCEPT !.task = FALSE, !.running = TRUE] ELSE d

StreamClosed(s) == is_closed(s.state) /\ s.sendq = <<>> /\ s.buffered = 0
is_send_ready(d, k) == ~Queued(d, "open", k)
is_released(d, k) ==
  /\ StreamClosed(d.stream[k]) /\ d.stream[k].refs = 0
  /\ \A q \in Queues : ~Queued(d, q, k)

\* A closed stream gives up its id (whoever holds it now), its place in the counts,
\* and, once nothing refers to it, its slab entry.
unlink(d, k, is_reset_counted) ==
  IF is_reset_counted
  THEN Assert_([d EXCEPT !.ids[id(k)] = None, !.num_reset = @ - 1], d.num_reset > 0, "num_reset")
  ELSE [d EXCEPT !.ids[id(k)] = None]
dec_num_streams(d, k) ==
  LET num == IF is_local_init(id(k)) THEN d.num_send ELSE d.num_recv IN
  Assert_([d EXCEPT !.stream[k].counted = FALSE,
                    !.num_send = IF is_local_init(id(k)) THEN @ - 1 ELSE @,
                    !.num_recv = IF is_local_init(id(k)) THEN @ ELSE @ - 1], num > 0, "num_streams")
remove(d, k) ==
  IF is_released(d, k)
  THEN Assert_([d EXCEPT !.stream[k] = NoStream], d.ids[id(k)] = None, "remove") ELSE d
Uncount(d, k) == remove(IF d.stream[k].counted THEN dec_num_streams(d, k) ELSE d, k)
transition_after(d, k, is_reset_counted) ==
  IF StreamClosed(d.stream[k])
  THEN Uncount(IF Queued(d, "reset", k) THEN d ELSE unlink(d, k, is_reset_counted), k) ELSE d

\* transition: d is the connection before the handler, e after it.
transition(d, e, k) == transition_after(e, k, Queued(d, "reset", k))
-----------------------------------------------------------------------------
(* prioritize.rs: connection capacity shared out among the streams *)
schedule_send(d, k) == IF is_send_ready(d, k) THEN wake_conn(push(d, "send", k)) ELSE d
queue_frame(d, k, f) == schedule_send([d EXCEPT !.stream[k].sendq = Append(@, f)], k)

Assign(d, k, n) ==
  IF n = 0 THEN d
  ELSE [d EXCEPT !.savail = @ - n, !.stream[k].savail = @ + n, !.stream[k].inc = TRUE,
                 !.stream[k].stask = @ /\ d.stream[k].savail + n <= d.stream[k].buffered]
\* What is still wanted waits for connection capacity, what is buffered to be sent.
Requeue(d, k) ==
  LET s == d.stream[k] IN
  [d EXCEPT
     !.q["capacity"] = IF s.savail < s.requested /\ s.swin >= 0 /\ s.swin > s.savail
                          /\ ~Contains(@, k) THEN Append(@, k) ELSE @,
     !.q["send"] = IF s.buffered > 0 /\ is_send_ready(d, k) /\ ~Contains(@, k)
                   THEN Append(@, k) ELSE @]
TryAssign(d, k, s) ==
  LET additional == Min({s.requested - as_size(s.savail), as_size(s.swin) - as_size(s.savail)}) IN
  IF additional = 0 THEN d
  ELSE Requeue(Assign(d, k, Min({as_size(d.savail), additional})), k)
try_assign_capacity(d, k) ==
  LET s == d.stream[k]
      sound == /\ s.requested >= s.savail /\ as_size(s.swin) >= as_size(s.savail)
               /\ Min({s.requested, as_size(s.swin)}) > as_size(s.savail)
                    => is_send_streaming(s.state) \/ s.buffered > 0
  IN TryAssign(Assert_(d, sound, "try_assign_capacity"), k, s)

AssignTo(d, k) == transition(d, try_assign_capacity(d, k), k)
RECURSIVE share_capacity(_)
share_capacity(d) ==
  IF d.savail <= 0 \/ d.q["capacity"] = <<>> THEN d
  ELSE LET k == Head(d.q["capacity"])
           s == d.stream[k]
       IN share_capacity(IF is_send_streaming(s.state) \/ s.buffered > 0
                         THEN AssignTo(drop_head(d, "capacity"), k) ELSE drop_head(d, "capacity"))

assign_connection_capacity(d, inc) == share_capacity([d EXCEPT !.savail = @ + inc])

\* What a stream has been assigned beyond n goes back to the connection.
reserve_capacity(d, k, n) ==
  LET s == d.stream[k]
      capacity == n + s.buffered
      diff == as_size(s.savail) - capacity
      d1 == [d EXCEPT !.stream[k].requested = capacity] IN
  IF capacity = s.requested THEN d
  ELSE IF capacity < s.requested
  THEN IF diff > 0
       THEN assign_connection_capacity([d1 EXCEPT !.stream[k].savail = @ - diff], diff) ELSE d1
  ELSE IF is_send_closed(s.state) THEN d ELSE try_assign_capacity(d1, k)

reclaim_all_capacity(d, k) ==
  LET available == as_size(d.stream[k].savail)
  IN assign_connection_capacity([d EXCEPT !.stream[k].savail = @ - available], available)

\* The code takes back what was requested, whether or not it was ever assigned.
reclaim_reserved_capacity(d, k) ==
  LET s == d.stream[k]
      reserved == s.requested - s.buffered
  IN IF reserved <= 0 THEN d
     ELSE assign_connection_capacity([d EXCEPT !.stream[k].savail = @ - reserved], reserved)

clear_queue(d, k) ==
  [d EXCEPT !.stream[k].sendq = <<>>, !.stream[k].buffered = 0, !.stream[k].requested = 0,
            !.last_data = IF d.codec # <<>> /\ @ = "Frame" /\ d.codec[1].key = k THEN "Drop" ELSE @]
-----------------------------------------------------------------------------
(* send.rs *)
SetState(d, k, st) == [d EXCEPT !.stream[k].state = st]

\* A stream of our own is counted, or waits while there are too many.
CountSend(d, k) ==
  IF ~is_local_init(id(k)) THEN d
  ELSE IF d.num_send < d.max_send THEN [d EXCEPT !.stream[k].counted = TRUE, !.num_send = @ + 1]
  ELSE push(d, "open", k)
send_headers(d, k, eos) ==
  queue_frame(CountSend(SetState(d, k, send_open(d.stream[k].state, eos)), k),
              k, [t |-> "headers", len |-> 0, eos |-> eos])

QueueData(d, k, f) ==
  IF d.stream[k].savail > 0 \/ d.stream[k].buffered = 0 THEN queue_frame(d, k, f)
  ELSE [d EXCEPT !.stream[k].sendq = Append(@, f)]
RequestBuffered(d, k) ==
  IF d.stream[k].requested < d.stream[k].buffered
  THEN try_assign_capacity([d EXCEPT !.stream[k].requested = d.stream[k].buffered], k) ELSE d
EndData(d, k, eos) ==
  IF eos THEN reserve_capacity(SetState(d, k, send_close(d.stream[k].state)), k, 0) ELSE d
send_data(d, k, len, eos) ==
  QueueData(EndData(RequestBuffered([d EXCEPT !.stream[k].buffered = @ + len], k), k, eos),
            k, [t |-> "data", len |-> len, eos |-> eos])

send_trailers(d, k) ==
  LET d1 == SetState(d, k, send_close(d.stream[k].state))
  IN reserve_capacity(queue_frame(d1, k, [t |-> "headers", len |-> 0, eos |-> TRUE]), k, 0)

send_reset(d, k) ==
  LET s == d.stream[k]
      d1 == SetState(d, k, Closed("LocallyReset"))
      f == [t |-> "reset", len |-> 0, eos |-> TRUE] IN
  IF is_reset(s.state) THEN d
  ELSE IF is_closed(s.state) /\ s.sendq = <<>> THEN d1
  ELSE reclaim_all_capacity(queue_frame(clear_queue(d1, k), k, f), k)

schedule_implicit_reset(d, k) ==
  IF is_closed(d.stream[k].state) THEN d
  ELSE schedule_send(reclaim_reserved_capacity(SetState(d, k, Closed("Scheduled")), k), k)

\* A window that would overflow resets the stream; the error goes to the caller.
SendWindowOverflows(d, k, inc) ==
  ~(is_send_closed(d.stream[k].state) /\ d.stream[k].buffered = 0) /\ d.stream[k].swin + inc > MAX_WINDOW
recv_stream_window_update(d, k, inc) ==
  LET s == d.stream[k] IN
  IF is_send_closed(s.state) /\ s.buffered = 0 THEN d
  ELSE IF SendWindowOverflows(d, k, inc) THEN send_reset(d, k)
  ELSE try_assign_capacity([d EXCEPT !.stream[k].swin = @ + inc], k)

send_recv_err(d, k) == reclaim_all_capacity(clear_queue(d, k), k)
-----------------------------------------------------------------------------
(* recv.rs *)
unclaimed(win, avail) == IF win >= avail \/ avail - win < win \div 2 THEN 0 ELSE avail - win

release_connection_capacity(d, n, wakes) ==
  LET d1 == [d EXCEPT !.inflight = @ - n, !.ravail = @ + n]
  IN IF wakes /\ unclaimed(d1.rwin, d1.ravail) > 0 THEN wake_conn(d1) ELSE d1

release_capacity(d, k, n) ==
  LET d1 == release_connection_capacity(d, n, TRUE)
      d2 == [d1 EXCEPT !.stream[k].inflight = @ - n, !.stream[k].ravail = @ + n]
  IN IF unclaimed(d2.stream[k].rwin, d2.stream[k].ravail) > 0
     THEN wake_conn(push(d2, "window_update", k)) ELSE d2

release_closed_capacity(d, k) ==
  LET n == d.stream[k].inflight
  IN IF n = 0 THEN d
     ELSE [release_connection_capacity(d, n, TRUE) EXCEPT
             !.stream[k].inflight = 0, !.stream[k].recvq = <<>>]

\* Room is made by forgetting the stream that was reset first.
EnqueueReset(d, k) ==
  IF d.num_reset < MaxReset THEN push([d EXCEPT !.num_reset = @ + 1], "reset", k) ELSE d
enqueue_reset_expiration(d, k) ==
  IF ~is_local_reset(d.stream[k].state) \/ Queued(d, "reset", k) THEN d
  ELSE EnqueueReset(IF d.num_reset >= MaxReset /\ d.q["reset"] # <<>>
                    THEN transition_after(drop_head(d, "reset"), Head(d.q["reset"]), TRUE) ELSE d, k)

\* Events for the user: the length of a DATA frame, or one of these.  Its task is woken.
HeadersEvent == -1
TrailersEvent == -2
Deliver(d, k, e) == [d EXCEPT !.stream[k].recvq = Append(@, e), !.stream[k].rtask = FALSE]
NotifyAll(d, k) == [d EXCEPT !.stream[k].rtask = FALSE, !.stream[k].stask = FALSE]

Ok(d) == [d |-> d, res |-> "ok"]
ConnError(d) == [d |-> d, res |-> "connection"]
StreamError(d) == [d |-> d, res |-> "stream"]

\* Streams::send_reset, for a stream that may have been forgotten.
ResetStream(d, k) ==
  transition(d, [enqueue_reset_expiration(send_reset(d, k), k) EXCEPT !.stream[k].rtask = FALSE], k)
streams_send_reset(d, i) ==
  LET k == IF d.stream[i] = NoStream THEN i ELSE i + Again IN
  IF find(d, i) # None THEN ResetStream(d, find(d, i))
  ELSE ResetStream([d EXCEPT !.stream[k] = NewStream(0, 0), !.ids[i] = k], k)

reset_on_recv_stream_err(r, k) == IF r.res = "stream" THEN Ok(send_reset(r.d, k)) ELSE r

CountRecv(d, k) ==
  [Assert_(d, d.num_recv < MaxRecv, "inc_num_recv_streams") EXCEPT
     !.last_processed = Max({@, id(k)}), !.num_recv = @ + 1, !.stream[k].counted = TRUE]
\* A request with too large a header is answered and then cancelled.
AnswerOversize(d, k) ==
  enqueue_reset_expiration(schedule_implicit_reset(send_headers(d, k, TRUE), k), k)
DeliverHeaders(d, k, initial, fault) ==
  CASE fault = "none" -> Ok(IF Server THEN push(Deliver(d, k, HeadersEvent), "accept", k)
                            ELSE Deliver(d, k, HeadersEvent))
    [] fault = "oversize" /\ Server /\ initial -> Ok(AnswerOversize(d, k))
    [] OTHER -> StreamError(d)
\* recv_headers of a stream that expects them.
recv_open_headers(d, k, eos, fault) ==
  LET s == d.stream[k]
      d1 == SetState(d, k, recv_open(s.state, eos))
  IN DeliverHeaders(IF Initial(s.state) THEN CountRecv(d1, k) ELSE d1, k, Initial(s.state), fault)

recv_trailers(d, k, fault) ==
  LET st == recv_close(d.stream[k].state) IN
  IF st = Refused THEN ConnError(d)
  ELSE IF fault # "none" THEN StreamError(SetState(d, k, st))
  ELSE Ok(Deliver(SetState(d, k, st), k, TrailersEvent))

consume_connection_window(d, len) == [d EXCEPT !.rwin = @ - len, !.ravail = @ - len, !.inflight = @ + len]
ignore_data(d, len) == release_connection_capacity(consume_connection_window(d, len), len, FALSE)

recv_stream_data(d, k, len, eos, fault) ==
  LET s == d.stream[k]
      d1 == consume_connection_window(d, len)
      d2 == IF eos THEN SetState(d1, k, recv_close(s.state)) ELSE d1
      d3 == [d2 EXCEPT !.stream[k].rwin = @ - len, !.stream[k].ravail = @ - len,
                       !.stream[k].inflight = @ + len] IN
  IF ~is_local_reset(s.state) /\ ~is_recv_streaming(s.state) THEN ConnError(d)
  ELSE IF as_size(d.rwin) < len THEN ConnError(d)
  ELSE IF is_local_reset(s.state) THEN Ok(ignore_data(d, len))
  ELSE IF as_size(s.rwin) < len \/ fault # "none" THEN StreamError(release_connection_capacity(d1, len, FALSE))
  ELSE Ok(Deliver(d3, k, len))
-----------------------------------------------------------------------------
(* streams.rs: the handlers of frames.  The connection ends on a connection error *)
(* and resets the stream on a stream error (connection.rs, poll).                 *)
\* Store::for_each, in the order of the ids.
ForEach(d, is, f(_, _)) ==
  FoldLeft(LAMBDA e, i : IF e.ids[i] = None THEN e ELSE f(e, e.ids[i]), d, SetToSortSeq(is, <))

recv_err_one(d, k) ==
  transition(d, send_recv_err(NotifyAll(SetState(d, k, recv_err(d.stream[k].state)), k), k), k)
recv_eof_one(d, k) ==
  transition(d, send_recv_err(NotifyAll(SetState(d, k, recv_eof(d.stream[k].state)), k), k), k)
recv_err_all(d, is) == [ForEach(d, is, recv_err_one) EXCEPT !.error = TRUE]

recv_go_away(d, last) ==
  IF last > d.max_id THEN ConnError(d)
  ELSE Ok(recv_err_all([d EXCEPT !.max_id = last], {i \in Ids : i > last}))

Handled(r, i) ==
  CASE r.res = "ok" -> r.d
    [] r.res = "stream" -> streams_send_reset(r.d, i)
    [] r.res = "connection" -> [recv_err_all(r.d, Ids) EXCEPT !.phase = "closing"]

may_have_forgotten(d, i) == IF is_local_init(i) THEN i < d.next_send ELSE i < d.next_recv

OpenRecv(d, i) ==
  IF is_local_init(i) \/ i < d.next_recv THEN ConnError(d)
  ELSE IF d.num_recv >= MaxRecv THEN [Ok([d EXCEPT !.next_recv = i + 2, !.refused = i]) EXCEPT !.res = "refused"]
  ELSE Ok([d EXCEPT !.next_recv = i + 2, !.stream[i] = NewStream(d.sinit, d.rinit), !.ids[i] = i])

Transitioned(d, r, k) == [r EXCEPT !.d = transition(d, r.d, k)]
\* A trailers frame without END_STREAM is returned past reset_on_recv_stream_err.
HeadersOf(d, k, eos, fault) ==
  LET s == d.stream[k] IN
  IF is_local_reset(s.state) THEN Ok(d)
  ELSE IF is_recv_headers(s.state)
  THEN Transitioned(d, reset_on_recv_stream_err(recv_open_headers(d, k, eos, fault), k), k)
  ELSE IF eos THEN Transitioned(d, reset_on_recv_stream_err(recv_trailers(d, k, fault), k), k)
  ELSE Transitioned(d, StreamError(d), k)
Opened(o, i, eos, fault) ==
  CASE o.res = "ok" -> HeadersOf(o.d, i, eos, fault)
    [] o.res = "refused" -> Ok(o.d)
    [] o.res = "connection" -> o
recv_headers(d, i, eos, fault) ==
  IF i > d.max_id THEN Ok(d)
  ELSE IF find(d, i) # None THEN HeadersOf(d, find(d, i), eos, fault)
  ELSE IF ~Server /\ may_have_forgotten(d, i) THEN StreamError(d)
  ELSE Opened(OpenRecv(d, i), i, eos, fault)

recv_data(d, i, len, eos, fault) ==
  LET k == find(d, i) IN
  IF k # None
  THEN Transitioned(d, reset_on_recv_stream_err(recv_stream_data(d, k, len, eos, fault), k), k)
  ELSE IF i > d.max_id THEN Ok(d)
  ELSE IF ~may_have_forgotten(d, i) \/ as_size(d.rwin) < len THEN ConnError(d)
  ELSE StreamError(ignore_data(d, len))

recv_reset_frame(d, i) ==
  LET k == find(d, i)
      d1 == NotifyAll(SetState(d, k, recv_reset(d.stream[k].state, Queued(d, "send", k))), k) IN
  IF i > d.max_id THEN Ok(d)
  ELSE IF k # None THEN Ok(transition(d, send_recv_err(d1, k), k))
  ELSE IF may_have_forgotten(d, i) THEN Ok(d) ELSE ConnError(d)

recv_window_update(d, i, inc) ==
  LET k == find(d, i) IN
  IF i = 0 THEN IF d.swin + inc > MAX_WINDOW THEN ConnError(d)
                ELSE Ok(assign_connection_capacity([d EXCEPT !.swin = @ + inc], inc))
  ELSE IF k # None THEN Ok(recv_stream_window_update(d, k, inc))
  ELSE IF may_have_forgotten(d, i) THEN Ok(d) ELSE ConnError(d)

\* SETTINGS: a new MAX_CONCURRENT_STREAMS, or a new INITIAL_WINDOW_SIZE that moves the
\* window of every stream; a smaller one takes back what was assigned beyond it.
Shrink(d, dec) ==
  LET linked == {d.ids[i] : i \in Ids} \ {None}
      reclaim(k) == Max({0, as_size(d.stream[k].savail) - as_size(d.stream[k].swin - dec)})
  IN assign_connection_capacity(
       [d EXCEPT !.stream = [k \in Keys |->
          IF k \in linked THEN [@[k] EXCEPT !.swin = @ - dec, !.savail = @ - reclaim(k)] ELSE @[k]]],
       MapThenSumSet(reclaim, linked))
GrowOne(r, i, inc) ==
  LET k == r.d.ids[i] IN
  IF r.res # "ok" \/ k = None THEN r
  ELSE [d |-> recv_stream_window_update(r.d, k, inc),
        res |-> IF SendWindowOverflows(r.d, k, inc) THEN "connection" ELSE "ok"]
Grow(d, inc) == FoldLeft(LAMBDA r, i : GrowOne(r, i, inc), Ok(d), SetToSortSeq(Ids, <))

apply_remote_settings(d, val) ==
  LET d1 == [d EXCEPT !.sinit = val] IN
  CASE val < d.sinit -> Ok(Shrink(d1, d.sinit - val))
    [] val > d.sinit -> Grow(d1, val - d.sinit)
    [] OTHER -> Ok(d)
apply_max_concurrent(d, max) == Ok([d EXCEPT !.max_send = max])

apply_local_settings(d, val) ==
  [d EXCEPT !.rinit = val, !.stream = [k \in Keys |->
     IF \E i \in Ids : d.ids[i] = k
     THEN [@[k] EXCEPT !.rwin = @ + val - d.rinit, !.ravail = @ + val - d.rinit] ELSE @[k]]]

\* A target below what is out is met by handing back less.
set_target_connection_window(d, target) ==
  LET current == d.ravail + d.inflight
      d1 == [d EXCEPT !.ravail = @ + target - current, !.target = target]
      d2 == Assert_(d1, current >= 0, "set_target_connection_window")
  IN IF unclaimed(d2.rwin, d2.ravail) > 0 THEN wake_conn(d2) ELSE d2
-----------------------------------------------------------------------------
(* prioritize.rs and recv.rs: what the connection's task writes *)
reclaim_frame(d) ==
  LET f == d.codec[1]
      d1 == [d EXCEPT !.codec = <<>>, !.last_data = "Nothing"]
      back == [d1 EXCEPT !.stream[f.key].sendq = <<[t |-> "data", len |-> f.rest, eos |-> f.eos]>> \o @] IN
  IF d.codec = <<>> THEN d
  ELSE IF d.last_data = "Drop" \/ f.rest = 0 THEN d1
  ELSE IF d1.stream[f.key] = NoStream THEN Assert_(d1, FALSE, "dangling store key")
  ELSE IF d1.stream[f.key].savail > 0 THEN push(back, "send", f.key) ELSE back

RECURSIVE schedule_pending_open(_)
schedule_pending_open(d) ==
  IF d.num_send >= d.max_send \/ d.q["open"] = <<>> THEN d
  ELSE LET k == Head(d.q["open"])
           d1 == [drop_head(d, "open") EXCEPT
                    !.num_send = @ + 1, !.stream[k].counted = TRUE, !.stream[k].stask = FALSE]
       IN schedule_pending_open(push(d1, "send", k))

SendDataFrame(d, k, f) ==
  LET s == d.stream[k]
      len == Min({f.len, max_frame_len, as_size(s.savail)})
      d1 == [d EXCEPT !.stream[k].sendq = Tail(@), !.stream[k].swin = @ - len, !.stream[k].savail = @ - len,
                      !.stream[k].buffered = @ - len, !.stream[k].requested = @ - len,
                      !.swin = @ - len, !.last_data = "Frame",
                      !.codec = <<[key |-> k, rest |-> f.len - len, eos |-> f.eos]>>]
  IN Assert_(d1, len <= as_size(d.swin) /\ len <= as_size(s.swin) /\ len <= s.buffered /\ len <= s.requested,
             "send_data")

\* A stream that has more to send goes to the back of the queue.
Popped(d, k) ==
  LET s == d.stream[k]
      more == s.sendq # <<>> \/ is_scheduled_reset(s.state)
  IN IF more THEN push(d, "send", k) ELSE d

RECURSIVE pop_frame(_)
pop_frame(d) ==
  IF d.q["send"] = <<>> THEN [d |-> d, sent |-> FALSE]
  ELSE LET k == Head(d.q["send"])
           d1 == drop_head(d, "send")
           s == d1.stream[k]
           f == Head(s.sendq)
           counted == Queued(d, "reset", k)
           Sent(e) == [d |-> transition_after(Popped(e, k), k, counted), sent |-> TRUE]
       IN CASE s.sendq = <<>> /\ is_scheduled_reset(s.state) -> Sent(SetState(d1, k, Closed("LocallyReset")))
            [] s.sendq = <<>> /\ ~is_scheduled_reset(s.state) ->
                 pop_frame(transition_after(Assert_(d1, is_closed(s.state), "pop_frame"), k, counted))
            [] s.sendq # <<>> /\ f.t = "data" /\ f.len > 0 /\ s.savail = 0 -> pop_frame(d1)
            [] s.sendq # <<>> /\ f.t = "data" /\ ~(f.len > 0 /\ s.savail = 0) -> Sent(SendDataFrame(d1, k, f))
            [] s.sendq # <<>> /\ f.t # "data" -> Sent([d1 EXCEPT !.stream[k].sendq = Tail(@)])

SendWindowUpdate(d) ==
  LET k == Head(d.q["window_update"])
      d1 == drop_head(d, "window_update")
      n == unclaimed(d1.stream[k].rwin, d1.stream[k].ravail)
      d2 == IF is_recv_streaming(d1.stream[k].state) THEN [d1 EXCEPT !.stream[k].rwin = @ + n] ELSE d1
  IN transition(d1, d2, k)

\* One turn of poll_complete, up to the next point where the socket may not be ready;
\* with nothing left to write the task leaves its waker and sleeps.
FlushFrame(p) == IF p.sent THEN p.d ELSE [p.d EXCEPT !.task = TRUE, !.running = FALSE]
poll_complete(d) ==
  LET unsent == unclaimed(d.rwin, d.ravail) IN
  CASE d.refused # None -> [d EXCEPT !.refused = None]
    [] d.refused = None /\ unsent > 0 -> [d EXCEPT !.rwin = d.ravail]
    [] d.refused = None /\ unsent = 0 /\ d.q["window_update"] # <<>> -> SendWindowUpdate(d)
    [] d.refused = None /\ unsent = 0 /\ d.q["window_update"] = <<>> ->
         FlushFrame(pop_frame(schedule_pending_open(reclaim_frame(d))))

ClearOne(d, q) ==
  LET k == Head(d.q[q])
  IN transition_after(drop_head(d, q), k, IF q = "reset" THEN TRUE
                                         ELSE IF q = "accept" THEN FALSE ELSE Queued(d, "reset", k))
RECURSIVE ClearQueue(_, _)
ClearQueue(d, q) == IF d.q[q] = <<>> THEN d ELSE ClearQueue(ClearOne(d, q), q)

recv_eof_all(d, clear_pending_accept) ==
  LET d1 == [ForEach(d, Ids, recv_eof_one) EXCEPT !.error = TRUE]
      d2 == ClearQueue(ClearQueue(d1, "window_update"), "reset")
      d3 == IF clear_pending_accept THEN ClearQueue(d2, "accept") ELSE d2
  IN ClearQueue(ClearQueue(ClearQueue(d3, "capacity"), "send"), "open")

LastRefDropped(d, k) ==
  release_closed_capacity(
    IF is_closed(d.stream[k].state) THEN d ELSE enqueue_reset_expiration(schedule_implicit_reset(d, k), k), k)
Unref(d, k) ==
  IF d.stream[k].refs > 0 THEN d
  ELSE LastRefDropped(IF StreamClosed(d.stream[k]) THEN wake_conn(d) ELSE d, k)
drop_stream_ref(d, k) == transition(d, Unref([d EXCEPT !.stream[k].refs = @ - 1], k), k)
-----------------------------------------------------------------------------
(* The user's calls; each holds a reference to its stream. *)
Do(op, d) == op \in Ops /\ ops < MaxOps /\ ops' = ops + 1 /\ c' = d /\ UNCHANGED conf
Held == {k \in Live(c) : c.stream[k].refs > 0}

send_request(eos) ==
  LET i == c.next_send
      d1 == [c EXCEPT !.next_send = i + 2, !.stream[i] = NewStream(c.sinit, c.rinit), !.ids[i] = i] IN
  /\ ~Server /\ ~c.error /\ i \in Ids /\ c.stream[i] = NoStream
  /\ Do("request", [send_headers(d1, i, eos) EXCEPT !.stream[i].refs = 1])

next_incoming ==
  /\ c.q["accept"] # <<>>
  /\ Do("accept", [drop_head(c, "accept") EXCEPT !.stream[Head(c.q["accept"])].refs = @ + 1])

send_response(k, eos) ==
  /\ Server /\ send_open(c.stream[k].state, eos) # Refused
  /\ Do("response", transition(c, send_headers(c, k, eos), k))

UserSendData(k, len, eos) ==
  is_send_streaming(c.stream[k].state) /\ Do("data", transition(c, send_data(c, k, len, eos), k))
UserSendTrailers(k) ==
  is_send_streaming(c.stream[k].state) /\ Do("trailers", transition(c, send_trailers(c, k), k))
UserSendReset(k) == Do("reset", ResetStream(c, k))
UserReserve(k, n) ==
  /\ is_send_streaming(c.stream[k].state)
  /\ IF n + c.stream[k].buffered < c.stream[k].requested
     THEN Do("unreserve", reserve_capacity(c, k, n)) ELSE Do("reserve", reserve_capacity(c, k, n))
UserRelease(k, n) ==
  n > 0 /\ n <= c.stream[k].inflight /\ Do("release", release_capacity(c, k, n))
UserClone(k) == c.stream[k].refs < 2 /\ Do("clone", [c EXCEPT !.stream[k].refs = @ + 1])
UserDrop(k) == Do("drop", drop_stream_ref(c, k))

poll_capacity(k) ==
  /\ is_send_streaming(c.stream[k].state)
  /\ c' = IF c.stream[k].inc THEN [c EXCEPT !.stream[k].inc = FALSE] ELSE [c EXCEPT !.stream[k].stask = TRUE]
  /\ UNCHANGED <<conf, ops>>

\* poll_response, poll_data and poll_trailers: the next event, or the reader sleeps.
poll_recv(k) ==
  LET s == c.stream[k] IN
  /\ c' = IF s.recvq # <<>> THEN [c EXCEPT !.stream[k].recvq = Tail(@)]
          ELSE IF ensure_recv_open(s.state) = "open" THEN [c EXCEPT !.stream[k].rtask = TRUE] ELSE c
  /\ UNCHANGED <<conf, ops>>
-----------------------------------------------------------------------------
(* The peer's frames, and the connection's task. *)
\* connection.rs, poll2: the frame goes to its handler; EOF ends every stream.
recv_frame(d, f) ==
  CASE f.t = "headers" -> recv_headers(d, f.id, f.eos, f.fault)
    [] f.t = "rdata" -> recv_data(d, f.id, f.n, f.eos, f.fault)
    [] f.t = "rreset" -> recv_reset_frame(d, f.id)
    [] f.t = "update" -> recv_window_update(d, f.id, f.n)
    [] f.t = "settings" -> apply_remote_settings(d, f.n)
    [] f.t = "max" -> apply_max_concurrent(d, f.n)
    [] f.t = "ack" -> Ok(apply_local_settings(d, f.n))
    [] f.t = "goaway" -> recv_go_away(d, f.id)
    [] f.t = "eof" -> Ok([recv_eof_all(d, FALSE) EXCEPT !.phase = "closing"])
Frame(t, i, n, eos, fault) == [t |-> t, id |-> i, n |-> n, eos |-> eos, fault |-> fault]
Frames ==
  {f \in
    {Frame("headers", i, 0, eos, fault) : i \in Ids, eos \in BOOLEAN, fault \in {"none", "length", "oversize"}}
    \cup {Frame("rdata", i, n, eos, fault) : i \in Ids, n \in Sizes, eos \in BOOLEAN, fault \in {"none", "length"}}
    \cup {Frame("rreset", i, 0, FALSE, "none") : i \in Ids}
    \cup {Frame("goaway", i - 1, 0, FALSE, "none") : i \in Ids}
    \cup {Frame("update", i, n, FALSE, "none") : i \in Ids \cup {0}, n \in Sizes \ {0}}
    \cup {Frame(t, 0, w, FALSE, "none") : t \in {"settings", "max", "ack"}, w \in Windows}
    \cup {Frame("eof", 0, 0, FALSE, "none")} : f.t \in Ops}
Receive(f) ==
  /\ c.phase = "open" /\ c.refused = None
  /\ Do(f.t, [Handled(recv_frame(c, f), f.id) EXCEPT !.running = TRUE])
SetTarget(n) == c.phase = "open" /\ Do("target", set_target_connection_window(c, n))

PollComplete == c.phase = "open" /\ c.running /\ c' = poll_complete(c) /\ UNCHANGED <<conf, ops>>
ExpireReset ==
  /\ c.phase = "open" /\ c.running /\ c.q["reset"] # <<>>
  /\ c' = transition_after(drop_head(c, "reset"), Head(c.q["reset"]), TRUE)
  /\ UNCHANGED <<conf, ops>>
DropConnection ==
  /\ c.phase # "dropped"
  /\ Do("end", [recv_eof_all(c, TRUE) EXCEPT !.phase = "dropped", !.running = FALSE])

Next ==
  \/ \E eos \in BOOLEAN : send_request(eos)
  \/ next_incoming
  \/ \E k \in Held :
       \/ \E eos \in BOOLEAN : send_response(k, eos)
       \/ \E len \in Sizes, eos \in BOOLEAN : UserSendData(k, len, eos)
       \/ UserSendTrailers(k) \/ UserSendReset(k) \/ UserClone(k) \/ UserDrop(k)
       \/ \E n \in Sizes : UserReserve(k, n) \/ UserRelease(k, n)
       \/ poll_capacity(k) \/ poll_recv(k)
  \/ \E f \in Frames : Receive(f)
  \/ \E w \in Windows : SetTarget(w)
  \/ PollComplete
  \/ ExpireReset
  \/ DropConnection
Spec == Init /\ [][Next]_vars
-----------------------------------------------------------------------------
TypeOK ==
  /\ ops \in 0..MaxOps
  /\ c.phase \in {"open", "closing", "dropped"}
  /\ \A k \in Live(c) : c.stream[k].refs \in 0..2 /\ c.stream[k].state # Refused

\* No assertion of the source fails.
NoAssertionFails == c.bad = "none"

Total(f(_)) == MapThenSumSet(f, Live(c))

\* Capacity is neither made nor lost: what the connection's window allows is what its
\* streams were assigned and what is left to assign, and no stream is assigned more
\* than its own window.
CapacityConserved ==
  /\ c.savail + Total(LAMBDA k : c.stream[k].savail) = c.swin
  /\ c.savail >= 0
  /\ \A k \in Live(c) : c.stream[k].savail >= 0

\* A stream that could send is not overlooked: with a frame it may send it is queued, and
\* while the connection has capacity left no stream that could use some waits for it.
Sendable(k) ==
  LET s == c.stream[k]
  IN s.sendq # <<>> /\ (Head(s.sendq).t # "data" \/ Head(s.sendq).len = 0 \/ s.savail > 0)
Wanting(k) ==
  /\ is_send_streaming(c.stream[k].state) \/ c.stream[k].buffered > 0
  /\ c.stream[k].requested > c.stream[k].savail /\ c.stream[k].swin > c.stream[k].savail
NoStreamStalls ==
  \A k \in Live(c) : c.phase = "open" =>
    /\ Sendable(k) => Queued(c, "send", k) \/ Queued(c, "open", k)
    /\ ~(Wanting(k) /\ c.savail > 0)

\* The connection's task does not sleep on work: a sleeping one has left its waker, and
\* neither frames nor window updates that could be sent are waiting for it.
SleepsOnlyWhenIdle ==
  c.phase = "open" /\ ~c.running =>
    /\ c.task
    /\ \A k \in Live(c) : ~(Queued(c, "send", k) /\ Sendable(k))
    /\ c.q["window_update"] = <<>> /\ c.codec = <<>> /\ c.refused = None
    /\ unclaimed(c.rwin, c.ravail) = 0

\* The counters count what they say.
CountsMatch ==
  /\ c.num_send + c.num_recv = Cardinality({k \in Live(c) : c.stream[k].counted})
  /\ c.num_reset >= Len(c.q["reset"])
  /\ c.num_recv <= MaxRecv

\* Received data is accounted for until it is released.
RecvConserved ==
  /\ c.ravail + c.inflight = c.target
  /\ c.phase = "open" => c.inflight = Total(LAMBDA k : c.stream[k].inflight)

\* A reader does not sleep on an event, nor on a stream its peer has ended.  (One that this
\* end resets for an error of the peer leaves its reader asleep.)
ReaderSleepsOnlyForMore ==
  \A k \in Held : c.stream[k].rtask =>
    /\ c.stream[k].recvq = <<>>
    /\ ensure_recv_open(c.stream[k].state) = "open" \/ is_local_reset(c.stream[k].state)

\* A stream nothing refers to leaves the slab.
NothingLeaks == \A k \in Live(c) : ~is_released(c, k)

\* With the connection gone and every reference dropped nothing is left.
EmptyAtTheEnd == c.phase = "dropped" /\ Held = {} => Live(c) = {} /\ c.num_send = 0 /\ c.num_recv = 0
\* All of it: capacity, windows and counters add up, nobody sleeps on work, nothing leaks.
StreamsSound ==
  /\ TypeOK /\ NoAssertionFails /\ CapacityConserved /\ NoStreamStalls /\ SleepsOnlyWhenIdle
  /\ CountsMatch /\ RecvConserved /\ ReaderSleepsOnlyForMore /\ NothingLeaks /\ EmptyAtTheEnd
=============================================================================
