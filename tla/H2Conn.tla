------------------------------- MODULE H2Conn --------------------------------
(* An HTTP/2 connection outside its streams: the connection task, the       *)
(* handshake that precedes it, and the bodies that are sent over it.        *)
EXTENDS Naturals, Sequences, FiniteSets, SequencesExt, FiniteSetsExt

(***************************************************************************)
(* The connection of HTTP/2 (src/http/h2/proto/connection.rs) with its     *)
(* GOAWAY, PING and SETTINGS exchanges (go_away.rs, ping_pong.rs,          *)
(* settings.rs).  One task polls the connection; the handle for user pings *)
(* is shared with other threads through an atomic.  Of the streams only    *)
(* what these exchanges read and write is kept: how many are counted, the  *)
(* last id processed and the last id that is still accepted.               *)
(***************************************************************************)

CONSTANTS MAX,         \* StreamId::MAX
          Ids,         \* ids the peer opens streams with
          Reasons,     \* error codes, NO_ERROR among them
          MaxFrames, MaxCalls   \* frames received and calls of the user in a run

VARIABLES
  pc,        \* where Connection::poll is: the next thing poll2 tries, or asleep
  state,     \* Open, Closing, Closed
  go,        \* GoAway
  ping, pong,         \* pending_ping: none, unsent, sent; pending_pong
  local, remote,      \* Settings
  error,              \* the reason of a GOAWAY received
  woken,              \* woken while it is polled: it will be polled again
  last, max_id, active,   \* Recv::last_processed_id, max_stream_id; Counts
  user, user_pc, ping_task, pong_task,  \* UserPingsInner and the thread that uses it
  sent,               \* ids of the GOAWAYs written
  frames, calls, bad

conn == <<pc, state, go, ping, pong, local, remote, error, last, max_id, active, sent, woken>>
users == <<user, user_pc, ping_task, pong_task>>
vars == <<conn, users, frames, calls, bad>>

NO_ERROR == "NO_ERROR"
Nothing == "nothing"
None == [last |-> 0, reason |-> Nothing]
Frame(id, e) == [last |-> id, reason |-> e]

Init ==
  /\ pc = "go_away" /\ state = "Open" /\ error = Nothing
  /\ go = [close_now |-> FALSE, going_away |-> None, user |-> FALSE, pending |-> None]
  /\ ping = "none" /\ pong = FALSE /\ local = "WaitingAck" /\ remote = FALSE
  /\ last = 0 /\ max_id = MAX /\ active = {}
  /\ user = "EMPTY" /\ user_pc = "idle" /\ ping_task = FALSE /\ pong_task = FALSE
  /\ sent = <<>> /\ woken = FALSE /\ frames = 0 /\ calls = 0 /\ bad = "none"

Check(p, name) == bad' = IF p \/ bad # "none" THEN bad ELSE name
-----------------------------------------------------------------------------
(* go_away.rs *)
is_going_away == go.going_away # None
should_close_now == go.pending = None /\ go.close_now
should_close_on_idle == ~go.close_now /\ is_going_away /\ go.going_away.last # MAX
go_away(g, f) == [g EXCEPT !.going_away = f, !.pending = f]
GoAwayIdsFall(f) == is_going_away => f.last <= go.going_away.last
go_away_now(g, f) ==
  LET g1 == [g EXCEPT !.close_now = TRUE] IN IF g.going_away = f THEN g1 ELSE go_away(g1, f)
-----------------------------------------------------------------------------
(* connection.rs, poll2: in each turn of its loop a GOAWAY, a pong, a ping, the       *)
(* settings, and then a frame is read.  Where the socket is not ready poll2 is left.  *)
Polling(p) == state = "Open" /\ pc = p
Goto(p) == pc' = p
\* Asleep until the socket can be read, or (blocked) until it can be written.
Asleep == state = "Open" /\ pc \in {"idle", "blocked"}

\* A connection error from a frame: every stream ends and GOAWAY closes the connection.
ConnectionError(e) ==
  LET f == Frame(last, e) IN
  /\ Goto("go_away") /\ active' = {} /\ go' = go_away_now(go, f) /\ UNCHANGED state
  /\ Check(go.going_away = f \/ GoAwayIdsFall(f), "go_away")

\* Closing leaves poll2 with Ok for the user's own GOAWAY, else with the error that was
\* announced before, which the error arm of poll turns into the same Closing.
SendGoAway ==
  LET reason == IF go.pending # None THEN go.pending.reason ELSE go.going_away.reason
      due == go.pending # None \/ should_close_now
      g == [go EXCEPT !.pending = None]
      close == due /\ g.close_now IN
  /\ Polling("go_away")
  /\ sent' = IF go.pending # None THEN Append(sent, go.pending.last) ELSE sent
  /\ go' = g
  /\ Check(due => IF close THEN go.user \/ go.going_away.reason = reason
                  ELSE reason = NO_ERROR, "GOAWAY sent")
  /\ IF ~close THEN Goto("pong") /\ UNCHANGED state
     ELSE Goto("go_away") /\ state' = "Closing"
  /\ UNCHANGED <<ping, pong, local, remote, error, last, max_id, active, woken, users, frames, calls>>

SendPong ==
  /\ Polling("pong") /\ Goto("ping") /\ pong' = FALSE
  /\ UNCHANGED <<state, go, ping, local, remote, error, last, max_id, active, sent, woken, users, frames, calls, bad>>

\* send_pending_ping: the shutdown ping goes first; a user's is sent when none is out.
\* Without one the task registers to be told of it, after it has looked.
SendPing ==
  LET theirs == ping = "none" /\ user = "PENDING_PING" IN
  /\ Polling("ping") /\ Goto(IF ping = "none" /\ ~theirs THEN "register" ELSE "settings")
  /\ ping' = IF ping = "unsent" THEN "sent" ELSE ping
  /\ user' = IF theirs THEN "PENDING_PONG" ELSE user
  /\ UNCHANGED <<state, go, pong, local, remote, error, last, max_id, active, sent, woken,
                 user_pc, ping_task, pong_task, frames, calls, bad>>
RegisterPing ==
  /\ Polling("register") /\ Goto("settings") /\ ping_task' = TRUE
  /\ UNCHANGED <<state, go, ping, pong, local, remote, error, last, max_id, active, sent, woken,
                 user, user_pc, pong_task, frames, calls, bad>>

\* poll_send: the peer's settings are acknowledged and applied, then ours are sent.
SendSettings ==
  /\ Polling("settings") /\ Goto("read")
  /\ remote' = FALSE
  /\ local' = IF local = "ToSend" THEN "WaitingAck" ELSE local
  /\ UNCHANGED <<state, go, ping, pong, error, last, max_id, active, sent, woken, users, frames, calls, bad>>

\* poll_complete has written what there was; without streams a connection that is going
\* away, or whose peer is, says so and closes.
Pending ==
  LET f == Frame(last, NO_ERROR)
      done == (error # Nothing \/ should_close_on_idle) /\ active = {} IN
  /\ state = "Open" /\ pc \in {"go_away", "pong", "ping", "settings", "read"}
  /\ pc = "go_away" => go.pending # None
  /\ pc = "pong" => pong
  /\ pc = "ping" => ping = "unsent" \/ (ping = "none" /\ user = "PENDING_PING")
  /\ pc = "settings" => remote \/ local = "ToSend"
  /\ IF done
     THEN /\ go' = go_away_now(go, f) /\ Goto("go_away")
          /\ Check(go.going_away = f \/ GoAwayIdsFall(f), "go_away")
     ELSE /\ Goto(IF woken THEN "go_away" ELSE IF pc = "read" THEN "idle" ELSE "blocked")
          /\ UNCHANGED <<go, bad>>
  /\ woken' = FALSE
  /\ UNCHANGED <<state, ping, pong, local, remote, error, last, max_id, active, sent, users, frames, calls>>
Wake ==
  /\ Asleep /\ Goto("go_away")
  /\ UNCHANGED <<state, go, ping, pong, local, remote, error, last, max_id, active, sent, woken, users, frames, calls, bad>>
-----------------------------------------------------------------------------
(* Frames. *)
Read == Polling("read") /\ frames < MaxFrames /\ frames' = frames + 1

\* Headers of a new stream, or of one that is there; an id that was passed over is an error.
RecvHeaders(i) ==
  /\ Read
  /\ IF i <= max_id /\ i > last
     THEN last' = i /\ active' = active \cup {i} /\ Goto("go_away") /\ UNCHANGED <<state, go, bad>>
     ELSE /\ UNCHANGED last
          /\ IF i > max_id \/ i \in active THEN Goto("go_away") /\ UNCHANGED <<state, go, active, bad>>
             ELSE ConnectionError("PROTOCOL_ERROR")
  /\ UNCHANGED <<ping, pong, local, remote, error, max_id, sent, woken, users, calls>>
StreamEnds(i) ==
  /\ i \in active /\ active' = active \ {i} /\ pc' = IF Asleep THEN "go_away" ELSE pc
  /\ woken' = (woken \/ (state = "Open" /\ ~Asleep))
  /\ UNCHANGED <<state, go, ping, pong, local, remote, error, last, max_id, sent, users, frames, calls, bad>>

RecvSettings ==
  /\ Read /\ Goto("go_away") /\ remote' = TRUE
  /\ Check(~remote, "recv_settings")
  /\ UNCHANGED <<state, go, ping, pong, local, error, last, max_id, active, sent, woken, users, calls>>
RecvSettingsAck ==
  /\ Read
  /\ IF local = "WaitingAck" THEN local' = "Synced" /\ Goto("go_away") /\ UNCHANGED <<state, active, go, bad>>
     ELSE ConnectionError("PROTOCOL_ERROR") /\ UNCHANGED local
  /\ UNCHANGED <<ping, pong, remote, error, last, max_id, sent, woken, users, calls>>

RecvGoAway(i, reason) ==
  /\ Read
  /\ IF i > max_id THEN ConnectionError("PROTOCOL_ERROR") /\ UNCHANGED <<max_id, error>>
     ELSE /\ max_id' = i /\ error' = reason /\ Goto("go_away")
          /\ active' = {s \in active : s <= i} /\ UNCHANGED <<state, go, bad>>
  /\ UNCHANGED <<ping, pong, local, remote, last, sent, woken, users, calls>>

RecvPing ==
  /\ Read /\ Goto("go_away") /\ pong' = TRUE /\ Check(~pong, "recv_ping")
  /\ UNCHANGED <<state, go, ping, local, remote, error, last, max_id, active, sent, woken, users, calls>>
\* The answer to the shutdown ping: the second GOAWAY names the last stream processed.
RecvShutdownPong ==
  LET f == Frame(last, NO_ERROR) IN
  /\ Read /\ Goto("go_away")
  /\ IF ping = "none" THEN UNCHANGED <<ping, go, max_id>> /\ Check(~pong, "recv_ping")
     ELSE /\ ping' = "none" /\ max_id' = last /\ go' = go_away(go, f)
          /\ Check(~pong /\ is_going_away /\ GoAwayIdsFall(f) /\ last <= max_id, "shutdown ping")
  /\ UNCHANGED <<state, pong, local, remote, error, last, active, sent, woken, users, calls>>
RecvUserPong ==
  /\ Read /\ Goto("go_away") /\ Check(~pong, "recv_ping")
  /\ user' = IF user = "PENDING_PONG" THEN "RECEIVED_PONG" ELSE user
  /\ pong_task' = IF user = "PENDING_PONG" THEN FALSE ELSE pong_task
  /\ user_pc' = IF user = "PENDING_PONG" /\ pong_task /\ user_pc = "waiting" THEN "poll" ELSE user_pc
  /\ UNCHANGED <<ping_task, state, go, ping, pong, local, remote, error, last, max_id, active, sent, woken, calls>>
\* The socket is at its end, or fails.
RecvEof ==
  /\ Read /\ Goto("go_away") /\ state' = "Closing" /\ active' = {}
  /\ UNCHANGED <<go, ping, pong, local, remote, error, last, max_id, sent, woken, users, calls, bad>>

\* Closing flushes; the connection is dropped, and with it UserPingsRx.
Close ==
  /\ state = "Closing" /\ state' = "Closed" /\ user' = "CLOSED" /\ pong_task' = FALSE
  /\ user_pc' = IF pong_task /\ user_pc = "waiting" THEN "poll" ELSE user_pc
  /\ UNCHANGED <<ping_task, pc, go, ping, pong, local, remote, error, last, max_id, active, sent, woken,
                 frames, calls, bad>>
-----------------------------------------------------------------------------
(* Calls of the user: those on the connection while its task does not poll it. *)
Call == calls < MaxCalls /\ calls' = calls + 1
OnConnection == Call /\ Asleep /\ Goto("go_away")

go_away_gracefully ==
  LET f == Frame(MAX, NO_ERROR) IN
  /\ OnConnection /\ ~is_going_away
  /\ Check(max_id >= MAX /\ ping = "none", "go_away_gracefully")
  /\ max_id' = MAX /\ go' = go_away(go, f) /\ ping' = "unsent"
  /\ UNCHANGED <<state, pong, local, remote, error, last, active, sent, woken, users, frames>>
go_away_from_user(e) ==
  LET f == Frame(last, e) IN
  /\ OnConnection /\ active' = {}
  /\ go' = [go_away_now(go, f) EXCEPT !.user = TRUE]
  /\ Check(go.going_away = f \/ GoAwayIdsFall(f), "go_away")
  /\ UNCHANGED <<state, ping, pong, local, remote, error, last, max_id, sent, woken, users, frames>>
send_settings ==
  /\ OnConnection
  /\ local' = IF local = "Synced" THEN "ToSend" ELSE local
  /\ UNCHANGED <<state, go, ping, pong, remote, error, last, max_id, active, sent, woken, users, frames, bad>>

\* The client's connection closes by itself when nobody holds a stream or a handle.
maybe_close_connection_if_no_streams ==
  LET f == Frame(last, NO_ERROR) IN
  /\ OnConnection /\ active = {}
  /\ go' = go_away_now(go, f) /\ Check(go.going_away = f \/ GoAwayIdsFall(f), "go_away")
  /\ UNCHANGED <<state, ping, pong, local, remote, error, last, max_id, active, sent, woken, users, frames>>

\* send_ping, and then poll_pong, which registers before it looks.
send_ping ==
  /\ user_pc = "idle" /\ Call
  /\ user' = IF user = "EMPTY" THEN "PENDING_PING" ELSE user
  /\ user_pc' = CASE user = "EMPTY" -> "wake" [] user = "CLOSED" -> "failed" [] OTHER -> "poll"
  /\ UNCHANGED <<conn, ping_task, pong_task, frames, bad>>
wake_connection ==
  /\ user_pc = "wake" /\ user_pc' = "poll" /\ ping_task' = FALSE
  /\ pc' = IF ping_task /\ Asleep THEN "go_away" ELSE pc
  /\ woken' = (woken \/ (state = "Open" /\ ping_task /\ ~Asleep))
  /\ UNCHANGED <<state, go, ping, pong, local, remote, error, last, max_id, active, sent,
                 user, pong_task, frames, calls, bad>>
poll_pong_register ==
  /\ user_pc = "poll" /\ user_pc' = "look" /\ pong_task' = TRUE
  /\ UNCHANGED <<conn, user, ping_task, frames, calls, bad>>
poll_pong ==
  /\ user_pc = "look"
  /\ user' = IF user = "RECEIVED_PONG" THEN "EMPTY" ELSE user
  /\ user_pc' = CASE user = "RECEIVED_PONG" -> "idle" [] user = "CLOSED" -> "failed" [] OTHER ->
                  IF pong_task THEN "waiting" ELSE "poll"
  /\ UNCHANGED <<conn, ping_task, pong_task, frames, calls, bad>>

Next ==
  \/ SendGoAway \/ SendPong \/ SendPing \/ RegisterPing \/ SendSettings \/ Pending \/ Wake
  \/ \E i \in Ids : RecvHeaders(i) \/ StreamEnds(i)
  \/ RecvSettings \/ RecvSettingsAck \/ RecvPing \/ RecvShutdownPong \/ RecvUserPong \/ RecvEof
  \/ \E i \in Ids \cup {0, MAX}, e \in Reasons : RecvGoAway(i, e)
  \/ Close
  \/ go_away_gracefully \/ send_settings \/ maybe_close_connection_if_no_streams
  \/ send_ping \/ wake_connection \/ poll_pong_register \/ poll_pong
  \/ \E e \in Reasons : go_away_from_user(e)
Spec == Init /\ [][Next]_vars
-----------------------------------------------------------------------------
TypeOK ==
  /\ pc \in {"go_away", "pong", "ping", "register", "settings", "read", "idle", "blocked"}
  /\ state \in {"Open", "Closing", "Closed"}
  /\ ping \in {"none", "unsent", "sent"} /\ local \in {"ToSend", "WaitingAck", "Synced"}
  /\ last <= MAX /\ active \subseteq Ids

\* No assertion of the source fails, except that of Recv::go_away, whose max_stream_id a
\* GOAWAY of the peer has lowered already.
AssertionsHold == bad # "none" => error # Nothing

\* The ids of the GOAWAYs written never rise, and once one other than the first of a
\* graceful shutdown is written no stream above it has been processed.
Falling == \A i, j \in DOMAIN sent : i < j => sent[j] <= sent[i]
GoAwayKept == Falling /\ (sent # <<>> => last <= sent[Len(sent)])

\* A connection that was told to close, or has only to wait for streams that are all
\* gone, does not go to sleep.
NoIdleZombie ==
  Asleep =>
    ~((error # Nothing \/ should_close_on_idle) /\ active = {}) /\ ~should_close_now

\* Who waits for a pong has its waker registered and has not been answered.
PongNotLost == user_pc = "waiting" => pong_task /\ user \notin {"RECEIVED_PONG", "CLOSED"}

\* All of it: GOAWAYs are kept, a connection that may close does, pongs reach who waits.
ConnSound == TypeOK /\ AssertionsHold /\ GoAwayKept /\ NoIdleZombie /\ PongNotLost

-----------------------------------------------------------------------------
(* How an HTTP/2 connection begins: the client's handshake2 (http/h2/client.rs) *)
(* writes the preface and buffers SETTINGS; the server's Handshake future       *)
(* (http/h2/server.rs) flushes SETTINGS and reads the preface; then heads are   *)
(* exchanged through the conversions of the two Peers.  Both sides write and    *)
(* read in arbitrary pieces.                                                    *)

CONSTANTS
    PREFACE,     \* the preface, 24 bytes in the code
    SETTINGS,    \* bytes of a SETTINGS frame
    Clients,     \* "h2", or what another program sends first
    Window,      \* builder: initial_target_connection_window_size, or none
    MAX_WINDOW,
    Requests,    \* [method, form, version]: requests of the h2 client
    Pseudos      \* heads another client may send

VARIABLES
    client,          \* "h2", or the bytes another client sends
    cs, cpos,        \* client: "preface", "settings", "open" or "failed"; bytes written
    up, down,        \* bytes on the way to the server, to the client
    up_eof,
    hs, pos,         \* server: "Flushing", "ReadingPreface", "Ready", "error" or "panic"; ReadPreface::pos
    flushed,         \* bytes of the server's SETTINGS written
    taken,           \* what the server has read
    target,          \* the connection's target window, client and server
    head, outcome    \* a head on its way, and what the server made of it

handshakeVars == <<client, cs, cpos, up, down, up_eof, hs, pos, flushed, taken, target, head, outcome>>

NoHead == [none |-> TRUE]

HandshakeInit ==
    /\ client \in Clients
    /\ cs = IF client = <<>> THEN "preface" ELSE "other"
    /\ cpos = 0 /\ up = <<>> /\ down = 0 /\ up_eof = FALSE
    /\ hs = "Flushing" /\ pos = 0 /\ flushed = 0 /\ taken = <<>>
    /\ target = [client |-> 0, server |-> 0]
    /\ head = NoHead /\ outcome = "none"

Says == IF client = <<>> THEN PREFACE \o SETTINGS ELSE client

-----------------------------------------------------------------------------
(* The client. *)

\* write_all of the preface, then the connection exists with SETTINGS in its buffer.
client_preface(n) ==
    /\ cs = "preface" /\ cpos + n <= Len(PREFACE)
    /\ up' = up \o SubSeq(PREFACE, cpos + 1, cpos + n) /\ cpos' = cpos + n
    /\ cs' = IF cpos + n = Len(PREFACE) THEN "settings" ELSE cs
    /\ target' = IF cs' = "settings" /\ Window # 0 THEN [target EXCEPT !.client = Window] ELSE target
    /\ UNCHANGED <<client, down, up_eof, hs, pos, flushed, taken, head, outcome>>

\* The connection is polled: the buffered frame is flushed.
client_flush(n) ==
    /\ cs = "settings" /\ cpos + n <= Len(Says)
    /\ up' = up \o SubSeq(Says, cpos + 1, cpos + n) /\ cpos' = cpos + n
    /\ cs' = IF cpos + n = Len(Says) THEN "open" ELSE cs
    /\ UNCHANGED <<client, down, up_eof, hs, pos, flushed, taken, target, head, outcome>>

\* A program that is no HTTP/2 client, or that goes away.
other_client(n) ==
    /\ cs = "other" /\ ~up_eof /\ cpos + n <= Len(client)
    /\ up' = up \o SubSeq(client, cpos + 1, cpos + n) /\ cpos' = cpos + n
    /\ up_eof' = (n = 0)
    /\ UNCHANGED <<client, cs, down, hs, pos, flushed, taken, target, head, outcome>>

-----------------------------------------------------------------------------
(* The server: Handshake::poll. *)

\* Handshake::poll moves on once SETTINGS are out, and makes the connection once the
\* preface is in.
advanced(n) == IF flushed + n = Len(SETTINGS) THEN "ReadingPreface" ELSE "Flushing"
connected == IF Window # 0 THEN [target EXCEPT !.server = Window] ELSE target

\* Flush::poll.
flush(n) ==
    /\ hs = "Flushing" /\ flushed + n <= Len(SETTINGS)
    /\ flushed' = flushed + n /\ down' = down + n
    /\ hs' = advanced(n)
    /\ UNCHANGED <<client, cs, cpos, up, up_eof, pos, taken, target, head, outcome>>

\* One read of ReadPreface::poll: never more than the preface still lacks.
read_preface(n) ==
    /\ hs = "ReadingPreface" /\ n <= Len(up) /\ n <= Len(PREFACE) - pos
    /\ IF n = 0
       THEN up = <<>> /\ up_eof /\ hs' = "error" /\ UNCHANGED <<pos, up, taken, target>>
       ELSE /\ up' = SubSeq(up, n + 1, Len(up)) /\ taken' = taken \o SubSeq(up, 1, n)
            /\ IF SubSeq(PREFACE, pos + 1, pos + n) # SubSeq(up, 1, n)
               THEN hs' = "error" /\ UNCHANGED <<pos, target>>
               ELSE /\ pos' = pos + n
                    /\ hs' = IF pos + n = Len(PREFACE) THEN "Ready" ELSE hs
                    /\ target' = IF hs' = "Ready" THEN connected ELSE target
    /\ UNCHANGED <<client, cs, cpos, down, up_eof, flushed, head, outcome>>

-----------------------------------------------------------------------------
(* Heads. *)

\* Pseudo::request: a path is sent in any case, "/" for an empty one.
Pseudo_request(r) ==
    [method |-> "ok", status |-> "none",
     scheme |-> IF r.form = "absolute" THEN "ok" ELSE "none",
     authority |-> IF r.form \in {"absolute", "authority"} THEN "ok" ELSE "none",
     path |-> IF r.form = "authority" /\ r.method = "OPTIONS" THEN "empty" ELSE "ok"]

\* client::Peer::convert_send_message: a request without scheme and authority gets a
\* scheme, unless it claims to be HTTP/2 already.
convert_send_message(r) ==
    LET p == Pseudo_request(r)
    IN IF p.scheme # "none" THEN [ok |-> TRUE, p |-> p]
       ELSE IF p.authority = "none" /\ r.version = "HTTP_2" THEN [ok |-> FALSE, p |-> p]
       ELSE [ok |-> TRUE, p |-> IF p.authority = "none" THEN [p EXCEPT !.scheme = "ok"] ELSE p]

\* server::Peer::convert_poll_message.  Without an authority the scheme is dropped, and
\* a URI cannot be made of a scheme without a path.
convert_poll_message(p) ==
    IF p.method = "none" THEN "stream"
    ELSE IF p.status # "none" THEN "connection"
    ELSE IF p.authority = "bad" THEN "stream"
    ELSE IF p.scheme # "ok" THEN "stream"
    ELSE IF p.path \in {"empty", "bad"} THEN "stream"
    ELSE IF p.authority = "ok" /\ p.path = "none" THEN "stream"
    ELSE "request"

\* server::Peer::convert_push_message with PushPromise::validate_request.
convert_push_message(method, length) ==
    IF length \in {"none", "0"} /\ method \in {"GET", "HEAD"} THEN "promise" ELSE "MalformedHeaders"

send_request(r) ==
    /\ cs \in {"settings", "open"} /\ head = NoHead
    /\ head' = [by |-> "h2", r |-> r, sent |-> convert_send_message(r).ok, p |-> convert_send_message(r).p]
    /\ UNCHANGED <<client, cs, cpos, up, down, up_eof, hs, pos, flushed, taken, target, outcome>>

other_head(p) ==
    /\ cs = "open" /\ head = NoHead
    /\ head' = [by |-> "other", r |-> NoHead, sent |-> TRUE, p |-> p]
    /\ UNCHANGED <<client, cs, cpos, up, down, up_eof, hs, pos, flushed, taken, target, outcome>>

\* Connection::poll_accept, once the client's SETTINGS have been read.
poll_accept ==
    /\ hs = "Ready" /\ cs = "open" /\ head # NoHead /\ outcome = "none" /\ head.sent
    /\ outcome' = convert_poll_message(head.p)
    /\ UNCHANGED <<client, cs, cpos, up, down, up_eof, hs, pos, flushed, taken, target, head>>

push_request(method, length) ==
    /\ outcome = "request" /\ outcome' = convert_push_message(method, length)
    /\ UNCHANGED <<client, cs, cpos, up, down, up_eof, hs, pos, flushed, taken, target, head>>

Terminated ==
    /\ hs \in {"Ready", "error"} /\ cs # "preface" /\ (head # NoHead \/ client # <<>>)
    /\ UNCHANGED handshakeVars

HandshakeNext ==
    \/ \E n \in 1..Len(PREFACE) : client_preface(n)
    \/ \E n \in 1..Len(SETTINGS) : client_flush(n) \/ flush(n)
    \/ \E n \in 0..3 : other_client(n)
    \/ \E n \in 0..Len(PREFACE) : read_preface(n)
    \/ \E r \in Requests : send_request(r)
    \/ \E p \in Pseudos : other_head(p)
    \/ poll_accept
    \/ \E m \in {"GET", "POST"}, l \in {"none", "0", "5"} : push_request(m, l)
    \/ Terminated

HandshakeSpec == HandshakeInit /\ [][HandshakeNext]_handshakeVars

-----------------------------------------------------------------------------
\* The server talks to whoever has sent exactly the preface: it takes no byte beyond it,
\* and no connection is made with another program.
OnlyAfterThePreface ==
    /\ IsPrefix(taken, Says)
    /\ hs = "Ready" => taken = PREFACE
    /\ hs = "ReadingPreface" => taken = SubSeq(PREFACE, 1, pos)
    /\ client = <<>> => hs # "error"

\* The server's SETTINGS are out before it reads anything; the client's follow its
\* preface; neither waits for the other to begin.
SettingsFirst ==
    /\ hs # "Flushing" => down = Len(SETTINGS)
    /\ taken \o up = SubSeq(Says, 1, cpos)

\* The windows are within their bound when they are set.
WindowsSet == target.client <= MAX_WINDOW /\ target.server <= MAX_WINDOW

\* A request the client accepts to send is a request to the server, unless its URI is
\* in authority form.
RequestsArrive ==
    head # NoHead /\ outcome # "none" /\ head.by = "h2" /\ head.r.form # "authority" =>
        outcome \in {"request", "promise", "MalformedHeaders"}

\* A head with a bad or missing part is an error of its stream; only a status in a
\* request ends the connection.
MalformedIsStreamError ==
    head # NoHead /\ outcome \in {"request", "stream", "connection"} =>
        /\ outcome = "request" <=> /\ head.p.method = "ok" /\ head.p.status = "none" /\ head.p.scheme = "ok"
                                   /\ head.p.authority # "bad" /\ head.p.path \notin {"bad", "empty"}
                                   /\ (head.p.path = "none" => head.p.authority = "none")
        /\ outcome = "connection" <=> head.p.status # "none" /\ head.p.method # "none"

HandshakeSound == OnlyAfterThePreface /\ SettingsFirst /\ WindowsSet /\ RequestsArrive /\ MalformedIsStreamError

-----------------------------------------------------------------------------
(* The head and the body of one HTTP/2 message: the server's ServiceResponse   *)
(* (http/h2/dispatcher.rs) and the client's send_request and send_body         *)
(* (http/client/h2proto.rs), over the flow control of the stream.  A byte is a *)
(* unit; a chunk is its length.                                                *)

CONSTANTS
    Messages,    \* [role, status, size, n, chunks, fails, hdrs]: what is to be sent
    CHUNK_SIZE

VARIABLES
    msg,
    st,               \* "call", "payload" or "done"
    task,             \* "run", or asleep on "service", "body" or "capacity"
    body_head,             \* the head that was sent, or none
    next, produced,   \* the next chunk of the body; bytes taken from it
    buffer,           \* bytes of the current chunk not sent, or -1
    requested, available, buffered, inc,  \* the stream's send side
    body_sent, end,        \* bytes given to the stream; END_STREAM given to it
    given,            \* bytes of window the peer has granted
    peer,             \* "open" or "reset"
    result

bodyVars == <<msg, st, task, body_head, next, produced, buffer, requested, available, buffered, inc, body_sent, end,
              given, peer, result>>
flow == <<requested, available, buffered, inc, given>>

NoBuffer == 0 - 1
BodyNoHead == [none |-> TRUE]

\* BodySize::is_eof; the client does not count a 64-bit zero.
is_eof(size, n) == size \in {"None", "Empty"} \/ (size \in {"Sized", "Sized64"} /\ n = 0)
client_eof(size, n) == size \in {"None", "Empty"} \/ (size = "Sized" /\ n = 0)

\* prepare_response: the size the status allows, and the headers.
prepare_response(m) ==
    LET size == IF m.status \in {"204", "100"} THEN "None" ELSE IF m.status = "101" THEN "Stream" ELSE m.size
        skip_len == m.size # "Stream" \/ m.status = "101"
        own == CASE size = "Empty" -> << <<"content-length", 0>> >>
                 [] size \in {"Sized", "Sized64"} -> << <<"content-length", m.n>> >>
                 [] OTHER -> <<>>
        kept == SelectSeq(m.hdrs, LAMBDA h : /\ h[1] \notin {"connection", "transfer-encoding"}
                                             /\ ~(h[1] = "content-length" /\ skip_len))
        date == IF \E i \in DOMAIN m.hdrs : m.hdrs[i][1] = "date" THEN <<>> ELSE << <<"date", 0>> >>
    IN [size |-> size, headers |-> own \o kept \o date]

\* send_request: the head of a request.  The headers given for this one request
\* replace those of the shared head.
prepare_request(m) ==
    LET own == CASE m.size = "Empty" -> << <<"content-length", 0>> >>
                 [] m.size \in {"Sized", "Sized64"} -> << <<"content-length", m.n>> >>
                 [] OTHER -> <<>>
        shared == SelectSeq(m.hdrs, LAMBDA h : \A i \in DOMAIN m.extra : m.extra[i][1] # h[1])
        kept == SelectSeq(shared \o m.extra, LAMBDA h : /\ h[1] \notin {"connection", "transfer-encoding"}
                                                /\ ~(h[1] = "content-length" /\ m.size # "Stream"))
    IN [size |-> m.size, headers |-> own \o kept]

BodyInit ==
    /\ msg \in Messages /\ st = "call" /\ task = "service" /\ body_head = BodyNoHead
    /\ next = 1 /\ produced = 0 /\ buffer = NoBuffer
    /\ requested = 0 /\ available = 0 /\ buffered = 0 /\ inc = FALSE
    /\ body_sent = 0 /\ end = FALSE /\ given = 0 /\ peer = "open" /\ result = "none"

Done(r) == st' = "done" /\ task' = "done" /\ result' = r

\* The service has answered, or the connection takes the request: the head is sent.
send_head ==
    /\ st = "call"
    /\ LET h == IF msg.role = "server" THEN prepare_response(msg) ELSE prepare_request(msg)
           eof == IF msg.role = "server" THEN is_eof(h.size, msg.n) ELSE client_eof(h.size, msg.n)
       IN IF peer = "reset"
          THEN Done("error") /\ UNCHANGED <<body_head, end>>
          ELSE /\ body_head' = h /\ end' = eof
               /\ IF eof THEN Done("sent")
                  ELSE st' = "payload" /\ task' = "run" /\ UNCHANGED result
    /\ UNCHANGED <<msg, next, produced, buffer, flow, body_sent, peer>>

\* Prioritize::reserve_capacity.
Reserve(c, req, buf) == IF c + buf > req /\ peer = "reset" THEN req ELSE c + buf
Ask(len) == IF msg.role = "server" THEN Min({len, CHUNK_SIZE}) ELSE len

\* No buffer: the next chunk of the body.
poll_body ==
    /\ st = "payload" /\ task = "run" /\ buffer = NoBuffer
    /\ IF next > Len(msg.chunks)
       THEN IF msg.fails THEN Done("error") /\ UNCHANGED <<next, produced, buffer, requested, end>>
            \* send_data refuses a stream that has been reset.
            ELSE /\ Done("sent") /\ end' = (peer = "open")
                 /\ requested' = IF msg.role = "client" THEN buffered ELSE requested
                 /\ UNCHANGED <<next, produced, buffer>>
       ELSE \/ task' = "body" /\ UNCHANGED <<st, result, next, produced, buffer, requested, end>>
            \/ /\ buffer' = msg.chunks[next] /\ produced' = produced + msg.chunks[next] /\ next' = next + 1
               /\ requested' = Reserve(Ask(msg.chunks[next]), requested, buffered)
               /\ UNCHANGED <<st, task, result, end>>
    /\ UNCHANGED <<msg, body_head, available, buffered, inc, body_sent, given, peer>>

\* A chunk in the buffer: capacity for it is waited for, and used.
poll_capacity ==
    /\ st = "payload" /\ task = "run" /\ buffer # NoBuffer
    /\ IF peer = "reset" THEN Done("cut") /\ UNCHANGED <<buffer, requested, buffered, inc, body_sent>>
       ELSE IF ~inc THEN task' = "capacity" /\ UNCHANGED <<st, result, buffer, requested, buffered, inc, body_sent>>
       ELSE LET cap == IF available > buffered THEN available - buffered ELSE 0
                n == Min({cap, buffer})
                rest == buffer - n
            IN /\ inc' = FALSE /\ body_sent' = body_sent + n /\ buffered' = buffered + n
               /\ buffer' = IF rest = 0 THEN NoBuffer ELSE rest
               /\ requested' = LET r == Max({requested, buffered + n})
                               IN IF rest = 0 THEN r ELSE Reserve(Ask(rest), r, buffered + n)
               /\ UNCHANGED <<st, task, result>>
    /\ UNCHANGED <<msg, body_head, next, produced, available, end, given, peer>>

-----------------------------------------------------------------------------
(* The connection, and the rest of the program. *)

\* Capacity is assigned to the stream, up to what it has requested.
assign(n) ==
    /\ peer = "open" /\ given + n <= Window /\ available + n <= requested
    /\ given' = given + n /\ available' = available + n
    /\ inc' = (inc \/ available + n > buffered)
    /\ task' = IF task = "capacity" /\ available + n > buffered THEN "run" ELSE task
    /\ UNCHANGED <<msg, st, body_head, next, produced, buffer, requested, buffered, body_sent, end, peer, result>>

\* DATA goes out.
write(n) ==
    /\ peer = "open" /\ n <= buffered /\ n <= available
    /\ buffered' = buffered - n /\ available' = available - n /\ requested' = requested - n
    /\ UNCHANGED <<msg, st, task, body_head, next, produced, buffer, inc, body_sent, end, given, peer, result>>

reset ==
    /\ peer = "open" /\ peer' = "reset"
    /\ buffered' = 0 /\ requested' = 0 /\ available' = 0
    /\ task' = IF task = "capacity" THEN "run" ELSE task
    /\ UNCHANGED <<msg, st, body_head, next, produced, buffer, inc, body_sent, end, given, result>>

body_ready ==
    /\ task = "body" /\ task' = "run"
    /\ UNCHANGED <<msg, st, body_head, next, produced, buffer, flow, body_sent, end, peer, result>>

BodyNext == send_head \/ poll_body \/ poll_capacity \/ reset \/ body_ready
        \/ \E n \in 1..Window : assign(n) \/ write(n)

BodySpec == BodyInit /\ [][BodyNext]_bodyVars

-----------------------------------------------------------------------------
SumSeq(s) == FoldLeft(LAMBDA a, b : a + b, 0, s)

\* Every byte the body gave is sent once: those not in the buffer have been given to
\* the stream, and END_STREAM comes after all of them.
BodyWhole ==
    /\ peer = "open" /\ st # "call" => body_sent = produced - (IF buffer = NoBuffer THEN 0 ELSE buffer)
    /\ end /\ body_head.size \notin {"None", "Empty"} => body_sent = SumSeq(msg.chunks) /\ ~msg.fails

\* The stream is never given more than the capacity assigned to it.
WithinCapacity == peer = "open" => buffered <= available /\ available <= requested

\* A body without bytes is ended by its head, and no other is.
EndsOnce == end /\ st = "done" /\ next = 1 /\ body_head # BodyNoHead =>
                (body_head.size \in {"None", "Empty"} \/ msg.n = 0 \/ msg.chunks = <<>>)

Count(name) == Cardinality({i \in DOMAIN body_head.headers : body_head.headers[i][1] = name})
\* One length at most, and the right one; no connection headers; a response has a date.
HeadRight == body_head # BodyNoHead =>
    /\ Count("connection") = 0 /\ Count("transfer-encoding") = 0
    /\ body_head.size \in {"Sized", "Sized64"} => Count("content-length") = 1
    /\ \A i \in DOMAIN body_head.headers : body_head.headers[i][1] = "content-length" =>
           body_head.headers[i][2] = msg.n \/ msg.size = "Stream"
    /\ msg.role = "server" => Count("date") = 1

\* A task asleep on capacity is owed some: the stream has requested more than it was
\* assigned, so that the next window wakes it.
NoStall == task = "capacity" => peer = "open" /\ requested > available

H2BodySound == BodyWhole /\ WithinCapacity /\ EndsOnce /\ HeadRight /\ NoStall
=============================================================================
