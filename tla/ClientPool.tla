----------------------------- MODULE ClientPool -----------------------------
(***************************************************************************)
(* The HTTP client's ConnectionPool: the callers that want a connection to *)
(* a key, the idle connections kept for them, the waiters of a pool at its *)
(* limit, the ConnectorPoolSupport tasks that serve them, the              *)
(* OpenWaitingConnection tasks they spawn, and what the callers do with a  *)
(* connection (h1proto, h2proto).  All of it runs on one thread; callers   *)
(* may be dropped at any await.                                            *)
(***************************************************************************)
EXTENDS Integers, Sequences, FiniteSets, SequencesExt

CONSTANTS
  Callers,             \* the calls, each with a key
  KeyOf,               \* function: caller -> the authority it wants
  limit,               \* the most connections in use at a time
  conn_keep_alive, conn_lifetime,  \* in ticks
  DisconnectTimeout,   \* whether a connection is shut down before it is dropped
  Protocols,           \* "Http1", "Http2": what a connect may negotiate
  Faults,              \* "connect": a connect fails; "drop": a connection or a call is dropped
  MaxConns, MaxTicks

VARIABLES
  call,                \* caller -> where it is, and the connection it holds
  pool,                \* Inner: acquired, available, waiters' queue
  chan,                \* caller -> the answer in its oneshot channel
  opening,             \* the OpenWaitingConnection tasks: caller -> "no", "connect" or "h2"
  closing,             \* the connections a CloseConnection task is shutting down
  support,             \* the ConnectorPoolSupport tasks: [runnable, registered]
  conns,               \* what the peer of each connection ever opened did
  now

vars == <<call, pool, chan, opening, closing, support, conns, now>>

Keys == {KeyOf[c] : c \in Callers}
NoConn == [id |-> 0, proto |-> "", used |-> 0, created |-> 0]

Init ==
  /\ call = [c \in Callers |-> [at |-> "idle", conn |-> NoConn]]
  /\ pool = [acquired |-> 0, available |-> [k \in Keys |-> <<>>], queue |-> <<>>]
  /\ chan = [c \in Callers |-> [kind |-> "none", conn |-> NoConn]]
  /\ opening = [c \in Callers |-> "no"]
  /\ closing = {}
  /\ support = [runnable |-> 0, registered |-> FALSE]
  /\ conns = <<>>
  /\ now = 0

(* Inner *)

Expired(a) == now - a.used > conn_keep_alive \/ now - a.created > conn_lifetime
Reusable(a) == ~Expired(a) /\ (a.proto = "Http1" => conns[a.id] = "quiet")
\* A rejected HTTP/1 connection is shut down when it is expired or its peer has spoken, and
\* dropped when its peer has closed it.
Discarded(as) ==
  {as[i].id : i \in {j \in DOMAIN as : /\ DisconnectTimeout /\ as[j].proto = "Http1"
                                       /\ Expired(as[j]) \/ conns[as[j].id] = "data"}}

\* Inner::acquire: the newest idle connection that can still be used, those on the way to it
\* discarded; a slot is reserved in any case.
acquire(p, key) ==
  LET as == p.available[key]
      ok == {i \in DOMAIN as : Reusable(as[i])}
      last == CHOOSE i \in ok : \A j \in ok : j <= i
  IN CASE limit > 0 /\ p.acquired >= limit -> [r |-> "NotAvailable", p |-> p, conn |-> NoConn, closing |-> {}]
       [] ~(limit > 0 /\ p.acquired >= limit) /\ ok = {} ->
            [r |-> "Available", p |-> [p EXCEPT !.acquired = @ + 1, !.available[key] = <<>>],
             conn |-> NoConn, closing |-> Discarded(as)]
       [] ~(limit > 0 /\ p.acquired >= limit) /\ ok # {} ->
            [r |-> "Acquired", p |-> [p EXCEPT !.acquired = @ + 1, !.available[key] = SubSeq(as, 1, last - 1)],
             conn |-> as[last], closing |-> Discarded(SubSeq(as, last + 1, Len(as)))]

\* Inner::check_availibility: wake the support task that registered last.
check_availibility(p, s) ==
  IF p.queue # <<>> /\ p.acquired < limit /\ s.registered
  THEN [runnable |-> s.runnable + 1, registered |-> FALSE] ELSE s

release(p) == [p EXCEPT !.acquired = @ - 1]

release_conn(p, key, conn) ==
  [p EXCEPT !.acquired = @ - 1, !.available[key] = Append(@, [conn EXCEPT !.used = now])]
release_waiter(p, c) == [p EXCEPT !.queue = SelectSeq(@, LAMBDA x : x # c)]

-----------------------------------------------------------------------------
(* A call. *)

NewConn(proto) == [id |-> Len(conns) + 1, proto |-> proto, used |-> now, created |-> now]
CanOpen == Len(conns) < MaxConns
Move(c, at, conn) == call' = [call EXCEPT ![c] = [at |-> at, conn |-> conn]]

\* ConnectionPool::call: spawns a ConnectorPoolSupport and returns the future.
do_call(c) ==
  /\ call[c].at = "idle"
  /\ Move(c, "new", NoConn)
  /\ support' = [support EXCEPT !.runnable = @ + 1]
  /\ UNCHANGED <<pool, chan, opening, closing, conns, now>>

\* The first poll of the future: acquire, or wait_for.
poll_acquire(c) ==
  /\ call[c].at = "new"
  /\ LET x == acquire(pool, KeyOf[c]) IN
     /\ CASE x.r = "Acquired" -> Move(c, "holding", x.conn) /\ pool' = x.p
          [] x.r = "Available" -> Move(c, "connecting", NoConn) /\ pool' = x.p
          [] x.r = "NotAvailable" -> Move(c, "waiting", NoConn) /\ pool' = [x.p EXCEPT !.queue = Append(@, c)]
     /\ closing' = closing \union x.closing
  /\ UNCHANGED <<chan, opening, support, conns, now>>

\* The connector answers: an HTTP/2 connection still has its handshake to do, under an
\* OpenGuard; before that no guard releases the slot of a failed connect.
connect_ok(c) ==
  /\ call[c].at = "connecting" /\ CanOpen
  /\ \E proto \in Protocols :
       /\ Move(c, IF proto = "Http1" THEN "holding" ELSE "handshake", NewConn(proto))
       /\ conns' = Append(conns, "quiet")
  /\ UNCHANGED <<pool, chan, opening, closing, support, now>>
connect_err(c) ==
  /\ call[c].at = "connecting" /\ "connect" \in Faults
  /\ Move(c, "done", NoConn)
  /\ UNCHANGED <<pool, chan, opening, closing, support, conns, now>>
handshake_ok(c) ==
  /\ call[c].at = "handshake"
  /\ Move(c, "holding", call[c].conn)
  /\ UNCHANGED <<pool, chan, opening, closing, support, conns, now>>
\* OpenGuard::drop
handshake_err(c) ==
  /\ call[c].at = "handshake"
  /\ Move(c, "done", NoConn)
  /\ pool' = release(pool)
  /\ support' = check_availibility(pool', support)
  /\ UNCHANGED <<chan, opening, closing, conns, now>>

\* A waiter receives its answer.
poll_rx(c) ==
  /\ call[c].at = "waiting" /\ chan[c].kind # "none"
  /\ IF chan[c].kind = "Ok" THEN Move(c, "holding", chan[c].conn) ELSE Move(c, "done", NoConn)
  /\ chan' = [chan EXCEPT ![c] = [kind |-> "none", conn |-> NoConn]]
  /\ UNCHANGED <<pool, opening, closing, support, conns, now>>

\* The future is dropped: the receiver with what is in its channel, then the WaiterGuard.
\* A connect has no guard.
drop_call(c) ==
  /\ call[c].at \in {"new", "waiting", "connecting"}
  /\ call[c].at = "connecting" => "drop" \in Faults
  /\ call[c].at = "waiting" /\ opening[c] # "no" => "drop" \in Faults
  /\ Move(c, "done", NoConn)
  /\ IF call[c].at = "waiting"
     THEN /\ pool' = release_waiter(IF chan[c].kind = "Ok" THEN release(pool) ELSE pool, c)
          /\ support' = check_availibility(pool', support)
          /\ chan' = [chan EXCEPT ![c] = [kind |-> "none", conn |-> NoConn]]
     ELSE UNCHANGED <<pool, support, chan>>
  /\ UNCHANGED <<opening, closing, conns, now>>

-----------------------------------------------------------------------------
(* The support task and the connections it opens. *)

\* ConnectorPoolSupport::poll: serve waiters from the front of the queue, whose last element
\* takes the place of the first (swap_remove_index).
SwapRemoveFirst(q) == IF Len(q) = 1 THEN <<>> ELSE <<Last(q)>> \o SubSeq(q, 2, Len(q) - 1)

RECURSIVE serve(_, _, _, _)
serve(p, ch, op, cl) ==
  IF p.queue = <<>> THEN [p |-> p, chan |-> ch, opening |-> op, closing |-> cl]
  ELSE LET c == Head(p.queue)
           x == acquire(p, KeyOf[c])
           rest == [x.p EXCEPT !.queue = SwapRemoveFirst(@)]
       IN CASE x.r = "NotAvailable" -> [p |-> p, chan |-> ch, opening |-> op, closing |-> cl]
            [] x.r = "Acquired" ->
                 serve(rest, [ch EXCEPT ![c] = [kind |-> "Ok", conn |-> x.conn]], op, cl \union x.closing)
            [] x.r = "Available" -> serve(rest, ch, [op EXCEPT ![c] = "connect"], cl \union x.closing)

poll_support ==
  /\ support.runnable > 0
  /\ support' = [runnable |-> support.runnable - 1, registered |-> TRUE]
  /\ LET x == serve(pool, chan, opening, closing)
     IN pool' = x.p /\ chan' = x.chan /\ opening' = x.opening /\ closing' = x.closing
  /\ UNCHANGED <<call, conns, now>>

\* OpenWaitingConnection::poll sends the connection; a receiver that is gone drops it, and
\* with it the slot, without a look at the waiters.
Deliver(c, conn) ==
  IF call[c].at = "waiting"
  THEN chan' = [chan EXCEPT ![c] = [kind |-> "Ok", conn |-> conn]] /\ pool' = pool
  ELSE chan' = chan /\ pool' = release(pool)

open_ok(c) ==
  /\ opening[c] = "connect" /\ CanOpen
  /\ \E proto \in Protocols :
       IF proto = "Http1"
       THEN opening' = [opening EXCEPT ![c] = "no"] /\ Deliver(c, NewConn(proto)) /\ conns' = Append(conns, "quiet")
       ELSE opening' = [opening EXCEPT ![c] = "h2"] /\ UNCHANGED <<chan, pool, conns>>
  /\ UNCHANGED <<call, closing, support, now>>
open_h2_ok(c) ==
  /\ opening[c] = "h2" /\ CanOpen
  /\ opening' = [opening EXCEPT ![c] = "no"]
  /\ Deliver(c, NewConn("Http2"))
  /\ conns' = Append(conns, "quiet")
  /\ UNCHANGED <<call, closing, support, now>>
\* A connect or a handshake fails: `inner` is taken first, so the slot is not released.
open_err(c) ==
  /\ opening[c] # "no" /\ "connect" \in Faults
  /\ opening' = [opening EXCEPT ![c] = "no"]
  /\ chan' = IF call[c].at = "waiting" THEN [chan EXCEPT ![c] = [kind |-> "Err", conn |-> NoConn]] ELSE chan
  /\ UNCHANGED <<call, pool, closing, support, conns, now>>

-----------------------------------------------------------------------------
(* What a caller does with its connection. *)

\* release_connection of a response that leaves the connection clean, or the send_request of
\* h2proto, which returns its handle to the pool as soon as the request is sent.
use_release(c) ==
  /\ call[c].at = "holding"
  /\ Move(c, "done", NoConn)
  /\ pool' = release_conn(pool, KeyOf[c], call[c].conn)
  /\ support' = check_availibility(pool', support)
  /\ UNCHANGED <<chan, opening, closing, conns, now>>
\* Acquired::close, Inner::release_close.
use_close(c) ==
  /\ call[c].at = "holding"
  /\ Move(c, "done", NoConn)
  /\ pool' = release(pool)
  /\ closing' = IF DisconnectTimeout /\ call[c].conn.proto = "Http1" THEN closing \union {call[c].conn.id} ELSE closing
  /\ support' = check_availibility(pool', support)
  /\ UNCHANGED <<chan, opening, conns, now>>
\* Acquired::drop: an error of the exchange, a body that ends with the connection or is
\* dropped half read, a tunnel.
use_drop(c) ==
  /\ call[c].at = "holding" /\ "drop" \in Faults
  /\ Move(c, "done", NoConn)
  /\ pool' = release(pool)
  /\ UNCHANGED <<chan, opening, closing, support, conns, now>>

\* CloseConnection::poll: the shutdown is done, or the time is up.
poll_close ==
  /\ \E id \in closing : closing' = closing \ {id}
  /\ UNCHANGED <<call, pool, chan, opening, support, conns, now>>

\* The peer of an idle connection sends something nobody asked for, or closes it.
peer ==
  /\ \E k \in Keys : \E i \in DOMAIN pool.available[k], what \in {"data", "closed"} :
       /\ conns[pool.available[k][i].id] = "quiet"
       /\ conns' = [conns EXCEPT ![pool.available[k][i].id] = what]
  /\ UNCHANGED <<call, pool, chan, opening, closing, support, now>>
tick ==
  /\ now < MaxTicks /\ now' = now + 1
  /\ UNCHANGED <<call, pool, chan, opening, closing, support, conns>>

Next ==
  \/ \E c \in Callers :
       \/ do_call(c) \/ poll_acquire(c) \/ connect_ok(c) \/ connect_err(c) \/ handshake_ok(c)
       \/ handshake_err(c) \/ poll_rx(c) \/ drop_call(c) \/ open_ok(c) \/ open_h2_ok(c)
       \/ open_err(c) \/ use_release(c) \/ use_close(c) \/ use_drop(c)
  \/ poll_support \/ poll_close \/ peer \/ tick
Spec == Init /\ [][Next]_vars

-----------------------------------------------------------------------------
\* The slots really in use: calls that connect or hold a connection, connections being
\* opened for a waiter, and those in a channel.
Busy == {c \in Callers : call[c].at \in {"connecting", "handshake", "holding"}}
InUse == Cardinality(Busy) + Cardinality({c \in Callers : opening[c] # "no"})
         + Cardinality({c \in Callers : chan[c].kind = "Ok"})

\* No more connections are in use than the limit allows, and while no connect fails and no
\* call is dropped in one, the pool's counter is exactly their number.
LimitHeld ==
  /\ limit > 0 => InUse <= limit
  /\ IF Faults = {} THEN pool.acquired = InUse ELSE pool.acquired >= InUse

\* An HTTP/1 connection is in one place: idle, held by one call, in a channel or closing.
Idle == {<<k, i>> \in Keys \X (1..MaxConns) : i \in DOMAIN pool.available[k]}
HeldBy(id) == {c \in Callers : call[c].at = "holding" /\ call[c].conn.proto = "Http1" /\ call[c].conn.id = id}
NotShared ==
  \A id \in DOMAIN conns :
    Cardinality(HeldBy(id)) + Cardinality({ki \in Idle : pool.available[ki[1]][ki[2]].id = id
                                                         /\ pool.available[ki[1]][ki[2]].proto = "Http1"})
      + Cardinality({c \in Callers : chan[c].kind = "Ok" /\ chan[c].conn.id = id /\ chan[c].conn.proto = "Http1"})
      + (IF id \in closing THEN 1 ELSE 0) <= 1

\* A waiter is in the queue, or a connection is being opened for it, or its answer is there;
\* nobody else is in the queue, so a served waiter's receiver is never gone.
NoneForgotten ==
  /\ \A c \in Callers : call[c].at = "waiting" =>
       c \in ToSet(pool.queue) \/ opening[c] # "no" \/ chan[c].kind # "none"
  /\ \A c \in ToSet(pool.queue) : call[c].at = "waiting" /\ opening[c] = "no" /\ chan[c].kind = "none"

\* Waiters of a pool below its limit have a support task on its way to them; a connection
\* that is dropped, not returned, breaks this.
WaitersServed ==
  "drop" \notin Faults /\ pool.queue # <<>> /\ pool.acquired < limit => support.runnable > 0

PoolSound == LimitHeld /\ NotShared /\ NoneForgotten /\ WaitersServed
=============================================================================
