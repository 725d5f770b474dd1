--------------------------- MODULE ReadinessQueue ----------------------------
(* The poll: its queue of user-space readiness, and the lock that admits one*)
(* poller at a time.                                                        *)
EXTENDS Naturals, FiniteSets, FiniteSetTheorems, TLAPS

(***************************************************************************)
(* The user-space event queue of Poll (src/krse/io/driver/linux/poll.rs):  *)
(* the intrusive queue of readiness nodes with its three markers, the      *)
(* state word of a node, and the poller that sleeps in the selector.  One  *)
(* step per atomic operation; a compare-and-swap loop is the step of the   *)
(* exchange that succeeds.  Readiness, interest and tokens are reduced to  *)
(* one bit and a small set.                                                *)
(***************************************************************************)

CONSTANTS
  Nodes, End, Sleep, Closed, Null,
  Setters, Updaters,  \* threads with a SetReadiness, threads with the Registration
  NodeOf,             \* the node a thread's handle points to
  Poller, Tokens, Opts,
  Attached,           \* nodes that are registered from the start
  MaxSets, MaxUpdates, MaxPolls, MaxRoom  \* bounds on calls and on free event slots

VARIABLES
  head, tail, next,            \* head_readiness, tail_readiness, next_readiness
  st, token, queue, update_lock, ref, freed,  \* a node; freed: its memory is gone
  pipe,                        \* the awakener's pipe holds a byte
  pc, obj, prev, calls,        \* a thread: where, the node it enqueues, what it found
  upd,                         \* an updater's arguments and token slot
  after,                       \* where a thread goes when its enqueue is done
  wait, room, until, nx, closing,  \* locals of poll2, poll, drop and dequeue_node
  latest, owed, want           \* ghosts: token last set, readiness not yet reported,
                               \* the token an event must carry

list == <<head, tail, next>>
node == <<st, token, queue, update_lock>>
mem == <<ref, freed>>
thread == <<pc, obj, prev, calls, upd, after>>
local == <<wait, room, until, nx, closing>>
ghost == <<latest, owed, want>>
vars == <<list, node, mem, pipe, thread, local, ghost>>

Markers == {End, Sleep, Closed}
Threads == Setters \cup Updaters \cup {Poller}
Users == Setters \cup Updaters
T0 == CHOOSE t \in Tokens : TRUE

Effective(s) == s.ready /\ s.interest
is_edge(s) == s.opt \in {"edge", "oneshot"}

new(n) == [ready |-> FALSE, interest |-> n \in Attached,
           opt |-> IF n \in Attached THEN "level" ELSE "empty",
           queued |-> FALSE, dropped |-> FALSE, rd |-> 0, wr |-> 0]

\* The arguments of register and reregister, and those of deregister.
Registrations == [token : Tokens, interest : {TRUE}, opt : Opts, pos : {0}]
Deregistration == [token |-> T0, interest |-> FALSE, opt |-> "empty", pos |-> 0]

Init ==
  /\ head = End /\ tail = End /\ next = [n \in Nodes \cup Markers |-> Null]
  /\ st = [n \in Nodes |-> new(n)] /\ token = [n \in Nodes |-> [i \in 0..2 |-> T0]]
  /\ queue = [n \in Nodes |-> n \in Attached] /\ update_lock = [n \in Nodes |-> FALSE]
  /\ ref = [n \in Nodes |-> Cardinality({t \in Setters : NodeOf[t] = n}) + 1
                              + (IF n \in Attached THEN 1 ELSE 0)]
  /\ freed = {} /\ pipe = FALSE
  /\ pc = [t \in Threads |-> "idle"] /\ obj = [t \in Threads |-> Null]
  /\ prev = [t \in Threads |-> Null] /\ calls = [t \in Threads |-> 0]
  /\ upd = [t \in Updaters |-> Deregistration]
  /\ after = [t \in Threads |-> "idle"]
  /\ wait = FALSE /\ room = 0 /\ until = Null /\ nx = Null /\ closing = FALSE
  /\ latest = [n \in Nodes |-> T0] /\ owed = {} /\ want = T0

Goto(t, l) == pc' = [pc EXCEPT ![t] = l]
Call(t, max) == calls[t] < max /\ calls' = [calls EXCEPT ![t] = @ + 1]

\* release_node: the last reference frees the node.
release_node(n) ==
  /\ ref' = [ref EXCEPT ![n] = @ - 1]
  /\ freed' = IF ref[n] = 1 THEN freed \cup {n} ELSE freed
-----------------------------------------------------------------------------
(* enqueue_node, by a user's thread or by the poller                       *)

\* The exchange of head_readiness; on a closed queue the caller drops the
\* poller's reference to the node it was to enqueue.
Swap(t) ==
  /\ pc[t] = "swap"
  /\ IF head = Closed
     THEN /\ IF obj[t] \in Nodes THEN release_node(obj[t]) ELSE UNCHANGED mem
          /\ Goto(t, after[t]) /\ next' = [next EXCEPT ![obj[t]] = Null]
          /\ UNCHANGED <<head, prev>>
     ELSE /\ prev' = [prev EXCEPT ![t] = head] /\ head' = obj[t]
          /\ next' = [next EXCEPT ![obj[t]] = Null]
          /\ Goto(t, "link") /\ UNCHANGED mem
  /\ UNCHANGED <<tail, node, pipe, obj, calls, upd, after, local, ghost>>

\* The node is linked and nobody is told.
M_LinkSilent(t) ==
  /\ pc[t] = "link"
  /\ next' = [next EXCEPT ![prev[t]] = obj[t]]
  /\ Goto(t, after[t])
  /\ prev' = [prev EXCEPT ![t] = Null] /\ obj' = [obj EXCEPT ![t] = Null]
  /\ UNCHANGED <<head, tail, node, mem, pipe, calls, upd, after, local, ghost>>

\* The store that links the node behind its predecessor; enqueue_with_wakeup
\* wakes the poller when the predecessor is the sleep marker.
Link(t) ==
  /\ pc[t] = "link"
  /\ next' = [next EXCEPT ![prev[t]] = obj[t]]
  /\ Goto(t, IF t # Poller /\ prev[t] = Sleep THEN "wake" ELSE after[t])
  /\ prev' = [prev EXCEPT ![t] = Null] /\ obj' = [obj EXCEPT ![t] = Null]
  /\ UNCHANGED <<head, tail, node, mem, pipe, calls, upd, after, local, ghost>>

wakeup(t) ==
  /\ pc[t] = "wake" /\ pipe' = TRUE /\ Goto(t, after[t])
  /\ UNCHANGED <<list, node, mem, obj, prev, calls, upd, after, local, ghost>>

\* The thread that sets the queued flag enqueues the node.
Enqueue(t, n, toggled) ==
  /\ obj' = [obj EXCEPT ![t] = IF toggled THEN n ELSE Null]
  /\ Goto(t, IF toggled /\ queue[n] THEN "swap" ELSE "idle")
-----------------------------------------------------------------------------
(* SetReadiness and Registration                                           *)

set_readiness(t) ==
  LET n == NodeOf[t] IN
  /\ t \in Setters /\ pc[t] = "idle" /\ Call(t, MaxSets)
  /\ \E r \in BOOLEAN :
       LET s == [st[n] EXCEPT !.ready = r]
           q == [s EXCEPT !.queued = @ \/ Effective(s)] IN
       IF st[n].dropped THEN UNCHANGED <<st, owed, pc, obj>>
       ELSE /\ st' = [st EXCEPT ![n] = q]
            /\ owed' = IF Effective(s) THEN owed \cup {n} ELSE owed \ {n}
            /\ Enqueue(t, n, ~st[n].queued /\ q.queued)
  /\ UNCHANGED <<list, token, queue, update_lock, mem, pipe, prev, upd, after, local,
                 latest, want>>

\* update attaches the node to the queue first; the queue then owns a reference.
Attach(t) ==
  LET n == NodeOf[t] IN
  /\ t \in Updaters /\ pc[t] = "idle" /\ ~closing /\ Call(t, MaxUpdates)
  /\ ~st[n].dropped
  /\ \E u \in Registrations \cup {Deregistration} : upd' = [upd EXCEPT ![t] = u]
  /\ queue' = [queue EXCEPT ![n] = TRUE]
  /\ Goto(t, IF queue[n] THEN "lock" ELSE "own")
  /\ UNCHANGED <<list, st, token, update_lock, mem, pipe, obj, prev, after, local, ghost>>

AddRef(t) ==
  /\ pc[t] = "own" /\ ref' = [ref EXCEPT ![NodeOf[t]] = @ + 1] /\ Goto(t, "lock")
  /\ UNCHANGED <<list, node, freed, pipe, obj, prev, calls, upd, after, local, ghost>>

\* A slot that is neither the poller's nor the current one.
next_token_pos(s) == IF s.rd # s.wr THEN 3 - s.rd - s.wr ELSE (s.wr + 1) % 3

\* A concurrent update is discarded; otherwise the state word is read and the
\* slot of a changed token is chosen.
Lock(t) ==
  LET n == NodeOf[t]
      moves == upd[t].token # token[n][st[n].wr] IN
  /\ pc[t] = "lock"
  /\ IF update_lock[n] THEN Goto(t, "idle") /\ UNCHANGED <<upd, update_lock>>
     ELSE /\ update_lock' = [update_lock EXCEPT ![n] = TRUE]
          /\ upd' = [upd EXCEPT ![t].pos = IF moves THEN next_token_pos(st[n]) ELSE st[n].wr]
          /\ Goto(t, IF moves THEN "write" ELSE "cas")
  /\ UNCHANGED <<list, st, token, queue, mem, pipe, obj, prev, calls, after, local, ghost>>

WriteToken(t) ==
  /\ pc[t] = "write" /\ Goto(t, "cas")
  /\ token' = [token EXCEPT ![NodeOf[t]][upd[t].pos] = upd[t].token]
  /\ UNCHANGED <<list, st, queue, update_lock, mem, pipe, obj, prev, calls, upd, after,
                 local, ghost>>

\* The compare-and-swap publishes slot, interest and options, and queues the node
\* when it is ready for them.
Publish(t) ==
  LET n == NodeOf[t]
      s == [st[n] EXCEPT !.wr = upd[t].pos, !.interest = upd[t].interest, !.opt = upd[t].opt]
      q == [s EXCEPT !.queued = @ \/ Effective(s)] IN
  /\ pc[t] = "cas" /\ st' = [st EXCEPT ![n] = q]
  /\ latest' = [latest EXCEPT ![n] = upd[t].token]
  /\ owed' = IF Effective(s) THEN owed \cup {n} ELSE owed \ {n}
  /\ obj' = [obj EXCEPT ![t] = IF ~st[n].queued /\ q.queued THEN n ELSE Null]
  /\ Goto(t, "unlock")
  /\ UNCHANGED <<list, token, queue, update_lock, mem, pipe, prev, calls, upd, after, local,
                 want>>

Unlock(t) ==
  /\ pc[t] = "unlock" /\ update_lock' = [update_lock EXCEPT ![NodeOf[t]] = FALSE]
  /\ Goto(t, IF obj[t] # Null THEN "swap" ELSE "idle")
  /\ UNCHANGED <<list, st, token, queue, mem, pipe, obj, prev, calls, upd, after, local,
                 ghost>>

\* closing the Registration marks the node, so that the poller releases it, and
\* then drops its own reference.
DropRegistration(n) ==
  LET Us == {t \in Updaters : NodeOf[t] = n} IN
  /\ Us # {} /\ \A t \in Us : pc[t] = "idle"
  /\ ~st[n].dropped
  /\ st' = [st EXCEPT ![n].dropped = TRUE, ![n].queued = TRUE] /\ owed' = owed \ {n}
  /\ LET t == CHOOSE t \in Us : TRUE IN
       /\ obj' = [obj EXCEPT ![t] = n] /\ after' = [after EXCEPT ![t] = "release"]
       /\ pc' = [u \in Threads |-> IF u \notin Us THEN pc[u] ELSE IF u # t THEN "gone"
                   ELSE IF ~st[n].queued /\ queue[n] THEN "swap" ELSE "release"]
  /\ UNCHANGED <<list, token, queue, update_lock, mem, pipe, prev, calls, upd, local,
                 latest, want>>

Release(t) ==
  /\ pc[t] = "release" /\ Goto(t, "gone") /\ release_node(NodeOf[t])
  /\ UNCHANGED <<list, node, pipe, obj, prev, calls, upd, after, local, ghost>>

DropSetReadiness(t) ==
  /\ t \in Setters /\ pc[t] = "idle" /\ Goto(t, "gone") /\ release_node(NodeOf[t])
  /\ UNCHANGED <<list, node, pipe, obj, prev, calls, upd, after, local, ghost>>
-----------------------------------------------------------------------------
(* Poll::poll2                                                             *)

PollCall == /\ pc[Poller] = "idle" /\ Call(Poller, MaxPolls) /\ Goto(Poller, "select")
            /\ room' = 0 /\ until' = Null /\ nx' = Null /\ obj' = [obj EXCEPT ![Poller] = Null]

\* With a zero timeout the queue is not prepared and the selector does not block.
PollNow ==
  /\ PollCall /\ wait' = FALSE /\ UNCHANGED <<list, node, mem, pipe, prev, upd, after, closing, ghost>>

\* prepare_for_sleep: only an empty queue takes the sleep marker.
PrepareForSleep ==
  /\ PollCall
  /\ IF tail = End
     THEN /\ next' = [next EXCEPT ![Sleep] = Null] /\ wait' = (head = End)
          /\ IF head = End THEN head' = Sleep /\ tail' = Sleep ELSE UNCHANGED <<head, tail>>
     ELSE /\ wait' = (tail = Sleep /\ head = Sleep) /\ UNCHANGED list
  /\ UNCHANGED <<node, mem, pipe, prev, upd, after, closing, ghost>>

\* The selector returns when the pipe is readable, when a socket is ready, after
\* the timeout (sockets leave `free' slots for the queue), or with an error, which
\* skips the queue.
Select ==
  /\ pc[Poller] = "select"
  /\ \/ \E free \in 0..MaxRoom :
          /\ room' = free
          /\ Goto(Poller, IF pipe THEN "cleanup" ELSE IF free = 0 THEN "full" ELSE "dequeue")
     \/ Goto(Poller, "idle") /\ UNCHANGED room
  /\ UNCHANGED <<list, node, mem, pipe, obj, prev, calls, upd, after, wait, until, nx,
                 closing, ghost>>

cleanup ==
  /\ pc[Poller] = "cleanup" /\ pipe' = FALSE
  /\ Goto(Poller, IF room = 0 THEN "full" ELSE "dequeue")
  /\ UNCHANGED <<list, node, mem, obj, prev, calls, upd, after, local, ghost>>

\* Only the poller moves the tail, so the sleep marker in the tail position is
\* replaced by the end marker when it is also the head.
clear_sleep_marker ==
  IF tail = Sleep
  THEN /\ next' = [next EXCEPT ![End] = Null]
       /\ IF head = Sleep THEN head' = End /\ tail' = End ELSE UNCHANGED <<head, tail>>
  ELSE UNCHANGED list

\* The event buffer is full: the queue is not drained, but is no longer asleep.
Full ==
  /\ pc[Poller] = "full" /\ clear_sleep_marker /\ Goto(Poller, "idle")
  /\ UNCHANGED <<node, mem, pipe, obj, prev, calls, upd, after, local, ghost>>
-----------------------------------------------------------------------------
(* ReadinessQueue::poll and dequeue_node                                   *)

\* Empty and Inconsistent end poll; drop goes on until the queue is empty.
Stop == IF closing THEN "dead" ELSE "idle"
Unsure == IF closing THEN "dequeue" ELSE "idle"

\* The tail is a node: return it if it has a successor.
Decide(tl, n) ==
  IF tl = until THEN tail' = tl /\ Goto(Poller, Stop) /\ UNCHANGED obj
  ELSE IF n # Null THEN tail' = n /\ Goto(Poller, "data") /\ obj' = [obj EXCEPT ![Poller] = tl]
  ELSE tail' = tl /\ Goto(Poller, "last") /\ UNCHANGED obj

\* The first load of the tail's next pointer; a marker in the tail is skipped.
Dequeue ==
  /\ pc[Poller] = "dequeue" /\ (room > 0 \/ closing)
  /\ IF tail \in Markers
     THEN IF next[tail] = Null THEN Goto(Poller, "empty") /\ UNCHANGED <<tail, obj>>
          ELSE tail' = next[tail] /\ Goto(Poller, "second") /\ UNCHANGED obj
     ELSE Decide(tail, next[tail])
  /\ UNCHANGED <<head, next, node, mem, pipe, prev, calls, upd, after, local, ghost>>

Empty ==
  /\ pc[Poller] = "empty" /\ clear_sleep_marker /\ Goto(Poller, Stop)
  /\ UNCHANGED <<node, mem, pipe, obj, prev, calls, upd, after, local, ghost>>

SecondLoad ==
  /\ pc[Poller] = "second" /\ Decide(tail, next[tail])
  /\ UNCHANGED <<head, next, node, mem, pipe, prev, calls, upd, after, local, ghost>>

\* The only node left: it may go if it is the head, once the end marker follows it.
Last ==
  /\ pc[Poller] = "last"
  /\ IF head # tail THEN Goto(Poller, Unsure) /\ UNCHANGED obj
     ELSE Goto(Poller, "swap") /\ obj' = [obj EXCEPT ![Poller] = End]
  /\ after' = [after EXCEPT ![Poller] = "third"]
  /\ UNCHANGED <<list, node, mem, pipe, prev, calls, upd, local, ghost>>

Third ==
  /\ pc[Poller] = "third"
  /\ IF next[tail] # Null
     THEN tail' = next[tail] /\ Goto(Poller, "data") /\ obj' = [obj EXCEPT ![Poller] = tail]
     ELSE Goto(Poller, Unsure) /\ UNCHANGED <<tail, obj>>
  /\ UNCHANGED <<head, next, node, mem, pipe, prev, calls, upd, after, local, ghost>>

\* The node's state word after it was taken from the queue.
Processed(s) ==
  LET d == IF is_edge(s) \/ ~Effective(s) THEN [s EXCEPT !.queued = FALSE] ELSE s
      o == IF s.opt = "oneshot" /\ Effective(s) THEN [d EXCEPT !.interest = FALSE] ELSE d
  IN [o EXCEPT !.rd = s.wr]

\* A dropped node is released; another has its word exchanged, is queued again if
\* it is level-triggered and ready, and reported if it is ready.
Process ==
  LET n == obj[Poller]
      s == st[n]
      p == Processed(s) IN
  /\ pc[Poller] = "data" /\ ~closing
  /\ IF s.dropped THEN release_node(n) /\ Goto(Poller, "dequeue") /\ UNCHANGED <<st, owed, until, nx, want, after>>
     ELSE /\ st' = [st EXCEPT ![n] = p] /\ owed' = owed \ {n} /\ UNCHANGED mem
          /\ until' = IF p.queued /\ until = Null THEN n ELSE until
          /\ nx' = n /\ want' = latest[n]
          /\ after' = [after EXCEPT ![Poller] = IF Effective(s) THEN "report" ELSE "dequeue"]
          /\ Goto(Poller, IF p.queued THEN "swap" ELSE after'[Poller])
  /\ UNCHANGED <<list, token, queue, update_lock, pipe, obj, prev, calls, upd, wait, room,
                 closing, latest>>

\* The event carries the token found in the poller's slot.
Report ==
  /\ pc[Poller] = "report" /\ room' = room - 1
  /\ Goto(Poller, IF room = 1 THEN "idle" ELSE "dequeue")
  /\ UNCHANGED <<list, node, mem, pipe, obj, prev, calls, upd, after, wait, until, nx,
                 closing, latest, owed, want>>
-----------------------------------------------------------------------------
(* closing the queue: no update is under way, since each borrows the Poll *)

DropQueue ==
  /\ pc[Poller] = "idle" /\ \A t \in Updaters : pc[t] \notin {"own", "lock", "write", "cas", "unlock"}
  /\ obj' = [obj EXCEPT ![Poller] = Closed] /\ after' = [after EXCEPT ![Poller] = "dequeue"]
  /\ closing' = TRUE /\ until' = Null /\ Goto(Poller, "swap")
  /\ UNCHANGED <<list, node, mem, pipe, prev, calls, upd, wait, room, nx, ghost>>

Drain ==
  /\ pc[Poller] = "data" /\ closing /\ release_node(obj[Poller]) /\ Goto(Poller, "dequeue")
  /\ UNCHANGED <<list, node, pipe, obj, prev, calls, upd, after, local, ghost>>

Done == (\A t \in Users : pc[t] = "gone") /\ pc[Poller] = "dead" /\ UNCHANGED vars
-----------------------------------------------------------------------------
UserStep(t) == \/ set_readiness(t) \/ Attach(t) \/ AddRef(t) \/ Lock(t) \/ WriteToken(t)
               \/ Publish(t) \/ Unlock(t) \/ Release(t) \/ DropSetReadiness(t)
               \/ Swap(t) \/ Link(t) \/ wakeup(t)

PollerStep ==
  \/ PollNow \/ PrepareForSleep \/ Select \/ cleanup \/ Full \/ Dequeue \/ Empty \/ SecondLoad
  \/ Last \/ Third \/ Process \/ Report \/ DropQueue \/ Drain
  \/ Swap(Poller) \/ Link(Poller)

Next == (\E t \in Users : UserStep(t)) \/ PollerStep \/ (\E n \in Nodes : DropRegistration(n)) \/ Done

Spec == Init /\ [][Next]_vars
-----------------------------------------------------------------------------
TypeOK ==
  /\ {head, tail} \subseteq Nodes \cup Markers
  /\ st \in [Nodes -> [ready : BOOLEAN, interest : BOOLEAN, opt : Opts \cup {"empty", "level"},
                       queued : BOOLEAN, dropped : BOOLEAN, rd : 0..2, wr : 0..2]]

\* The queue as it will be once every started enqueue has stored its link.
Succ(m) == LET ts == {t \in Threads : pc[t] = "link" /\ prev[t] = m}
           IN IF ts # {} THEN {obj[t] : t \in ts} ELSE {next[m]} \ {Null}
Reach == LET r[k \in 0..Cardinality(Nodes) + 3] ==
               IF k = 0 THEN {tail} ELSE r[k - 1] \cup UNION {Succ(m) : m \in r[k - 1]}
         IN r[Cardinality(Nodes) + 3]
Holders(n) == {t \in Threads : obj[t] = n /\ pc[t] \in {"swap", "unlock", "data"}}

\* No thread is about to use a node whose memory was released; when all handles and the
\* queue are gone every node was released, except one whose link came so late that the
\* drop of the queue did not see it (release_node).
NodesAlive ==
  /\ Reach \cap freed = {}
  /\ \A t \in Threads : /\ pc[t] \in {"swap", "link", "data"} => obj[t] \notin freed
                        /\ pc[t] = "link" => prev[t] \notin freed
                        /\ t \in Users /\ pc[t] # "gone" => NodeOf[t] \notin freed
  /\ pc[Poller] = "report" => nx \notin freed
  /\ (\A t \in Users : pc[t] \in {"gone", "idle"} /\ (pc[t] = "idle" => NodeOf[t] \in freed))
       /\ pc[Poller] = "dead" => {NodeOf[t] : t \in Updaters} \subseteq freed \cup Reach

\* The queued flag means what it says: a node that carries it is in the queue once,
\* or in the hands of the one thread that set the flag, and a thread that links a node
\* finds its predecessor's next pointer null (the assertion of enqueue_node).
QueuedOnce ==
  /\ \A n \in Nodes : ~closing /\ ~st[n].dropped =>
       /\ Cardinality(Holders(n)) + (IF n \in Reach THEN 1 ELSE 0)
            = (IF st[n].queued THEN 1 ELSE 0)
       /\ n \in owed => st[n].queued
  /\ \A t \in Threads : pc[t] = "link" => next[prev[t]] = Null

\* The poller does not sleep on a queue with a node in it, unless somebody is about
\* to wake it (prepare_for_sleep against enqueue_node).
SleepsWhenEmpty ==
  pc[Poller] = "select" /\ wait /\ ~pipe =>
    head = Sleep \/ \E t \in Users : pc[t] = "wake" \/ (pc[t] = "link" /\ prev[t] = Sleep)

\* An event carries the token of the last update the poller has seen, from a slot that
\* no updater writes to (the three token fields).
TokenSound ==
  pc[Poller] = "report" =>
    /\ token[nx][st[nx].rd] = want
    /\ \A t \in Updaters : ~(pc[t] = "write" /\ NodeOf[t] = nx /\ upd[t].pos = st[nx].rd)

ReadinessSound == NodesAlive /\ QueuedOnce /\ SleepsWhenEmpty /\ TokenSound

-----------------------------------------------------------------------------
(***************************************************************************)
(* Poll::poll1 (src/krse/io/driver/linux/poll.rs): threads that poll       *)
(* concurrently take turns.  lock_state holds a locked bit and the number  *)
(* of waiters; a mutex and a condition variable put the waiters to sleep.  *)
(* One step per atomic operation; what happens between them under the      *)
(* mutex is private.                                                       *)
(***************************************************************************)

CONSTANTS PollThreads, Timed  \* Timed: threads that poll with a timeout

VARIABLES
  locked, waiters,  \* lock_state
  mutex, sleeping,  \* the holder of the mutex, or {}; threads in the condition variable
  poll_pc, curr, inc, timeout, polls  \* a thread: where, the state it saw, counted, time left

pollVars == <<locked, waiters, mutex, sleeping, poll_pc, curr, inc, timeout, polls>>

PollInit ==
  /\ locked = FALSE /\ waiters = 0 /\ mutex = {} /\ sleeping = {}
  /\ poll_pc = [t \in PollThreads |-> "out"] /\ curr = [t \in PollThreads |-> <<FALSE, 0>>]
  /\ inc = {} /\ timeout = PollThreads /\ polls = [t \in PollThreads |-> 0]

state == <<locked, waiters>>
PollGoto(t, l) == poll_pc' = [poll_pc EXCEPT ![t] = l]
See(t) == curr' = [curr EXCEPT ![t] = state]

\* The fast path; timeout holds the threads whose time is not over.
Enter(t) ==
  /\ poll_pc[t] = "out" /\ polls[t] < MaxPolls /\ polls' = [polls EXCEPT ![t] = @ + 1] /\ See(t)
  /\ timeout' \in {timeout \cup {t}} \cup (IF t \in Timed THEN {timeout \ {t}} ELSE {})
  /\ IF state = <<FALSE, 0>> THEN locked' = TRUE /\ PollGoto(t, "in")
     ELSE PollGoto(t, "mutex") /\ UNCHANGED locked
  /\ UNCHANGED <<waiters, mutex, sleeping, inc>>

TakeMutex(t) ==
  /\ poll_pc[t] = "mutex" /\ mutex = {} /\ mutex' = {t} /\ PollGoto(t, "loop")
  /\ UNCHANGED <<locked, waiters, sleeping, curr, inc, timeout, polls>>

\* The lock looked free: take it, and give the waiter count back.
Grab(t) ==
  /\ poll_pc[t] = "loop" /\ ~curr[t][1] /\ See(t)
  /\ IF state = curr[t]
     THEN /\ locked' = TRUE /\ waiters' = IF t \in inc THEN waiters - 1 ELSE waiters
          /\ inc' = inc \ {t} /\ mutex' = {} /\ PollGoto(t, "in")
     ELSE UNCHANGED <<locked, waiters, inc, mutex, poll_pc>>
  /\ UNCHANGED <<sleeping, timeout, polls>>

\* It is held and no time is left.
GiveUp(t) ==
  /\ poll_pc[t] = "loop" /\ curr[t][1] /\ t \notin timeout
  /\ waiters' = IF t \in inc THEN waiters - 1 ELSE waiters
  /\ inc' = inc \ {t} /\ mutex' = {} /\ PollGoto(t, "out")
  /\ UNCHANGED <<locked, sleeping, curr, timeout, polls>>

\* It is held: be counted as a waiter while it is, then wait.
Count(t) ==
  /\ poll_pc[t] = "loop" /\ curr[t][1] /\ t \in timeout /\ t \notin inc
  /\ IF state = curr[t]
     THEN /\ waiters' = waiters + 1 /\ inc' = inc \cup {t}
          /\ sleeping' = sleeping \cup {t} /\ mutex' = {} /\ PollGoto(t, "wait") /\ UNCHANGED curr
     ELSE See(t) /\ UNCHANGED <<waiters, inc, sleeping, mutex, poll_pc>>
  /\ UNCHANGED <<locked, timeout, polls>>

WaitAgain(t) ==
  /\ poll_pc[t] = "loop" /\ curr[t][1] /\ t \in timeout /\ t \in inc
  /\ sleeping' = sleeping \cup {t} /\ mutex' = {} /\ PollGoto(t, "wait")
  /\ UNCHANGED <<locked, waiters, curr, inc, timeout, polls>>

\* Notified, spuriously woken, or out of time; the mutex is taken again.
Expire(t) ==
  /\ poll_pc[t] = "wait" /\ t \in Timed /\ t \in sleeping
  /\ sleeping' = sleeping \ {t} /\ timeout' = timeout \ {t}
  /\ UNCHANGED <<locked, waiters, mutex, poll_pc, curr, inc, polls>>

Spurious(t) ==
  /\ poll_pc[t] = "wait" /\ t \in sleeping /\ sleeping' = sleeping \ {t}
  /\ UNCHANGED <<locked, waiters, mutex, poll_pc, curr, inc, timeout, polls>>

Resume(t) ==
  /\ poll_pc[t] = "wait" /\ t \notin sleeping /\ mutex = {}
  /\ mutex' = {t} /\ See(t) /\ PollGoto(t, "loop")
  /\ UNCHANGED <<locked, waiters, sleeping, inc, timeout, polls>>

\* After poll2: unlock, and notify one waiter under the mutex if there are any.
Leave(t) ==
  /\ poll_pc[t] = "in" /\ locked' = FALSE /\ PollGoto(t, IF waiters # 0 THEN "notify" ELSE "out")
  /\ UNCHANGED <<waiters, mutex, sleeping, curr, inc, timeout, polls>>

Notify(t) ==
  /\ poll_pc[t] = "notify" /\ mutex = {} /\ PollGoto(t, "out")
  /\ IF sleeping = {} THEN UNCHANGED sleeping ELSE \E u \in sleeping : sleeping' = sleeping \ {u}
  /\ UNCHANGED <<locked, waiters, mutex, curr, inc, timeout, polls>>

PollNext == \E t \in PollThreads : \/ Enter(t) \/ TakeMutex(t) \/ Grab(t) \/ GiveUp(t) \/ Count(t)
                                   \/ WaitAgain(t) \/ Expire(t) \/ Spurious(t) \/ Resume(t) \/ Leave(t) \/ Notify(t)

PollSpec == PollInit /\ [][PollNext]_pollVars
-----------------------------------------------------------------------------
\* One thread is in poll2 at a time, and the waiter count is the number of threads that
\* are counted (lock_state).
OneAtATime ==
  /\ Cardinality({t \in PollThreads : poll_pc[t] = "in"}) = (IF locked THEN 1 ELSE 0)
  /\ waiters = Cardinality(inc)

\* Nobody sleeps beside a free lock: if the lock is free and a thread sleeps, somebody is
\* about to notify, or a thread that was woken has yet to look.
NoSleeperForgotten ==
  ~locked /\ sleeping # {} =>
    \E t \in PollThreads : \/ poll_pc[t] = "notify" \/ (poll_pc[t] = "wait" /\ t \notin sleeping)
                           \/ (poll_pc[t] = "loop" /\ t \in inc)

PollLockSound == OneAtATime /\ NoSleeperForgotten
-----------------------------------------------------------------------------
(***************************************************************************)
(* PollLockSound for any set of threads.  A thread that looks has the      *)
(* mutex, and only counted threads wait.  A counted thread that believes   *)
(* the lock is held looked under the mutex: if the lock is free by now,    *)
(* who left has yet to notify, and needs the mutex for it (Looking).       *)
(***************************************************************************)
PollTypeOK ==
  /\ locked \in BOOLEAN /\ waiters \in Nat
  /\ poll_pc \in [PollThreads -> {"out", "mutex", "loop", "wait", "in", "notify"}]
  /\ curr \in [PollThreads -> BOOLEAN \X Nat]
  /\ inc \subseteq PollThreads /\ sleeping \subseteq PollThreads

Exclusive ==
  /\ \A t, u \in PollThreads : poll_pc[t] = "in" /\ poll_pc[u] = "in" => t = u
  /\ locked <=> \E t \in PollThreads : poll_pc[t] = "in"
  /\ \A t \in PollThreads : poll_pc[t] = "loop" => mutex = {t}

Counted ==
  /\ IsFiniteSet(inc) /\ waiters = Cardinality(inc)
  /\ \A t \in inc : poll_pc[t] \in {"loop", "wait"}
  /\ \A t \in PollThreads : poll_pc[t] = "wait" => t \in inc
  /\ \A t \in sleeping : poll_pc[t] = "wait"

Looking ==
  \A t \in inc : poll_pc[t] = "loop" /\ curr[t][1] /\ ~locked =>
    \E u \in PollThreads : poll_pc[u] = "notify"

PollInv == PollTypeOK /\ Exclusive /\ Counted /\ Looking /\ NoSleeperForgotten

\* The number of counted threads.
LEMMA Counting ==
  ASSUME NEW S, IsFiniteSet(S)
  PROVE  /\ Cardinality(S) \in Nat /\ (Cardinality(S) = 0 <=> S = {})
         /\ \A x : x \notin S => /\ IsFiniteSet(S \cup {x})
                                 /\ Cardinality(S \cup {x}) = Cardinality(S) + 1
         /\ \A x \in S : /\ IsFiniteSet(S \ {x}) /\ Cardinality(S \ {x}) = Cardinality(S) - 1
BY FS_CardinalityType, FS_EmptySet, FS_AddElement, FS_RemoveElement, Zenon

\* Giving the count back (Grab and GiveUp).
LEMMA Uncounting ==
  ASSUME IsFiniteSet(inc), waiters = Cardinality(inc), NEW t,
         waiters' = IF t \in inc THEN waiters - 1 ELSE waiters, inc' = inc \ {t}
  PROVE  IsFiniteSet(inc') /\ waiters' = Cardinality(inc') /\ waiters' \in Nat
<1>1. CASE t \in inc
  BY <1>1, Counting, FS_RemoveElement, FS_CardinalityType
<1>2. CASE t \notin inc
  <2>1. inc' = inc
    BY <1>2, Zenon
  <2> QED
    BY <2>1, <1>2, Counting, Zenon
<1> QED
  BY <1>1, <1>2, Zenon

\* The invariant holds at first.
LEMMA PollInitInv == PollInit => PollInv
<1> SUFFICES ASSUME PollInit PROVE PollInv
  OBVIOUS
<1>1. PollTypeOK
  BY Zenon DEF PollInit, PollTypeOK
<1>2. Exclusive /\ Looking /\ NoSleeperForgotten
  BY Zenon DEF PollInit, Exclusive, Looking, NoSleeperForgotten
<1>3. Counted
  BY FS_EmptySet, Zenon DEF PollInit, Counted
<1> QED
  BY <1>1, <1>2, <1>3, Zenon DEF PollInv

\* Every step of a thread preserves it.
LEMMA PollStepInv == PollInv /\ [PollNext]_pollVars => PollInv'
<1> USE DEF PollInv, PollTypeOK, Exclusive, Counted, Looking, NoSleeperForgotten
<1>0. CASE UNCHANGED pollVars
  BY <1>0, Zenon DEF pollVars
<1> SUFFICES ASSUME PollInv, NEW t \in PollThreads,
                    \/ Enter(t) \/ TakeMutex(t) \/ Grab(t) \/ GiveUp(t) \/ Count(t)
                    \/ WaitAgain(t) \/ Expire(t) \/ Spurious(t) \/ Resume(t) \/ Leave(t) \/ Notify(t)
             PROVE  PollInv'
  BY <1>0, Zenon DEF PollNext
<1>1. CASE Enter(t)
  <2>1. PollTypeOK'
    BY <1>1, Zenon DEF Enter, See, PollGoto, state
  <2>2. Exclusive'
    <3>1. CASE state = <<FALSE, 0>>
      <4>1. ~locked /\ locked' = TRUE /\ PollGoto(t, "in") /\ UNCHANGED mutex
        BY <1>1, <3>1, Zenon DEF Enter, state
      <4> QED
        BY <4>1, Zenon DEF PollGoto
    <3>2. CASE state # <<FALSE, 0>>
      <4>1. UNCHANGED <<locked, mutex>> /\ PollGoto(t, "mutex") /\ poll_pc[t] = "out"
        BY <1>1, <3>2, Zenon DEF Enter
      <4> QED
        BY <4>1, Zenon DEF PollGoto
    <3> QED
      BY <3>1, <3>2, Zenon
  <2>3. Counted'
    BY <1>1, Zenon DEF Enter, PollGoto
  <2>4. Looking'
    BY <1>1, Zenon DEF Enter, See, PollGoto
  <2>5. NoSleeperForgotten'
    BY <1>1, Zenon DEF Enter, PollGoto
  <2> QED
    BY <2>1, <2>2, <2>3, <2>4, <2>5, Zenon
<1>2. CASE TakeMutex(t)
  BY <1>2, Zenon DEF TakeMutex, PollGoto
<1>3. CASE Grab(t)
  <2>1. CASE state = curr[t]
    <3>1. IsFiniteSet(inc') /\ waiters' = Cardinality(inc') /\ waiters' \in Nat
      BY <1>3, <2>1, Uncounting, Zenon DEF Grab
    <3> QED
      <4>0. ~locked /\ locked' /\ inc' = inc \ {t} /\ mutex' = {} /\ PollGoto(t, "in")
            /\ See(t) /\ UNCHANGED sleeping
        BY <1>3, <2>1 DEF Grab, state
      <4>1. PollTypeOK'
        BY <1>3, <2>1, <3>1, Zenon DEF Grab, See, PollGoto, state
      <4>2. Exclusive'
        BY <1>3, <4>0, Zenon DEF Grab, PollGoto
      <4>3. Counted'
        BY <1>3, <3>1, <4>0, Zenon DEF Grab, PollGoto
      <4>4. Looking' /\ NoSleeperForgotten'
        BY <4>0, Zenon
      <4> QED
        BY <4>1, <4>2, <4>3, <4>4, Zenon
  <2>2. CASE state # curr[t]
    BY <1>3, <2>2, Zenon DEF Grab, See, state
  <2> QED
    BY <2>1, <2>2, Zenon
<1>4. CASE GiveUp(t)
  <2>1. IsFiniteSet(inc') /\ waiters' = Cardinality(inc') /\ waiters' \in Nat
    BY <1>4, Uncounting, Zenon DEF GiveUp
  <2> QED
    BY <1>4, <2>1 DEF GiveUp, PollGoto
<1>5. CASE Count(t)
  <2>1. CASE state = curr[t]
    <3>1. IsFiniteSet(inc') /\ waiters' = Cardinality(inc') /\ waiters' \in Nat
      BY <1>5, <2>1, Counting DEF Count
    <3> QED
      <4>0. locked /\ UNCHANGED locked
        BY <1>5, <2>1 DEF Count, state
      <4>1. PollTypeOK'
        BY <1>5, <2>1, <3>1 DEF Count, PollGoto
      <4>2. Exclusive'
        BY <1>5, <2>1 DEF Count, PollGoto
      <4>3. Counted'
        BY <1>5, <2>1, <3>1 DEF Count, PollGoto
      <4>4. Looking' /\ NoSleeperForgotten'
        BY <4>0, Zenon
      <4> QED
        BY <4>1, <4>2, <4>3, <4>4, Zenon
  <2>2. CASE state # curr[t]
    BY <1>5, <2>2 DEF Count, See, state
  <2> QED
    BY <2>1, <2>2, Zenon
<1>6. CASE WaitAgain(t)
  <2>1. PollTypeOK' /\ Exclusive'
    BY <1>6 DEF WaitAgain, PollGoto
  <2>2. Counted'
    BY <1>6 DEF WaitAgain, PollGoto
  <2>3. ~locked => \E u \in PollThreads : poll_pc[u] = "notify" /\ u # t
    BY <1>6, Zenon DEF WaitAgain
  <2>4. ~locked' => \E u \in PollThreads : poll_pc'[u] = "notify"
    BY <1>6, <2>3, Zenon DEF WaitAgain, PollGoto
  <2>5. Looking' /\ NoSleeperForgotten'
    BY <2>4, Zenon
  <2> QED
    BY <2>1, <2>2, <2>5, Zenon
<1>7. CASE Expire(t)
  BY <1>7, Zenon DEF Expire
<1>8. CASE Spurious(t)
  BY <1>8, Zenon DEF Spurious
<1>9. CASE Resume(t)
  BY <1>9, Zenon DEF Resume, See, PollGoto, state
<1>10. CASE Leave(t)
  <2>1. waiters = 0 => inc = {}
    BY Counting, Zenon
  <2> QED
    BY <1>10, <2>1, Zenon DEF Leave, PollGoto
<1>11. CASE Notify(t)
  BY <1>11, Zenon DEF Notify, PollGoto
<1> QED
  BY <1>1, <1>2, <1>3, <1>4, <1>5, <1>6, <1>7, <1>8, <1>9, <1>10, <1>11, Zenon

\* It implies the property.
LEMMA PollInvSound == PollInv => PollLockSound
<1> SUFFICES ASSUME PollInv PROVE Cardinality({t \in PollThreads : poll_pc[t] = "in"}) = (IF locked THEN 1 ELSE 0)
  BY Zenon DEF PollInv, Counted, PollLockSound, OneAtATime
<1>1. CASE locked
  <2>1. PICK t \in PollThreads : {u \in PollThreads : poll_pc[u] = "in"} = {t}
    BY <1>1 DEF PollInv, Exclusive
  <2> QED
    BY <1>1, <2>1, FS_Singleton, Zenon
<1>2. CASE ~locked
  <2>1. {u \in PollThreads : poll_pc[u] = "in"} = {}
    BY <1>2, Zenon DEF PollInv, Exclusive
  <2> QED
    BY <1>2, <2>1, FS_EmptySet, Zenon
<1> QED
  BY <1>1, <1>2, Zenon

\* Threads that poll concurrently take turns, and none sleeps beside a free lock that
\* nobody is about to announce (Poll::poll1), however many threads poll and however often.
THEOREM PollersTakeTurns == PollSpec => []PollLockSound
<1>1. PollSpec => []PollInv
  BY PollInitInv, PollStepInv, PTL DEF PollSpec
<1> QED
  BY <1>1, PollInvSound, PTL
=============================================================================
