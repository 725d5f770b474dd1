-------------------------------- MODULE Timer --------------------------------
(* The timer wheel, the driver of the delays, and the delay queue.          *)
EXTENDS Integers, Sequences, SequencesExt, FiniteSetsExt

(***************************************************************************)
(* The hierarchical timer wheel (src/timer/wheel/mod.rs, level.rs) as      *)
(* operators on a record: the elapsed time and, per level and slot, the    *)
(* stack of entries.  Timers (module Timer) and the delay queue (module    *)
(* DelayQueue) are built on it.  when is the store: the deadline of each   *)
(* entry.                                                                  *)
(***************************************************************************)

CONSTANTS LEVEL_MULT, NUM_LEVELS

Levels == 0..NUM_LEVELS - 1
SlotIdx == 0..LEVEL_MULT - 1
slot_range(l) == LEVEL_MULT^l
level_range(l) == LEVEL_MULT * slot_range(l)
MAX_DURATION == LEVEL_MULT^NUM_LEVELS

new == [elapsed |-> 0, slot |-> [l \in Levels |-> [s \in SlotIdx |-> <<>>]]]
-----------------------------------------------------------------------------
slot_for(when, l) == (when \div slot_range(l)) % LEVEL_MULT

\* The level of the highest digit in which the two times differ.  The code asserts
\* that they differ, and indexes levels with the result.
level_for(elapsed, when) ==
  Max({0} \cup {l \in 0..NUM_LEVELS : elapsed \div slot_range(l) # when \div slot_range(l)})
LevelPanics(elapsed, when) == elapsed = when \/ level_for(elapsed, when) >= NUM_LEVELS

add_entry(w, l, when, e) ==
  [w EXCEPT !.slot[l][slot_for(when, l)] = <<e>> \o @]

\* insert refuses what is due and what is too far away.
InsertError(w, when) ==
  IF when <= w.elapsed THEN "Elapsed"
  ELSE IF when - w.elapsed > MAX_DURATION THEN "Invalid" ELSE "Ok"
insert(w, when, e) == add_entry(w, level_for(w.elapsed, when), when, e)

\* remove looks for the entry where level_for puts it now.
Located(w, when, e) ==
  /\ ~LevelPanics(w.elapsed, when)
  /\ LET l == level_for(w.elapsed, when) IN Contains(w.slot[l][slot_for(when, l)], e)
remove(w, when, e) ==
  LET l == level_for(w.elapsed, when)
  IN [w EXCEPT !.slot[l][slot_for(when, l)] = SelectSeq(@, LAMBDA x : x # e)]
-----------------------------------------------------------------------------
\* The first occupied slot at or after the slot of the elapsed time.
next_occupied_slot(w, l) ==
  LET now_slot == slot_for(w.elapsed, l)
      after == {k \in SlotIdx : w.slot[l][(k + now_slot) % LEVEL_MULT] # <<>>}
  IN (Min(after) + now_slot) % LEVEL_MULT

Expires(w) == {l \in Levels : \E s \in SlotIdx : w.slot[l][s] # <<>>}
LevelExpiration(w, l) ==
  LET s == next_occupied_slot(w, l)
  IN [level |-> l, slot |-> s,
      deadline |-> w.elapsed - (w.elapsed % level_range(l)) + s * slot_range(l)]
NoExpiration == [level |-> 0, slot |-> 0, deadline |-> -1]

\* The lowest level with an entry.
next_expiration(w) == IF Expires(w) = {} THEN NoExpiration ELSE LevelExpiration(w, Min(Expires(w)))
\* poll_at: -1 when there is nothing to wait for.
poll_at(w) == next_expiration(w).deadline

\* A slot of a higher level is emptied into the level below.
cascade(w, x, when) ==
  FoldLeft(LAMBDA v, e : add_entry(v, x.level - 1, when[e], e),
           [w EXCEPT !.slot[x.level][x.slot] = <<>>], w.slot[x.level][x.slot])

\* The assertions of next_expiration, of poll_expiration and of set_elapsed.
WheelAsserts(w, when) ==
  /\ \A l \in Expires(w) : LevelExpiration(w, l).deadline >= w.elapsed
  /\ \A l \in Expires(w) : LevelExpiration(w, l).deadline >= poll_at(w)
  /\ \A e \in UNION {Range(w.slot[0][s]) : s \in SlotIdx} : when[e] >= w.elapsed

\* poll: handle expirations up to now, returning the next entry that is due; the
\* expiration at hand is kept, since its slot may hold more.
RECURSIVE poll(_, _, _, _)
poll(w, now, expiration, when) ==
  LET n == next_expiration(w)
      x == IF expiration # NoExpiration THEN expiration
           ELSE IF n = NoExpiration \/ n.deadline > now THEN NoExpiration ELSE n IN
  IF x = NoExpiration
  THEN [wheel |-> [w EXCEPT !.elapsed = Max({@, now})], expiration |-> x, item |-> <<>>]
  ELSE IF x.level = 0 /\ w.slot[0][x.slot] # <<>>
  THEN [wheel |-> [w EXCEPT !.slot[0][x.slot] = Tail(@)], expiration |-> x,
        item |-> <<Head(w.slot[0][x.slot])>>]
  ELSE LET c == IF x.level = 0 THEN w ELSE cascade(w, x, when)
       IN poll([c EXCEPT !.elapsed = Max({@, x.deadline})], now, NoExpiration, when)

-----------------------------------------------------------------------------
(***************************************************************************)
(* The timer driver (src/timer/driver: mod.rs, entry.rs, atomic_stack.rs,  *)
(* stack.rs, registration.rs; src/timer/delay.rs).  Tasks on any thread    *)
(* own one Delay each: they create, poll, reset and drop it, and hand its  *)
(* entry to the driver through an atomic stack.  The driver's thread takes *)
(* the stack, moves entries in and out of the wheel, parks until the wheel *)
(* is due, and fires.  MAX_TIMEOUTS (2^63) is not reached, and the atomic  *)
(* waker is one step here: module AtomicWaker has its interleavings.       *)
(***************************************************************************)

CONSTANTS
  Tasks,        \* each owns the entry of its own name
  Deadlines,    \* what they wait for
  MaxTime,      \* the clock stops here: a bound
  MaxResets,    \* resets per task: a bound
  Nobody        \* the driver holds no entry

ELAPSED == -1
ERROR == -2
Forever == -1
NoWhen == -1

VARIABLES
  now,          \* the clock
  wheel, elapsed, \* the wheel, and the published copy of its time
  process,      \* the atomic stack; shut once the driver is dropped
  shut, gone,   \* gone: no thread can upgrade its weak reference any more
  token,        \* the parker's token
  state, when_internal, queued, waker,  \* of each entry
  deadline, resets,                     \* what the owner asked for last
  pc, seen,     \* the owner's step, and the elapsed time it read
  woken,        \* its waker was called while it ran: it is polled again
  dpc, list, held, expiration, until    \* the driver's step and locals
entries == <<state, when_internal, queued, waker>>
owners == <<deadline, resets, pc, seen, woken>>
driver == <<wheel, elapsed, dpc, list, held, expiration, until>>
shared == <<process, shut, gone, token>>
vars == <<now, entries, owners, driver, shared>>

is_elapsed(s) == s < 0
Times == 0..MaxTime

Init ==
  /\ now = 0 /\ wheel = new /\ elapsed = 0
  /\ process = <<>> /\ shut = FALSE /\ gone = FALSE /\ token = FALSE
  /\ state = [e \in Tasks |-> ELAPSED] /\ when_internal = [e \in Tasks |-> NoWhen]
  /\ queued = [e \in Tasks |-> FALSE] /\ waker = [e \in Tasks |-> FALSE]
  /\ deadline = [t \in Tasks |-> 0] /\ resets = [t \in Tasks |-> 0]
  /\ pc = [t \in Tasks |-> "none"] /\ seen = [t \in Tasks |-> 0]
  /\ woken = [t \in Tasks |-> FALSE]
  /\ dpc = "park" /\ list = <<>> /\ held = Nobody
  /\ expiration = NoExpiration /\ until = Forever
-----------------------------------------------------------------------------
(* The owner of a Delay. *)
Goto(t, from, to) == pc[t] = from /\ pc' = [pc EXCEPT ![t] = to]

\* delay_until: Entry::new reads the published time and sets the queued bit, which
\* nobody else can have set.
New(t) == \E d \in Deadlines :
  /\ ~gone /\ Goto(t, "none", "new_push")
  /\ deadline' = [deadline EXCEPT ![t] = d]
  /\ state' = [state EXCEPT ![t] = IF d <= elapsed THEN ELAPSED ELSE d]
  /\ queued' = [queued EXCEPT ![t] = TRUE]
  /\ UNCHANGED <<now, when_internal, waker, resets, seen, woken, driver, shared>>

\* push sets the queued bit first; an entry already on the stack is left there.
Queue(t, from, to, end) ==
  /\ pc[t] = from
  /\ queued' = [queued EXCEPT ![t] = TRUE]
  /\ pc' = [pc EXCEPT ![t] = IF queued[t] THEN end ELSE to]
  /\ UNCHANGED <<now, state, when_internal, waker, deadline, resets, seen, woken, driver, shared>>

\* Then it links the entry, unless the stack is shut: only Entry::new looks at that.
Push(t, from, to, end) ==
  /\ pc[t] = from
  /\ IF shut
     THEN /\ pc' = [pc EXCEPT ![t] = end] /\ UNCHANGED process
          /\ state' = [state EXCEPT ![t] = IF from = "new_push" /\ ~is_elapsed(@)
                                           THEN ERROR ELSE @]
     ELSE /\ process' = <<t>> \o process
          /\ pc' = [pc EXCEPT ![t] = to] /\ UNCHANGED state
  /\ UNCHANGED <<now, when_internal, queued, waker, deadline, resets, seen, woken, driver, shut, gone, token>>

UnparkDriver(t, from, to) ==
  /\ Goto(t, from, to) /\ token' = TRUE
  /\ UNCHANGED <<now, entries, deadline, resets, seen, woken, driver, process, shut, gone>>

PushNew(t) == Push(t, "new_push", "new_unpark", "ready")
UnparkNew(t) == UnparkDriver(t, "new_unpark", "ready")
QueueReset(t) == Queue(t, "reset_queue", "reset_push", "ready")
PushReset(t) == Push(t, "reset_push", "reset_unpark", "ready")
UnparkReset(t) == UnparkDriver(t, "reset_unpark", "ready")
QueueCancel(t) == Queue(t, "cancel", "cancel_push", "dropped")
PushCancel(t) == Push(t, "cancel_push", "cancel_unpark", "dropped")
UnparkCancel(t) == UnparkDriver(t, "cancel_unpark", "dropped")

\* poll_elapsed: look, register the waker, look again.
PollFirst(t) ==
  /\ pc[t] = "ready"
  /\ pc' = [pc EXCEPT ![t] = IF is_elapsed(state[t]) THEN "done" ELSE "register"]
  /\ woken' = [woken EXCEPT ![t] = FALSE]
  /\ UNCHANGED <<now, entries, deadline, resets, seen, driver, shared>>

Register(t) ==
  /\ Goto(t, "register", "recheck")
  /\ waker' = [waker EXCEPT ![t] = TRUE]
  /\ UNCHANGED <<now, state, when_internal, queued, deadline, resets, seen, woken, driver, shared>>

PollAgain(t) ==
  /\ pc[t] = "recheck"
  /\ pc' = [pc EXCEPT ![t] = IF is_elapsed(state[t]) THEN "done"
                              ELSE IF woken[t] THEN "ready" ELSE "asleep"]
  /\ woken' = [woken EXCEPT ![t] = FALSE]
  /\ UNCHANGED <<now, entries, deadline, resets, seen, driver, shared>>

\* Delay::reset, by a task that runs: the times are read before the state is.
ResetRead(t) == \E d \in Deadlines :
  /\ pc[t] \in {"ready", "done", "asleep"} /\ resets[t] < MaxResets
  /\ resets' = [resets EXCEPT ![t] = @ + 1]
  /\ deadline' = [deadline EXCEPT ![t] = d]
  /\ seen' = [seen EXCEPT ![t] = elapsed]
  /\ pc' = [pc EXCEPT ![t] = IF gone THEN "ready" ELSE "reset"]
  /\ UNCHANGED <<now, entries, woken, driver, shared>>

Reset(t) ==
  LET past == deadline[t] <= seen[t]
      noop == state[t] = ERROR \/ state[t] = deadline[t] IN
  /\ pc[t] = "reset"
  /\ state' = [state EXCEPT ![t] = IF noop THEN @ ELSE IF past THEN ELAPSED ELSE deadline[t]]
  /\ pc' = [pc EXCEPT ![t] = IF noop \/ (past /\ is_elapsed(state[t])) THEN "ready" ELSE "reset_queue"]
  /\ seen' = [seen EXCEPT ![t] = 0]
  /\ UNCHANGED <<now, when_internal, queued, waker, deadline, resets, woken, driver, shared>>

\* Registration::drop cancels: the entry is marked, and the driver told.  The waker
\* left in the entry wakes a task that has no use for it.
Drop(t) ==
  /\ pc[t] \in {"ready", "done", "asleep"}
  /\ state' = [state EXCEPT ![t] = IF is_elapsed(@) THEN @ ELSE ELAPSED]
  /\ pc' = [pc EXCEPT ![t] = IF is_elapsed(state[t]) \/ gone THEN "dropped" ELSE "cancel"]
  /\ waker' = [waker EXCEPT ![t] = FALSE]
  /\ UNCHANGED <<now, when_internal, queued, deadline, resets, seen, woken, driver, shared>>
-----------------------------------------------------------------------------
(* The driver's thread: Park for Driver. *)
DGoto(from, to) == dpc = from /\ dpc' = to

\* process_queue takes the whole stack.
TakeAll ==
  /\ DGoto("park", "queue")
  /\ list' = process /\ process' = <<>>
  /\ UNCHANGED <<now, entries, owners, wheel, elapsed, held, expiration, until, shut, gone, token>>

\* The iterator clears the queued bit before the entry is looked at.
NextEntry ==
  /\ DGoto("queue", "apply") /\ list # <<>>
  /\ held' = Head(list) /\ list' = Tail(list)
  /\ queued' = [queued EXCEPT ![Head(list)] = FALSE]
  /\ UNCHANGED <<now, state, when_internal, waker, owners, wheel, elapsed, expiration, until, shared>>

\* clear_entry, add_entry: the wheel converges to the state the owner left.
Apply ==
  LET e == held
      w == IF when_internal[e] = NoWhen THEN wheel ELSE remove(wheel, when_internal[e], e)
      error == InsertError(w, state[e]) IN
  /\ dpc = "apply"
  /\ IF is_elapsed(state[e])
     THEN /\ wheel' = w /\ when_internal' = [when_internal EXCEPT ![e] = NoWhen]
          /\ dpc' = "queue" /\ held' = Nobody /\ UNCHANGED <<until, state>>
     ELSE \/ /\ error = "Ok" /\ wheel' = insert(w, state[e], e)
             /\ when_internal' = [when_internal EXCEPT ![e] = state[e]]
             /\ dpc' = "queue" /\ held' = Nobody /\ UNCHANGED <<until, state>>
          \/ /\ error = "Elapsed" /\ wheel' = w
             /\ when_internal' = [when_internal EXCEPT ![e] = NoWhen]
             /\ dpc' = "fire_queue" /\ until' = state[e] /\ UNCHANGED <<held, state>>
          \/ /\ error = "Invalid" /\ wheel' = w
             /\ when_internal' = [when_internal EXCEPT ![e] = NoWhen]
             /\ state' = [state EXCEPT ![e] = ERROR]
             /\ dpc' = "wake_queue" /\ UNCHANGED <<held, until>>
  /\ UNCHANGED <<now, queued, waker, owners, elapsed, list, expiration, shared>>

\* fire: only if the owner did not put it off meanwhile.
Fire(from, to, skip) ==
  /\ dpc = from
  /\ IF is_elapsed(state[held]) \/ state[held] > until
     THEN /\ dpc' = skip /\ held' = Nobody /\ UNCHANGED state
          /\ when_internal' = [when_internal EXCEPT ![held] = NoWhen]
     ELSE /\ state' = [state EXCEPT ![held] = ELAPSED]
          /\ dpc' = to /\ UNCHANGED <<held, when_internal>>
  /\ until' = Forever
  /\ UNCHANGED <<now, queued, waker, owners, wheel, elapsed, list, expiration, shared>>

\* AtomicWaker::wake takes the waker and wakes the task.
WakeTask(e) ==
  /\ waker' = [waker EXCEPT ![e] = FALSE]
  /\ pc' = [pc EXCEPT ![e] = IF waker[e] /\ @ = "asleep" THEN "ready" ELSE @]
  /\ woken' = [woken EXCEPT ![e] = @ \/ (waker[e] /\ pc[e] = "recheck")]

Wake(from, to) ==
  /\ DGoto(from, to) /\ held' = Nobody /\ WakeTask(held)
  /\ when_internal' = [when_internal EXCEPT ![held] = NoWhen]
  /\ UNCHANGED <<now, state, queued, deadline, resets, seen, wheel, elapsed, list, expiration, until, shared>>

FireQueue == Fire("fire_queue", "wake_queue", "queue")
WakeQueue == Wake("wake_queue", "queue")

\* park until the wheel is due, or for ever when it is empty.
Sleep ==
  /\ DGoto("queue", "parked") /\ list = <<>>
  /\ until' = poll_at(wheel)
  /\ UNCHANGED <<now, entries, owners, wheel, elapsed, list, held, expiration, shared>>

\* The inner park returns on an unpark, on the timeout, or on an event of its own;
\* process then reads the clock.
WakeUp ==
  /\ DGoto("parked", "process")
  /\ token' = FALSE /\ until' = now
  /\ UNCHANGED <<now, entries, owners, wheel, elapsed, list, held, expiration, process, shut, gone>>

\* One entry of process: fired, or the loop ends with the time published.
Process ==
  LET r == poll(wheel, until, expiration, when_internal) IN
  /\ dpc = "process" /\ wheel' = r.wheel
  /\ IF r.item = <<>>
     THEN /\ dpc' = "park" /\ elapsed' = r.wheel.elapsed /\ expiration' = NoExpiration
          /\ until' = Forever /\ UNCHANGED held
     ELSE /\ dpc' = "fire" /\ held' = Head(r.item) /\ expiration' = r.expiration
          /\ UNCHANGED <<elapsed, until>>
  /\ UNCHANGED <<now, entries, owners, list, shared>>

\* Fired although its owner put it off meanwhile.
M_FireDueUnconditionally ==
  /\ dpc = "fire" /\ state' = [state EXCEPT ![held] = ELAPSED]
  /\ dpc' = "wake" /\ UNCHANGED <<held, when_internal>>
  /\ UNCHANGED <<now, queued, waker, owners, wheel, elapsed, list, expiration, until, shared>>

FireDue ==
  /\ dpc = "fire"
  /\ IF is_elapsed(state[held]) \/ state[held] > when_internal[held]
     THEN /\ dpc' = "process" /\ held' = Nobody /\ UNCHANGED state
          /\ when_internal' = [when_internal EXCEPT ![held] = NoWhen]
     ELSE /\ state' = [state EXCEPT ![held] = ELAPSED]
          /\ dpc' = "wake" /\ UNCHANGED <<held, when_internal>>
  /\ UNCHANGED <<now, queued, waker, owners, wheel, elapsed, list, expiration, until, shared>>
WakeDue == Wake("wake", "process")

\* Driver::drop: the stack is shut, what it held is errored, then the wheel is drained.
Shutdown ==
  /\ DGoto("park", "shut_queue")
  /\ shut' = TRUE /\ list' = process /\ process' = <<>>
  /\ UNCHANGED <<now, entries, owners, wheel, elapsed, held, expiration, until, gone, token>>

ErrorEntry(e) ==
  IF is_elapsed(state[e]) THEN UNCHANGED <<state, waker, pc, woken>>
  ELSE state' = [state EXCEPT ![e] = ERROR] /\ WakeTask(e)

ShutQueue ==
  /\ dpc = "shut_queue"
  /\ \/ /\ list # <<>> /\ ErrorEntry(Head(list)) /\ list' = Tail(list)
        /\ queued' = [queued EXCEPT ![Head(list)] = FALSE] /\ UNCHANGED dpc
     \/ /\ list = <<>> /\ dpc' = "drain"
        /\ UNCHANGED <<state, waker, queued, pc, woken, list>>
  /\ UNCHANGED <<now, when_internal, deadline, resets, seen, wheel, elapsed, held, expiration, until, shared>>

Drain ==
  LET r == poll(wheel, MAX_DURATION, expiration, when_internal) IN
  /\ dpc = "drain" /\ wheel' = r.wheel /\ expiration' = r.expiration
  /\ \/ /\ r.item # <<>> /\ ErrorEntry(Head(r.item)) /\ UNCHANGED <<dpc, gone>>
     \/ /\ r.item = <<>> /\ dpc' = "dropped" /\ gone' = TRUE
        /\ UNCHANGED <<state, waker, pc, woken>>
  /\ UNCHANGED <<now, when_internal, queued, deadline, resets, seen, elapsed, list, held, until, process, shut, token>>
-----------------------------------------------------------------------------
Tick == now < MaxTime /\ now' = now + 1 /\ UNCHANGED <<entries, owners, driver, shared>>

Next ==
  \/ \E t \in Tasks :
       \/ New(t) \/ PushNew(t) \/ UnparkNew(t)
       \/ PollFirst(t) \/ Register(t) \/ PollAgain(t)
       \/ ResetRead(t) \/ Reset(t) \/ QueueReset(t) \/ PushReset(t) \/ UnparkReset(t)
       \/ Drop(t) \/ QueueCancel(t) \/ PushCancel(t) \/ UnparkCancel(t)
  \/ TakeAll \/ NextEntry \/ Apply \/ FireQueue \/ WakeQueue \/ Sleep \/ WakeUp
  \/ Process \/ FireDue \/ WakeDue \/ Shutdown \/ ShutQueue \/ Drain
  \/ Tick

Spec == Init /\ [][Next]_vars
-----------------------------------------------------------------------------
(* Properties *)

\* Entry state, wheel and clock stay in range.
TypeOK ==
  /\ now \in Times /\ elapsed \in Times /\ token \in BOOLEAN /\ shut \in BOOLEAN /\ gone \in BOOLEAN
  /\ state \in [Tasks -> {ELAPSED, ERROR} \cup Deadlines]
  /\ when_internal \in [Tasks -> {NoWhen} \cup Deadlines]
  /\ queued \in [Tasks -> BOOLEAN] /\ waker \in [Tasks -> BOOLEAN]
  /\ deadline \in [Tasks -> {0} \cup Deadlines] /\ held \in Tasks \cup {Nobody}

\* A Delay completes only once the clock has reached the deadline its owner set
\* last, whatever reset races with the driver firing it.  (A reset after the driver
\* is gone changes nothing, and a Delay that had fired stays so.)
NeverEarly == \A t \in Tasks :
  pc[t] = "done" /\ state[t] = ELAPSED /\ ~gone => deadline[t] <= now

\* The driver parks no later than the first sleeping Delay is due, unless an unpark
\* is already waiting for it: entries reach the wheel before a sleep is decided.
NeverOversleeps == \A t \in Tasks :
  dpc = "parked" /\ pc[t] = "asleep" /\ ~is_elapsed(state[t]) =>
    token \/ (until # Forever /\ until <= state[t])

\* A task asleep on a fired entry is about to be woken.
NobodyLeftAsleep == \A t \in Tasks :
  pc[t] = "asleep" /\ is_elapsed(state[t]) =>
    held = t /\ dpc \in {"wake", "wake_queue"} /\ waker[t]

\* The wheel's internal state matches the entries': one that has an internal time is
\* in the slot its time and the elapsed time determine, so that remove finds it and
\* the assertions of level_for, next_expiration and poll_expiration hold.
WheelSound ==
  /\ dpc \notin {"drain", "dropped"} => WheelAsserts(wheel, when_internal)
  /\ dpc \in {"park", "queue", "parked"} => \A e \in Tasks : when_internal[e] # NoWhen =>
       Located(wheel, when_internal[e], e)

\* Once the driver is gone nobody sleeps on it: every entry it knew was errored, and
\* one it did not know learns of it from its push.  (A reset ignores that push's
\* error: a Delay reset while the driver goes away may sleep for ever.)
DropErrorsSleepers == \A t \in Tasks :
  dpc = "dropped" /\ pc[t] = "asleep" => is_elapsed(state[t]) \/ resets[t] > 0

\* The timer driver's promise.
TimerSound ==
  /\ TypeOK /\ NeverEarly /\ NeverOversleeps /\ NobodyLeftAsleep /\ WheelSound
  /\ DropErrorsSleepers

-----------------------------------------------------------------------------
(***************************************************************************)
(* DelayQueue (src/timer/delay_queue.rs): values in a slab, their keys in  *)
(* the wheel or, when inserted late, in the expired stack, and one Delay   *)
(* that says when the wheel is to be looked at.  One task owns it; Keys    *)
(* are slab indices, given out again once free.                            *)
(***************************************************************************)

CONSTANTS
  Keys,       \* slab indices
  MaxOps      \* inserts, removes, resets and clears: a bound

NoDelay == -1
Free == -1
NoPoll == [now |-> 0, expiration |-> NoExpiration]

VARIABLES
  dq_now, dq_wheel, expired,
  when, is_expired,   \* the slab: deadline (Free) and the expired flag of a key
  delay,              \* the deadline of the Delay
  poll_state,         \* self.poll
  panicked,           \* the operation that panicked, and the deadline of its key
  delivered, ops
dqVars == <<dq_now, dq_wheel, expired, when, is_expired, delay, poll_state, panicked, delivered, ops>>

NoPanic == <<>>
Nothing == <<>>

DqInit ==
  /\ dq_now = 0 /\ dq_wheel = new /\ expired = <<>> /\ delay = NoDelay /\ poll_state = NoPoll
  /\ when = [k \in Keys |-> Free] /\ is_expired = [k \in Keys |-> FALSE]
  /\ panicked = NoPanic /\ delivered = Nothing /\ ops = 0

Used == {k \in Keys : when[k] # Free}
Operate == panicked = NoPanic /\ ops < MaxOps /\ ops' = ops + 1 /\ delivered' = Nothing
normalize_deadline(t) == Max({t, dq_wheel.elapsed})
-----------------------------------------------------------------------------
\* insert_idx: what the wheel refuses as elapsed goes to the expired stack.
insert_idx(w, x, fl, t, k) ==
  IF InsertError(w, t) = "Ok"
  THEN dq_wheel' = insert(w, t, k) /\ expired' = x /\ is_expired' = fl
  ELSE dq_wheel' = w /\ expired' = <<k>> \o x /\ is_expired' = [fl EXCEPT ![k] = TRUE]

\* insert_at: an earlier deadline than the Delay's, or no Delay at all, sets the Delay.
insert_at == \E t \in dq_now..MaxTime :
  LET k == Min(Keys \ Used)
      at == normalize_deadline(t) IN
  /\ Operate /\ Used # Keys
  /\ when' = [when EXCEPT ![k] = at]
  /\ insert_idx(dq_wheel, expired, [is_expired EXCEPT ![k] = FALSE], at, k)
  /\ delay' = IF delay = NoDelay \/ normalize_deadline(delay) > at THEN at ELSE delay
  /\ UNCHANGED <<dq_now, poll_state, panicked>>

Panics(op, k) ==
  /\ panicked' = <<op, when[k], is_expired[k]>>
  /\ UNCHANGED <<dq_now, dq_wheel, expired, when, is_expired, delay, poll_state>>

\* remove, with its special case for the expired stack.
remove_key == \E k \in Used :
  /\ Operate
  /\ \/ /\ is_expired[k] /\ ~Contains(expired, k) /\ Panics("remove", k)
     \/ /\ ~is_expired[k] /\ ~Located(dq_wheel, when[k], k) /\ Panics("remove", k)
     \/ /\ is_expired[k] /\ Contains(expired, k)
        /\ expired' = SelectSeq(expired, LAMBDA x : x # k)
        /\ when' = [when EXCEPT ![k] = Free]
        /\ UNCHANGED <<dq_now, dq_wheel, is_expired, delay, poll_state, panicked>>
     \/ /\ ~is_expired[k] /\ Located(dq_wheel, when[k], k)
        /\ dq_wheel' = remove(dq_wheel, when[k], k)
        /\ when' = [when EXCEPT ![k] = Free]
        /\ UNCHANGED <<dq_now, expired, is_expired, delay, poll_state, panicked>>

\* reset_at always goes to the wheel; the Delay follows the wheel's next deadline.
reset_at == \E k \in Used, t \in dq_now..MaxTime :
  /\ Operate
  /\ \/ ~Located(dq_wheel, when[k], k) /\ Panics("reset_at", k)
     \/ LET at == normalize_deadline(t) IN
        /\ Located(dq_wheel, when[k], k)
        /\ when' = [when EXCEPT ![k] = at]
        /\ insert_idx(remove(dq_wheel, when[k], k), expired, is_expired, at, k)
        /\ delay' = IF delay # NoDelay /\ poll_at(dq_wheel') # -1 THEN poll_at(dq_wheel') ELSE delay
        /\ UNCHANGED <<dq_now, poll_state, panicked>>

\* clear leaves the polling state alone.
clear ==
  /\ Operate
  /\ when' = [k \in Keys |-> Free] /\ is_expired' = [k \in Keys |-> FALSE]
  /\ expired' = <<>> /\ dq_wheel' = new /\ delay' = NoDelay
  /\ UNCHANGED <<dq_now, poll_state, panicked>>
-----------------------------------------------------------------------------
Deliver(k) == when' = [when EXCEPT ![k] = Free] /\ delivered' = <<when[k]>>

\* poll_expired: the expired stack first; then, unless the Delay is still running, the
\* wheel, up to the Delay's deadline; what is left sets a new Delay, which is polled
\* in turn (the next poll_expired, when it is not due).
poll_expired ==
  /\ panicked = NoPanic
  /\ \/ /\ expired # <<>> /\ Deliver(Head(expired)) /\ expired' = Tail(expired)
        /\ UNCHANGED <<dq_wheel, delay, poll_state>>
     \/ LET p == IF delay = NoDelay THEN poll_state ELSE [now |-> delay, expiration |-> NoExpiration]
            r == poll(dq_wheel, p.now, p.expiration, when) IN
        /\ expired = <<>> /\ delay <= dq_now
        /\ dq_wheel' = r.wheel /\ poll_state' = [p EXCEPT !.expiration = r.expiration]
        /\ \/ r.item # <<>> /\ Deliver(Head(r.item)) /\ delay' = NoDelay
           \/ r.item = <<>> /\ delay' = poll_at(r.wheel) /\ delivered' = Nothing /\ UNCHANGED when
        /\ UNCHANGED expired
  /\ UNCHANGED <<dq_now, is_expired, panicked, ops>>

DqTick ==
  /\ dq_now < MaxTime /\ panicked = NoPanic /\ dq_now' = dq_now + 1 /\ delivered' = Nothing
  /\ UNCHANGED <<dq_wheel, expired, when, is_expired, delay, poll_state, panicked, ops>>

DqNext == insert_at \/ remove_key \/ reset_at \/ clear \/ poll_expired \/ DqTick
DqSpec == DqInit /\ [][DqNext]_dqVars
-----------------------------------------------------------------------------
(* Properties *)

InWheel(k) == \E l \in Levels, s \in SlotIdx : Contains(dq_wheel.slot[l][s], k)

\* The slab, the wheel and the expired stack agree.
DqTypeOK ==
  /\ dq_now \in 0..MaxTime /\ delay \in -1..MaxTime /\ when \in [Keys -> -1..MaxTime]
  /\ is_expired \in [Keys -> BOOLEAN] /\ ops \in 0..MaxOps

\* No value is lost or duplicated: every key of the slab is in the wheel or in the
\* expired stack, never in both, and no free key is in either.
NoneLost == \A k \in Keys :
  /\ when[k] # Free => InWheel(k) # Contains(expired, k)
  /\ when[k] = Free => ~InWheel(k) /\ ~Contains(expired, k)

\* poll_expired returns a value only once its deadline has passed.
DqNeverEarly == delivered # Nothing => delivered[1] <= dq_now

\* A queue that holds a value is never silent: either something is there to return
\* or a Delay is set, so that a task that waits is woken.
AlwaysArmed == Used # {} /\ expired = <<>> => delay # NoDelay \/ poll_at(dq_wheel) # -1

\* remove and reset_at panic only for a value that is due already (or, reset_at, in
\* the expired stack), and the wheel's own assertions hold whatever the sequence.
PanicsOnlyOnDueValues ==
  /\ panicked # NoPanic => panicked[2] <= dq_now
  /\ WheelAsserts(dq_wheel, when)

\* What the delay queue keeps true under every sequence of calls.
DelayQueueSound == DqTypeOK /\ NoneLost /\ DqNeverEarly /\ AlwaysArmed /\ PanicsOnlyOnDueValues

\* "The function panics if `key` is not contained by the queue." (remove)
RemoveNeverPanics == ~(panicked # NoPanic /\ panicked[1] = "remove")

\* "Delay expiring when the *first* item in the queue expires"
DelayIsFirst == delay # NoDelay => \A k \in Used : InWheel(k) => delay <= when[k]
=============================================================================
