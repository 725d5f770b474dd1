------------------------------- MODULE Signals -------------------------------
(* Signals: the handlers' registry, and the driver that carries a signal from*)
(* a handler to the streams.                                                *)
EXTENDS Naturals, Sequences, FiniteSets, FiniteSetsExt, SequencesExt

(* The registry of signal actions (krse/signal/hook.rs): threads register and   *)
(* unregister actions under a lock and publish a new table, while the operating *)
(* system runs the handler on any thread that does not mask the signal; the     *)
(* handler works on the table it loaded.                                        *)

CONSTANTS
    Threads, Signals,
    Chained,     \* the signals that had a handler before
    MaxActions, MaxRaises   \* bounds

VARIABLES
    table,       \* all_signals: signal -> [slot, prev, actions]
    lock, next,  \* rcu_lock: its holder, and the number it protects
    os,          \* the handler the system has for a signal: "prev" or "ours"
    pc, copy, want,   \* per thread: step, loaded table, the operation
    mask,        \* per thread: signals blocked
    frame,       \* per thread: the handler running on it, or none
    live,        \* ghost: actions that were published and whose removal has not begun
    raises       \* signals raised

vars == <<table, lock, next, os, pc, copy, want, mask, frame, live, raises>>
none == 0
NoFrame == [run |-> FALSE]
Empty == [slot |-> FALSE, prev |-> FALSE, actions |-> {}]

Init ==
    /\ table = [s \in Signals |-> Empty] /\ lock = none /\ next = 0 /\ os = [s \in Signals |-> "prev"]
    /\ pc = [t \in Threads |-> "idle"] /\ copy = [t \in Threads |-> [s \in Signals |-> Empty]]
    /\ want = [t \in Threads |-> [op |-> "none"]] /\ mask = [t \in Threads |-> {}]
    /\ frame = [t \in Threads |-> NoFrame] /\ live = {} /\ raises = 0

\* A handler on a thread runs before the thread goes on.
Runs(t) == ~frame[t].run
Go(t, a, b) == Runs(t) /\ pc[t] = a /\ pc' = [pc EXCEPT ![t] = b]
ghosts == <<frame, raises>>


\* GlobalData::load: the lock, then a copy of the table.
load(t, w) ==
    /\ lock = none /\ lock' = t
    /\ copy' = [copy EXCEPT ![t] = table] /\ want' = [want EXCEPT ![t] = w]

register(t, s) ==
    /\ Go(t, "idle", "block") /\ next < MaxActions
    /\ load(t, [op |-> "register", sig |-> s, id |-> next]) /\ next' = next + 1
    /\ UNCHANGED <<table, os, mask, live, ghosts>>

\* without_signal: the signal is blocked on this thread.
block_signal(t) ==
    /\ Go(t, "block", "install") /\ mask' = [mask EXCEPT ![t] = @ \cup {want[t].sig}]
    /\ UNCHANGED <<table, lock, next, os, copy, want, live, ghosts>>

\* The entry of the signal; Slot::new asks the system for the handler there was.
\* An error of the system leaves the closure and drops the lock.
install(t) ==
    /\ Runs(t) /\ pc[t] = "install"
    /\ LET s == want[t].sig
       IN \/ /\ pc' = [pc EXCEPT ![t] = "store"]
             /\ copy' = [copy EXCEPT ![t][s] = [slot |-> TRUE, prev |-> IF @.slot THEN @.prev ELSE s \in Chained,
                                               actions |-> @.actions \cup {want[t].id}]]
             /\ os' = [os EXCEPT ![s] = "ours"] /\ UNCHANGED <<lock, want>>
          \/ /\ ~copy[t][s].slot /\ pc' = [pc EXCEPT ![t] = "restore"] /\ lock' = none
             /\ want' = [want EXCEPT ![t].op = "failed"] /\ UNCHANGED <<os, copy>>
    /\ UNCHANGED <<table, next, mask, live, ghosts>>

\* GlobalData::store.
store(t) ==
    /\ Go(t, "store", "restore") /\ table' = copy[t] /\ lock' = none
    /\ live' = IF want[t].op = "register" THEN live \cup {<<want[t].sig, want[t].id>>} ELSE live
    /\ UNCHANGED <<next, os, copy, want, mask, ghosts>>

restore_signals(t) ==
    /\ Go(t, "restore", "idle")
    /\ mask' = IF want[t].op \in {"register", "failed"} THEN [mask EXCEPT ![t] = @ \ {want[t].sig}] ELSE mask
    /\ UNCHANGED <<table, lock, next, os, copy, want, live, ghosts>>

\* unregister, and unregister_signal when ids is all there are: nothing is stored when
\* nothing was removed.
TakeOut(t, s, ids) ==
    /\ copy' = [copy EXCEPT ![t] = [table EXCEPT ![s].actions = @ \ ids]]
    /\ want' = [want EXCEPT ![t] = [op |-> "unregister", sig |-> s, id |-> 0]]
    /\ live' = live \ {<<s, i>> : i \in ids}
    /\ IF table[s].actions \cap ids = {} THEN UNCHANGED <<lock, pc>>
       ELSE lock' = t /\ pc' = [pc EXCEPT ![t] = "store"]
    /\ UNCHANGED <<table, next, os, mask, ghosts>>

unregister(t, s, i) == Runs(t) /\ pc[t] = "idle" /\ lock = none /\ i < next /\ TakeOut(t, s, {i})
unregister_signal(t, s) == Runs(t) /\ pc[t] = "idle" /\ lock = none /\ table[s].slot /\ TakeOut(t, s, table[s].actions)

-----------------------------------------------------------------------------
\* The system delivers a signal: the handler loads the table.
raise(t, s) ==
    /\ raises < MaxRaises /\ raises' = raises + 1
    /\ os[s] = "ours" /\ s \notin mask[t] /\ Runs(t)
    /\ frame' = [frame EXCEPT ![t] = [run |-> TRUE, sig |-> s, slot |-> table[s], owed |-> {i \in 0..MaxActions : <<s, i>> \in live}]]
    /\ UNCHANGED <<table, lock, next, os, pc, copy, want, mask, live>>

\* The next action of the loaded slot, in the order of their numbers.
act(t) ==
    /\ ~Runs(t) /\ frame[t].slot.actions # {}
    /\ frame' = [frame EXCEPT ![t].slot.actions = @ \ {Min(@)}, ![t].owed = @ \ {Min(frame[t].slot.actions)}]
    /\ UNCHANGED <<table, lock, next, os, pc, copy, want, mask, live, raises>>

return(t) ==
    /\ ~Runs(t) /\ frame[t].slot.actions = {} /\ frame' = [frame EXCEPT ![t] = NoFrame]
    /\ UNCHANGED <<table, lock, next, os, pc, copy, want, mask, live, raises>>

Next == \E t \in Threads :
    \/ \E s \in Signals : register(t, s) \/ unregister_signal(t, s) \/ raise(t, s)
                          \/ \E i \in 0..MaxActions - 1 : unregister(t, s, i)
    \/ block_signal(t) \/ install(t) \/ store(t) \/ restore_signals(t) \/ act(t) \/ return(t)

Spec == Init /\ [][Next]_vars

-----------------------------------------------------------------------------
\* No registration and no removal is undone by another: when nobody is at work the table
\* holds exactly the actions registered and not removed.
NoLostUpdate ==
    (\A t \in Threads : pc[t] = "idle") =>
        \A s \in Signals : table[s].actions = {i \in 0..MaxActions : <<s, i>> \in live}

\* Every signal that comes after an action was registered, and before its removal, runs it:
\* what a run of the handler still owes is still ahead of it.
EveryActionRuns == \A t \in Threads : frame[t].run => frame[t].owed \subseteq frame[t].slot.actions

\* The handler finds no entry, and so does not chain the old handler, only while a thread
\* is registering the first action of the signal, and never on that thread.
GapOnlyWhileInstalling ==
    \A s \in Signals : os[s] = "ours" /\ ~table[s].slot =>
        \E u \in Threads : pc[u] = "store" /\ want[u].sig = s /\ s \in mask[u]

\* Once there is an entry the handler that was there before stays known, so it is chained.
ChainKept == \A s \in Signals : table[s].slot => os[s] = "ours" /\ (table[s].prev <=> s \in Chained)

\* The numbers of the actions are never given twice (the assertion of register).
FreshNumbers == \A t \in Threads : pc[t] \in {"block", "install"} =>
    \A s \in Signals : want[t].id \notin table[s].actions \cup copy[t][s].actions

HookSound == NoLostUpdate /\ EveryActionRuns /\ GapOnlyWhileInstalling /\ ChainKept /\ FreshNumbers

-----------------------------------------------------------------------------
(* The Signal streams (krse/signal/unix.rs, registry.rs): the action of the     *)
(* signal handler flags the signal and writes a byte into a socket that every   *)
(* stream's own driver polls; whoever drains it hands the flags on to the       *)
(* channels of all streams, its own or not.                                     *)

CONSTANTS
    Streams, KindOf,     \* the Signals of the program and what they listen to
    PIPE,                \* bytes the socket holds
    MaxSignals, MaxPolls, Drops   \* bounds; whether a stream may be dropped

VARIABLES
    once,           \* per kind: signal_enable's Once: "new", "ok" or "failed"
    pending, recipients, driver_lock,   \* per kind: EventInfo and the holder of its mutex
    pipe,           \* bytes in the socket
    handlers,       \* runs of `action` that have set the flag and not yet written
    shared, cache,  \* per stream: readiness its driver was told of; the bit PollEvented keeps
    chan, permit, closed,   \* per stream: the channel of capacity 1
    driver_pc, left, polls,        \* per stream: step; kinds and recipients its broadcast has left; polls made
    signals, got, owed      \* ghost: signals per kind; items per stream; a signal since its last item

driverVars == <<once, pending, recipients, driver_lock, pipe, handlers, shared, cache, chan, permit, closed, driver_pc, left, polls,
                signals, got, owed>>
registry == <<once, pending, recipients, driver_lock>>
io == <<pipe, handlers, shared, cache>>
channel == <<chan, permit, closed>>
ghost == <<signals, got, owed>>

Kinds == {KindOf[s] : s \in Streams}
Nobody == 0
KindSeq == SetToSeq(Kinds)

DriverInit ==
    /\ once = [k \in Kinds |-> "new"] /\ pending = [k \in Kinds |-> FALSE]
    /\ recipients = [k \in Kinds |-> <<>>] /\ driver_lock = [k \in Kinds |-> Nobody]
    /\ pipe = 0 /\ handlers = <<>>
    /\ shared = [s \in Streams |-> FALSE] /\ cache = [s \in Streams |-> FALSE]
    /\ chan = [s \in Streams |-> 0] /\ permit = [s \in Streams |-> 1] /\ closed = [s \in Streams |-> FALSE]
    /\ driver_pc = [s \in Streams |-> "new"] /\ left = [s \in Streams |-> [kinds |-> <<>>, to |-> 0]]
    /\ polls = [s \in Streams |-> 0]
    /\ signals = [k \in Kinds |-> 0] /\ got = [s \in Streams |-> 0] /\ owed = [s \in Streams |-> FALSE]

Step(s, a, b) == driver_pc[s] = a /\ driver_pc' = [driver_pc EXCEPT ![s] = b]

\* signal_enable: the first of a kind registers the action, which may fail for good.
signal_enable(s) ==
    /\ driver_pc[s] = "new"
    /\ \E ok \in BOOLEAN :
        LET now == IF once[KindOf[s]] = "new" THEN IF ok THEN "ok" ELSE "failed" ELSE once[KindOf[s]]
        IN /\ once' = [once EXCEPT ![KindOf[s]] = now]
           /\ driver_pc' = [driver_pc EXCEPT ![s] = IF now = "ok" THEN "enabled" ELSE "gone"]
    /\ UNCHANGED <<pending, recipients, driver_lock, io, channel, left, polls, ghost>>

\* Driver::new: a clone of the socket is registered, and is readable if there is a byte.
driver_new(s) ==
    /\ Step(s, "enabled", "driver") /\ shared' = [shared EXCEPT ![s] = pipe > 0]
    /\ UNCHANGED <<registry, pipe, handlers, cache, channel, left, polls, ghost>>

register_listener(s) ==
    /\ Step(s, "driver", "idle") /\ driver_lock[KindOf[s]] = Nobody
    /\ recipients' = [recipients EXCEPT ![KindOf[s]] = Append(@, s)]
    /\ UNCHANGED <<once, pending, driver_lock, io, channel, left, polls, ghost>>

\* action, first half: record_event.
record_event(k) ==
    /\ once[k] = "ok" /\ signals[k] < MaxSignals /\ signals' = [signals EXCEPT ![k] = @ + 1]
    /\ pending' = [pending EXCEPT ![k] = TRUE] /\ handlers' = Append(handlers, k)
    /\ owed' = [s \in Streams |-> owed[s] \/ (KindOf[s] = k /\ s \in ToSet(recipients[k]) /\ driver_pc[s] # "gone")]
    /\ UNCHANGED <<once, recipients, driver_lock, pipe, shared, cache, channel, driver_pc, left, polls, got>>

Awake(s) == IF driver_pc[s] = "asleep" THEN "idle" ELSE driver_pc[s]
HasDriver(s) == driver_pc[s] \notin {"new", "enabled", "gone"}

\* action, second half: a byte, unless the socket is full, tells every driver.
write(i) ==
    /\ i \in DOMAIN handlers /\ handlers' = RemoveAt(handlers, i)
    /\ IF pipe = PIPE THEN UNCHANGED <<pipe, shared, driver_pc>>
       ELSE /\ pipe' = pipe + 1 /\ shared' = [s \in Streams |-> HasDriver(s)]
            /\ driver_pc' = [s \in Streams |-> Awake(s)]
    /\ UNCHANGED <<registry, cache, channel, left, polls, ghost>>

-----------------------------------------------------------------------------
\* poll_recv begins: Driver::poll.
poll(s) ==
    /\ Step(s, "idle", "drain") /\ polls[s] < MaxPolls /\ polls' = [polls EXCEPT ![s] = @ + 1]
    /\ UNCHANGED <<registry, io, channel, left, ghost>>

\* Driver::drain: poll_read until it is pending.  PollEvented takes the readiness its
\* driver was told of, and drops the bit it kept when the read would block.
Begin(s) == [left EXCEPT ![s] = [kinds |-> KindSeq, to |-> 0]]
drain(s) ==
    /\ driver_pc[s] = "drain"
    /\ IF ~cache[s] /\ ~shared[s]
       THEN driver_pc' = [driver_pc EXCEPT ![s] = "broadcast"] /\ left' = Begin(s) /\ UNCHANGED <<pipe, shared, cache>>
       ELSE IF ~cache[s]
       THEN cache' = [cache EXCEPT ![s] = TRUE] /\ shared' = [shared EXCEPT ![s] = FALSE] /\ UNCHANGED <<driver_pc, left, pipe>>
       ELSE IF pipe > 0 THEN pipe' = 0 /\ UNCHANGED <<driver_pc, left, shared, cache>>
       ELSE cache' = [cache EXCEPT ![s] = FALSE] /\ UNCHANGED <<driver_pc, left, pipe, shared>>
    /\ UNCHANGED <<registry, handlers, channel, polls, ghost>>

\* Registry::broadcast, one kind: the flag is swapped and the recipients are locked.
broadcast(s) ==
    /\ driver_pc[s] = "broadcast" /\ left[s].to = 0
    /\ IF left[s].kinds = <<>> THEN driver_pc' = [driver_pc EXCEPT ![s] = "recv"] /\ UNCHANGED <<pending, left>>
       ELSE LET k == left[s].kinds[1]
            IN /\ pending' = [pending EXCEPT ![k] = FALSE] /\ UNCHANGED driver_pc
               /\ left' = [left EXCEPT ![s] = IF pending[k] THEN [kinds |-> left[s].kinds, to |-> 1 + Len(recipients[k])]
                                              ELSE [kinds |-> Tail(left[s].kinds), to |-> 0]]
    /\ UNCHANGED <<once, recipients, driver_lock, io, channel, polls, ghost>>

lock_recipients(s) ==
    /\ driver_pc[s] = "broadcast" /\ left[s].to > 0
    /\ LET k == left[s].kinds[1]
       IN /\ driver_lock[k] = Nobody /\ driver_lock' = [driver_lock EXCEPT ![k] = s]
          /\ left' = [left EXCEPT ![s].to = 1 + Len(recipients[k])]
    /\ UNCHANGED <<once, pending, recipients, io, channel, driver_pc, polls, ghost>>

\* try_send to one recipient, the last first; a closed channel is taken out.
SwapRemove(q, i) == SubSeq([q EXCEPT ![i] = q[Len(q)]], 1, Len(q) - 1)
try_send(s) ==
    /\ driver_pc[s] = "broadcast" /\ left[s].to > 0 /\ driver_lock[left[s].kinds[1]] = s
    /\ LET k == left[s].kinds[1]
           i == left[s].to - 1
       IN IF i = 0
          THEN /\ driver_lock' = [driver_lock EXCEPT ![k] = Nobody] /\ left' = [left EXCEPT ![s] = [kinds |-> Tail(@.kinds), to |-> 0]]
               /\ UNCHANGED <<recipients, chan, permit, driver_pc>>
          ELSE LET r == recipients[k][i]
               IN /\ left' = [left EXCEPT ![s].to = i] /\ UNCHANGED driver_lock
                  /\ IF closed[r] THEN recipients' = [recipients EXCEPT ![k] = SwapRemove(@, i)] /\ UNCHANGED <<chan, permit, driver_pc>>
                     ELSE IF permit[r] = 0 THEN UNCHANGED <<recipients, chan, permit, driver_pc>>
                     ELSE /\ permit' = [permit EXCEPT ![r] = 0] /\ chan' = [chan EXCEPT ![r] = 1]
                          /\ driver_pc' = [driver_pc EXCEPT ![r] = Awake(r)] /\ UNCHANGED recipients
    /\ UNCHANGED <<once, pending, io, closed, polls, ghost>>

\* Receiver::poll_recv: an item, whose permit is given back after it was taken, or sleep.
\* A driver that was told of a byte since it looked has woken the task already.
recv(s) ==
    /\ driver_pc[s] = "recv"
    /\ IF chan[s] = 1 THEN driver_pc' = [driver_pc EXCEPT ![s] = "permit"] /\ chan' = [chan EXCEPT ![s] = 0]
       ELSE driver_pc' = [driver_pc EXCEPT ![s] = IF shared[s] THEN "idle" ELSE "asleep"] /\ UNCHANGED chan
    /\ UNCHANGED <<registry, io, permit, closed, left, polls, ghost>>

add_permit(s) ==
    /\ Step(s, "permit", "idle") /\ permit' = [permit EXCEPT ![s] = 1]
    /\ got' = [got EXCEPT ![s] = @ + 1] /\ owed' = [owed EXCEPT ![s] = FALSE]
    /\ UNCHANGED <<registry, io, chan, closed, left, polls, signals>>

\* The stream is dropped: its driver and its receiver with it.
drop(s) ==
    /\ Drops /\ driver_pc[s] \in {"idle", "asleep"} /\ driver_pc' = [driver_pc EXCEPT ![s] = "gone"]
    /\ closed' = [closed EXCEPT ![s] = TRUE] /\ owed' = [owed EXCEPT ![s] = FALSE]
    /\ UNCHANGED <<registry, io, chan, permit, left, polls, signals, got>>

DriverNext ==
    \/ \E s \in Streams : \/ signal_enable(s) \/ driver_new(s) \/ register_listener(s) \/ poll(s) \/ drain(s)
                          \/ broadcast(s) \/ lock_recipients(s) \/ try_send(s) \/ recv(s) \/ add_permit(s) \/ drop(s)
    \/ \E k \in Kinds : record_event(k)
    \/ \E i \in 1..2 * MaxSignals : write(i)

DriverSpec == DriverInit /\ [][DriverNext]_driverVars

-----------------------------------------------------------------------------
Registered(s) == \E i \in DOMAIN recipients[KindOf[s]] : recipients[KindOf[s]][i] = s
Sending(s) == \E u \in Streams : /\ driver_pc[u] = "broadcast" /\ left[u].to > 0 /\ left[u].kinds[1] = KindOf[s]
                                 /\ \E i \in 1..left[u].to : driver_lock[KindOf[s]] # u \/ (i < left[u].to /\ recipients[KindOf[s]][i] = s)

\* A signal a stream has not given an item for is somewhere on its way to it: in the flag,
\* in a broadcast that has not passed the stream, or in its channel.
SignalOnItsWay == \A s \in Streams : owed[s] =>
    pending[KindOf[s]] \/ Sending(s) \/ chan[s] = 1 \/ driver_pc[s] = "permit"

\* Nobody sleeps on it: a flag that is set has a handler about to write, a byte that
\* some driver has been told of, or a driver before its broadcast of that kind; and a
\* stream with an item is awake.
SomebodyAwake ==
    /\ \A k \in Kinds : pending[k] /\ (\E s \in Streams : driver_pc[s] \notin {"new", "enabled", "driver", "gone"}) =>
           \/ handlers # <<>>
           \/ \E s \in Streams : driver_pc[s] \in {"idle", "drain"}
                                 \/ (driver_pc[s] = "broadcast" /\ k \in ToSet(left[s].kinds) /\ (left[s].to = 0 \/ left[s].kinds[1] # k))
                                 \/ (driver_pc[s] \in {"broadcast", "recv", "permit"} /\ shared[s])
    /\ \A s \in Streams : chan[s] = 1 => driver_pc[s] # "asleep"

\* An item stands for at least one signal of its own: a stream never gives more items
\* than there were signals.
NoGhostItems == \A s \in Streams : got[s] + chan[s] <= signals[KindOf[s]]

\* The channel never holds more than its one item.
OneItem == \A s \in Streams : ~closed[s] => chan[s] + permit[s] + (IF driver_pc[s] = "permit" THEN 1 ELSE 0) = 1

\* A stream that was dropped is never left in the way of the others.
EachOnce == \A k \in Kinds : \A i, j \in DOMAIN recipients[k] : recipients[k][i] = recipients[k][j] => i = j

SignalDriverSound == SignalOnItsWay /\ SomebodyAwake /\ NoGhostItems /\ OneItem /\ EachOnce
=============================================================================
