------------------------------- MODULE Notify --------------------------------
(* Three ways to wait for another task: Notify, the watch channel, and the  *)
(* barrier that is built on it.                                             *)
EXTENDS Naturals, Sequences, FiniteSets, Functions

(***************************************************************************)
(* Notify (src/krse/sync/notify.rs): one permit in an atomic byte, and a   *)
(* list of waiting futures under a mutex (src/util/linked_list.rs).  The   *)
(* byte is also changed without the mutex; what is done to it in one       *)
(* critical section is split where that shows.                             *)
(***************************************************************************)

CONSTANTS
  Futures,     \* calls of notified()
  Notifiers,   \* threads that call notify()
  Nobody,
  MaxNotify    \* bound: calls of notify() per thread

VARIABLES
  state,       \* "EMPTY", "WAITING" or "NOTIFIED"
  waiters,     \* the list, front first
  mutex,       \* who holds it
  fut,         \* Future -> "Init", "lock", "Waiting", "Done", "dropping" or "dropped"
  notified, waker,  \* waiters with the flag set; waiters with a waker stored
  sleeping,    \* futures that returned Pending and were not woken
  nt, calls,   \* where a notifier is; its calls
  toWake,      \* Thread -> the future whose waker it took and will call
  owed         \* history: a notify() that no future has received

\* Nobody is not a thread, and a future does not call notify().
ASSUME NotifyAssumption == Nobody \notin Futures \cup Notifiers /\ Futures \cap Notifiers = {}

notifyVars == <<state, waiters, mutex, fut, notified, waker, sleeping, nt, calls, toWake, owed>>
NotifyThreads == Futures \cup Notifiers

NotifyInit ==
  /\ state = "EMPTY" /\ waiters = <<>> /\ mutex = Nobody
  /\ fut = [f \in Futures |-> "Init"] /\ notified = {} /\ waker = {} /\ sleeping = {}
  /\ nt = [n \in Notifiers |-> "idle"] /\ calls = [n \in Notifiers |-> 0]
  /\ toWake = [t \in NotifyThreads |-> Nobody] /\ owed = FALSE

\* LinkedList::pop_back removes the last node and returns it.
back(list) == list[Len(list)]
pop_back(list) == SubSeq(list, 1, Len(list) - 1)

\* notify_locked: store the permit, or hand it to the waiter at the back.
notify_locked(t, list, curr) ==
  IF curr = "WAITING"
  THEN /\ notified' = notified \cup {back(list)} /\ waker' = waker \ {back(list)}
       /\ toWake' = [toWake EXCEPT ![t] = back(list)]
       /\ waiters' = pop_back(list)
       /\ state' = IF Len(list) = 1 THEN "EMPTY" ELSE state
  ELSE state' = "NOTIFIED" /\ waiters' = list /\ UNCHANGED <<notified, waker, toWake>>
-----------------------------------------------------------------------------
\* notify() without the mutex, while nobody waits.
NotifyFast(n) ==
  /\ nt[n] = "idle" /\ calls[n] < MaxNotify /\ calls' = [calls EXCEPT ![n] = @ + 1]
  /\ IF state = "WAITING" THEN nt' = [nt EXCEPT ![n] = "lock"] /\ UNCHANGED <<state, owed>>
     ELSE state' = "NOTIFIED" /\ owed' = TRUE /\ UNCHANGED nt
  /\ UNCHANGED <<waiters, mutex, fut, notified, waker, sleeping, toWake>>

NotifySlow(n) ==
  /\ nt[n] = "lock" /\ mutex = Nobody
  /\ notify_locked(n, waiters, state) /\ owed' = TRUE
  /\ nt' = [nt EXCEPT ![n] = IF toWake'[n] = Nobody THEN "idle" ELSE "wake"]
  /\ UNCHANGED <<mutex, fut, sleeping, calls>>

NotifyWake(t) ==
  /\ toWake[t] # Nobody /\ mutex # t
  /\ sleeping' = sleeping \ {toWake[t]} /\ toWake' = [toWake EXCEPT ![t] = Nobody]
  /\ nt' = IF t \in Notifiers THEN [nt EXCEPT ![t] = "idle"] ELSE nt
  /\ UNCHANGED <<state, waiters, mutex, fut, notified, waker, calls, owed>>
-----------------------------------------------------------------------------
\* Notified::poll in state Init: the permit, without the mutex ...
PollInit(f) ==
  /\ fut[f] = "Init"
  /\ IF state = "NOTIFIED"
     THEN state' = "EMPTY" /\ fut' = [fut EXCEPT ![f] = "Done"] /\ owed' = FALSE
     ELSE fut' = [fut EXCEPT ![f] = "lock"] /\ UNCHANGED <<state, owed>>
  /\ UNCHANGED <<waiters, mutex, notified, waker, sleeping, nt, calls, toWake>>

\* ... and with it: take a permit stored meanwhile, or join the list at the front.
\* The second round of the loop in poll finds the waiter not notified.
PollJoin(f) ==
  /\ fut[f] = "lock" /\ mutex = Nobody
  /\ IF state = "NOTIFIED"
     THEN /\ state' = "EMPTY" /\ fut' = [fut EXCEPT ![f] = "Done"] /\ owed' = FALSE
          /\ UNCHANGED <<waiters, waker>>
     ELSE /\ state' = "WAITING" /\ waiters' = <<f>> \o waiters /\ waker' = waker \cup {f}
          /\ fut' = [fut EXCEPT ![f] = "Waiting"] /\ UNCHANGED owed
  /\ UNCHANGED <<mutex, notified, sleeping, nt, calls, toWake>>

PollWaiting(f) ==
  /\ fut[f] = "Waiting" /\ f \notin sleeping /\ mutex = Nobody
  /\ IF f \in notified
     THEN /\ notified' = notified \ {f} /\ waker' = waker \ {f}
          /\ fut' = [fut EXCEPT ![f] = "Done"] /\ owed' = FALSE /\ UNCHANGED sleeping
     ELSE sleeping' = sleeping \cup {f} /\ UNCHANGED <<notified, waker, fut, owed>>
  /\ UNCHANGED <<state, waiters, mutex, nt, calls, toWake>>

\* Drop of a future that never waited, or is done.
DropIdle(f) ==
  /\ fut[f] \in {"Init", "Done"} /\ fut' = [fut EXCEPT ![f] = "dropped"]
  /\ UNCHANGED <<state, waiters, mutex, notified, waker, sleeping, nt, calls, toWake, owed>>

\* LinkedList::remove: a node that is not in the list stays out of it.
unlink(list, f) ==
  LET k == CHOOSE i \in DOMAIN list : list[i] = f IN
  IF f \in Range(list) THEN SubSeq(list, 1, k - 1) \o SubSeq(list, k + 1, Len(list)) ELSE list

\* Drop of a waiting future: leave the list; the last one stores EMPTY ...
DropWaiting(f) ==
  /\ fut[f] = "Waiting" /\ mutex = Nobody
  /\ fut' = [fut EXCEPT ![f] = "dropping"] /\ mutex' = f
  /\ waiters' = unlink(waiters, f) /\ waker' = waker \ {f}
  /\ state' = IF waiters' = <<>> THEN "EMPTY" ELSE state
  /\ sleeping' = sleeping \ {f}
  /\ UNCHANGED <<notified, nt, calls, toWake, owed>>

\* Mutant: the notification goes with the future.
M_DropForwardNothing(f) ==
  /\ fut[f] = "dropping" /\ mutex' = Nobody /\ fut' = [fut EXCEPT ![f] = "dropped"]
  /\ UNCHANGED <<state, waiters, notified, waker, toWake, sleeping, nt, calls, owed>>

\* ... and a notification that was not received is passed on.
DropForward(f) ==
  /\ fut[f] = "dropping" /\ mutex' = Nobody /\ fut' = [fut EXCEPT ![f] = "dropped"]
  /\ IF f \in notified
     THEN notify_locked(f, waiters, IF waiters = <<>> THEN "EMPTY" ELSE "WAITING")
     ELSE UNCHANGED <<state, waiters, notified, waker, toWake>>
  /\ UNCHANGED <<sleeping, nt, calls, owed>>

NotifyNext ==
  \/ \E n \in Notifiers : NotifyFast(n) \/ NotifySlow(n)
  \/ \E t \in NotifyThreads : NotifyWake(t)
  \/ \E f \in Futures : \/ PollInit(f) \/ PollJoin(f) \/ PollWaiting(f)
                        \/ DropIdle(f) \/ DropWaiting(f) \/ DropForward(f)
NotifySpec == NotifyInit /\ [][NotifyNext]_notifyVars
-----------------------------------------------------------------------------
\* The byte and the list agree whenever the mutex is free, so the unwrap of pop_back
\* and the assertions of notify_locked and poll hold; a flagged waiter is out of the list.
ListAgrees ==
  /\ mutex = Nobody => (state = "WAITING" <=> waiters # <<>>)
  /\ IsInjective(waiters)
  /\ \A f \in Range(waiters) : fut[f] = "Waiting" /\ f \in waker /\ f \notin notified
  /\ \A f \in Futures : fut[f] = "Waiting" => f \in Range(waiters) \/ f \in notified

\* A notify() that was not received is the stored permit, or a flagged waiter's, and no
\* future sleeps on it: a flagged one has been woken, or will be.
NotificationKept ==
  /\ owed => \/ state = "NOTIFIED"
             \/ \E f \in notified : fut[f] \in {"Waiting", "dropping"}
  /\ \A f \in sleeping \cap notified : \E t \in NotifyThreads : toWake[t] = f
NotifySound == ListAgrees /\ NotificationKept

-----------------------------------------------------------------------------
(***************************************************************************)
(* The watch channel (src/krse/sync/watch.rs): the latest value, a version *)
(* whose lowest bit says closed, a waker per receiver, and a waker for a   *)
(* sender that waits until every receiver is gone.  Threads that share the *)
(* Sender call broadcast concurrently.  Wakers are AtomicWakers, one step  *)
(* each (module AtomicWaker).                                              *)
(***************************************************************************)

CONSTANTS
  WatchThreads,      \* callers of Sender::broadcast
  Receivers, FirstReceiver,  \* FirstReceiver is created by channel(), the others are its clones
  MaxBroadcast  \* bound: broadcasts

VARIABLES
  value, version, closed,  \* Shared: the value is the number of the broadcast
  watchers, rxWaker,       \* registered watchers; watchers with a waker stored
  txWaker,                 \* Shared::cancel holds a waker
  strong,                  \* who holds an Arc of Shared
  bc, mine,                \* broadcaster: where it is and its value
  count,                   \* broadcasts started
  rx, ver, seen, watch_state, ended,  \* receiver: where it is, Receiver::ver, last value, loaded version; told of the end
  asleep, txState          \* tasks asleep; the task in Sender::closed and the handle

Tx == "tx"
\* The task in Sender::closed is neither a broadcaster nor a receiver.
ASSUME WatchAssumption == FirstReceiver \in Receivers /\ Tx \notin Receivers \cup WatchThreads

sharedVars == <<value, version, closed, watchers, rxWaker, txWaker, strong>>
bcVars == <<bc, mine, count>>
rxVars == <<rx, ver, seen, watch_state, ended>>
watchVars == <<sharedVars, bcVars, rxVars, asleep, txState>>

WatchInit ==
  /\ value = 0 /\ version = 2 /\ closed = FALSE /\ watchers = {FirstReceiver}
  /\ rxWaker = {} /\ txWaker = FALSE /\ strong = {FirstReceiver}
  /\ bc = [t \in WatchThreads |-> "idle"] /\ mine = [t \in WatchThreads |-> 0] /\ count = 0
  /\ rx = [r \in Receivers |-> IF r = FirstReceiver THEN "idle" ELSE "none"]
  /\ ver = [r \in Receivers |-> 0] /\ seen = [r \in Receivers |-> 0]
  /\ watch_state = [r \in Receivers |-> <<0, FALSE>>] /\ ended = {}
  /\ asleep = {} /\ txState = "idle"

\* Wake the tasks of these receivers, and the waiting sender.
WakeRx(S) == rxWaker' = rxWaker \ S /\ asleep' = asleep \ (S \cap rxWaker)
\* Mutant: the last Arc goes without a wake.
M_ReleaseSilent(x, sleepers) == strong' = strong \ {x} /\ asleep' = sleepers /\ UNCHANGED txWaker

\* Drop an Arc of Shared: the last one wakes Sender::closed (Drop for Shared).
ReleaseArc(x, sleepers) ==
  /\ strong' = strong \ {x}
  /\ txWaker' = (txWaker /\ strong' # {})
  /\ asleep' = IF strong' = {} /\ txWaker THEN sleepers \ {Tx} ELSE sleepers
-----------------------------------------------------------------------------
\* broadcast: upgrade the Weak, replace the value, bump the version, notify all.
Upgrade(t) ==
  /\ bc[t] = "idle" /\ txState \in {"idle", "done"} /\ count < MaxBroadcast /\ strong # {}
  /\ count' = count + 1 /\ mine' = [mine EXCEPT ![t] = count'] /\ strong' = strong \cup {t}
  /\ bc' = [bc EXCEPT ![t] = "value"]
  /\ UNCHANGED <<value, version, closed, watchers, rxWaker, txWaker, rxVars, asleep, txState>>

Replace(t) ==
  /\ bc[t] = "value" /\ value' = mine[t] /\ bc' = [bc EXCEPT ![t] = "version"]
  /\ UNCHANGED <<version, closed, watchers, rxWaker, txWaker, strong, mine, count, rxVars, asleep, txState>>

Bump(t) ==
  /\ bc[t] = "version" /\ version' = version + 2 /\ bc' = [bc EXCEPT ![t] = "notify"]
  /\ UNCHANGED <<value, closed, watchers, rxWaker, txWaker, strong, mine, count, rxVars, asleep, txState>>

notify_all(t) ==
  /\ bc[t] = "notify" /\ WakeRx(watchers) /\ bc' = [bc EXCEPT ![t] = "release"]
  /\ UNCHANGED <<value, version, closed, watchers, txWaker, strong, mine, count, rxVars, txState>>

ReleaseBc(t) ==
  /\ bc[t] = "release" /\ ReleaseArc(t, asleep) /\ bc' = [bc EXCEPT ![t] = "idle"]
  /\ UNCHANGED <<value, version, closed, watchers, rxWaker, mine, count, rxVars, txState>>

\* Drop of the Sender, when no call is running on it: set CLOSED, notify all.
DropSender ==
  /\ txState \in {"idle", "done"} /\ \A t \in WatchThreads : bc[t] = "idle"
  /\ txState' = IF strong = {} THEN "gone" ELSE "drop"
  /\ closed' = (strong # {}) /\ strong' = IF strong = {} THEN strong ELSE strong \cup {Tx}
  /\ UNCHANGED <<value, version, watchers, rxWaker, txWaker, bcVars, rxVars, asleep>>

DropNotify ==
  /\ txState = "drop" /\ WakeRx(watchers) /\ txState' = "release"
  /\ UNCHANGED <<value, version, closed, watchers, txWaker, strong, bcVars, rxVars>>

\* poll_close: register on the upgraded Arc, which may be the last one by now.
PollClose ==
  /\ txState = "idle" /\ \A t \in WatchThreads : bc[t] = "idle"
  /\ IF strong = {} THEN txState' = "done" /\ UNCHANGED <<strong, txWaker>>
     ELSE txState' = "pending" /\ strong' = strong \cup {Tx} /\ txWaker' = TRUE
  /\ UNCHANGED <<value, version, closed, watchers, rxWaker, bcVars, rxVars, asleep>>

PollCloseEnd ==
  /\ txState = "pending" /\ Tx \in strong /\ ReleaseArc(Tx, asleep \cup {Tx})
  /\ UNCHANGED <<value, version, closed, watchers, rxWaker, bcVars, rxVars, txState>>

\* The pending future is polled again when woken, or dropped.
Woken ==
  /\ txState = "pending" /\ Tx \notin strong
  /\ txState' = "idle" /\ asleep' = asleep \ {Tx}
  /\ UNCHANGED <<sharedVars, bcVars, rxVars>>

DropEnd ==
  /\ txState = "release" /\ ReleaseArc(Tx, asleep) /\ txState' = "gone"
  /\ UNCHANGED <<value, version, closed, watchers, rxWaker, bcVars, rxVars>>
-----------------------------------------------------------------------------
\* poll_recv_ref: register the waker, load the version, then compare.
RegisterRx(r) ==
  /\ rx[r] = "idle" /\ r \notin asleep /\ rxWaker' = rxWaker \cup {r}
  /\ rx' = [rx EXCEPT ![r] = "load"]
  /\ UNCHANGED <<value, version, closed, watchers, txWaker, strong, bcVars, ver, seen, watch_state, ended, asleep, txState>>

Load(r) ==
  /\ rx[r] = "load" /\ watch_state' = [watch_state EXCEPT ![r] = <<version, closed>>]
  /\ rx' = [rx EXCEPT ![r] = "compare"]
  /\ UNCHANGED <<sharedVars, bcVars, ver, seen, ended, asleep, txState>>

Compare(r) ==
  /\ rx[r] = "compare" /\ rx' = [rx EXCEPT ![r] = "idle"]
  /\ CASE watch_state[r][1] # ver[r] ->
            /\ seen' = [seen EXCEPT ![r] = value] /\ ver' = [ver EXCEPT ![r] = watch_state[r][1]]
            /\ UNCHANGED <<ended, asleep>>
       [] watch_state[r][1] = ver[r] /\ watch_state[r][2] ->
            ended' = ended \cup {r} /\ UNCHANGED <<seen, ver, asleep>>
       [] OTHER -> /\ asleep' = IF r \in rxWaker THEN asleep \cup {r} ELSE asleep
                   /\ UNCHANGED <<seen, ver, ended>>
  /\ UNCHANGED <<sharedVars, bcVars, watch_state, txState>>

\* Clone: a watcher of its own, the same version seen.
Clone(r, c) ==
  /\ rx[r] = "idle" /\ rx[c] = "none" /\ rx' = [rx EXCEPT ![c] = "idle"]
  /\ watchers' = watchers \cup {c} /\ strong' = strong \cup {c}
  /\ ver' = [ver EXCEPT ![c] = ver[r]] /\ seen' = [seen EXCEPT ![c] = seen[r]]
  /\ UNCHANGED <<value, version, closed, rxWaker, txWaker, bcVars, watch_state, ended, asleep, txState>>

DropReceiver(r) ==
  /\ rx[r] = "idle" /\ rx' = [rx EXCEPT ![r] = "gone"] /\ watchers' = watchers \ {r}
  /\ ReleaseArc(r, asleep \ {r})
  /\ UNCHANGED <<value, version, closed, rxWaker, bcVars, ver, seen, watch_state, ended, txState>>

WatchNext ==
  \/ \E t \in WatchThreads : Upgrade(t) \/ Replace(t) \/ Bump(t) \/ notify_all(t) \/ ReleaseBc(t)
  \/ DropSender \/ DropNotify \/ DropEnd \/ PollClose \/ PollCloseEnd \/ Woken
  \/ \E r \in Receivers : \/ RegisterRx(r) \/ Load(r) \/ Compare(r) \/ DropReceiver(r)
                          \/ \E c \in Receivers : Clone(r, c)
WatchSpec == WatchInit /\ [][WatchNext]_watchVars
-----------------------------------------------------------------------------
Quiet == \A t \in WatchThreads : bc[t] \in {"idle", "release"}

\* A receiver that sleeps has seen the latest value and the sender is not gone, unless a
\* broadcast or the drop is still on its way to its waker (poll_recv_ref, notify_all).
LatestSeen ==
  \A r \in asleep \cap Receivers :
    /\ Quiet => ver[r] = version /\ seen[r] = value
    /\ closed => txState = "drop"

\* A receiver is told of the end only after it was given the last value (recv -> None).
EndIsLast == \A r \in ended : seen[r] = value /\ closed

\* closed() does not sleep once the last receiver is gone: the Arc that goes last wakes it.
CloseIsHeard == Tx \in asleep => strong # {}
WatchSound == LatestSeen /\ EndIsLast /\ CloseIsHeard

-----------------------------------------------------------------------------
(***************************************************************************)
(* Barrier (src/krse/sync/barrier.rs): the n-th task to arrive announces   *)
(* the generation on a watch channel, the others wait for it.  The channel *)
(* is what module Watch shows of it: a version per broadcast, the latest   *)
(* value, and a wake for every receiver that sleeps.                       *)
(***************************************************************************)

CONSTANTS
  Tasks, N,   \* N is the argument of Barrier::new
  MaxWait     \* bound: calls of wait() per task

VARIABLES
  arrived, generation,  \* BarrierState
  barrier_value, barrier_version,       \* the watch channel
  at, mygen, barrier_ver,       \* task: where it is; its generation; the version its clone saw
  barrier_calls, leader         \* calls of wait(); result of the last one
barrierVars == <<arrived, generation, barrier_value, barrier_version, at, mygen, barrier_ver, barrier_calls, leader>>

\* Finitely many tasks; n is a usize.
ASSUME BarrierAssumption == IsFiniteSet(Tasks) /\ N \in Nat

\* Barrier::new: 0 is taken as 1.
parties == IF N = 0 THEN 1 ELSE N
BarrierInit ==
  /\ arrived = 0 /\ generation = 1 /\ barrier_value = 0 /\ barrier_version = 1
  /\ at = [t \in Tasks |-> "out"] /\ mygen = [t \in Tasks |-> 0] /\ barrier_ver = [t \in Tasks |-> 0]
  /\ barrier_calls = [t \in Tasks |-> 0] /\ leader = [t \in Tasks |-> FALSE]

\* The critical section of wait(): the leader announces and returns, the others clone
\* the receiver that has seen nothing.
Arrive(t) ==
  /\ at[t] = "out" /\ barrier_calls[t] < MaxWait /\ barrier_calls' = [barrier_calls EXCEPT ![t] = @ + 1]
  /\ mygen' = [mygen EXCEPT ![t] = generation] /\ barrier_ver' = [barrier_ver EXCEPT ![t] = 0]
  /\ leader' = [leader EXCEPT ![t] = arrived + 1 = parties]
  /\ IF arrived + 1 = parties
     THEN /\ barrier_value' = generation /\ barrier_version' = barrier_version + 1 /\ arrived' = 0
          /\ generation' = generation + 1
          /\ at' = [x \in Tasks |-> IF at[x] = "asleep" THEN "poll" ELSE at[x]]
     ELSE /\ arrived' = arrived + 1 /\ at' = [at EXCEPT ![t] = "poll"]
          /\ UNCHANGED <<generation, barrier_value, barrier_version>>

\* Mutant: the announced generation must be a later one.
M_RecvLater(t) ==
  /\ at[t] = "poll"
  /\ IF barrier_version = barrier_ver[t] THEN at' = [at EXCEPT ![t] = "asleep"] /\ UNCHANGED barrier_ver
     ELSE /\ barrier_ver' = [barrier_ver EXCEPT ![t] = barrier_version]
          /\ at' = [at EXCEPT ![t] = IF barrier_value > mygen[t] THEN "out" ELSE "poll"]
  /\ UNCHANGED <<arrived, generation, barrier_value, barrier_version, mygen, barrier_calls, leader>>

\* One round of the loop: a version not seen yet gives the value, which may be old.
Recv(t) ==
  /\ at[t] = "poll"
  /\ IF barrier_version = barrier_ver[t] THEN at' = [at EXCEPT ![t] = "asleep"] /\ UNCHANGED barrier_ver
     ELSE /\ barrier_ver' = [barrier_ver EXCEPT ![t] = barrier_version]
          /\ at' = [at EXCEPT ![t] = IF barrier_value >= mygen[t] THEN "out" ELSE "poll"]
  /\ UNCHANGED <<arrived, generation, barrier_value, barrier_version, mygen, barrier_calls, leader>>

BarrierNext == \E t \in Tasks : Arrive(t) \/ Recv(t)
BarrierSpec == BarrierInit /\ [][BarrierNext]_barrierVars
-----------------------------------------------------------------------------
InGen(g) == {t \in Tasks : barrier_calls[t] > 0 /\ mygen[t] = g /\ at[t] # "out"}
\* Nobody passes a generation that is not complete, those that wait for the current one
\* are those that arrived, nobody sleeps through its announcement, and a generation has
\* one leader.
RendezvousSound ==
  /\ \A t \in Tasks : at[t] = "asleep" => mygen[t] = generation
  /\ Cardinality(InGen(generation)) = arrived
  /\ \A t \in Tasks : barrier_calls[t] > 0 /\ at[t] = "out" => mygen[t] < generation
  /\ \A t, u \in Tasks : leader[t] /\ leader[u] /\ t # u => mygen[t] # mygen[u]
=============================================================================
