------------------------------ MODULE Scheduler ------------------------------
(***************************************************************************)
(* The single-threaded scheduler: BasicScheduler of src/fiber/scheduler.rs *)
(* on the queues of src/fiber/inner/queue.rs (MpscQueues), the owned list  *)
(* of list.rs, the pending_drop stack of stack.rs and the flags of         *)
(* FiberState.  One thread owns the scheduler, runs block_on and in the    *)
(* end drops it; other threads spawn tasks and wake them, which takes the  *)
(* remote queue's mutex and unparks the owner.                             *)
(*                                                                         *)
(* The owner's steps are the code between two points where another thread  *)
(* can interfere.  The mutex is held across steps by close_remote only,    *)
(* which shuts tasks down under it.  Memory and the JoinHandle are the     *)
(* business of module Fiber: of a task's flags only those about running    *)
(* are used here.                                                          *)
(***************************************************************************)
EXTENDS Integers, Sequences, FiniteSets, SequencesExt, FiberState

CONSTANTS
  Tasks, Threads,
  NoTask,                  \* no task
  CHECK_REMOTE_INTERVAL,   \* MpscQueues::CHECK_REMOTE_INTERVAL
  MAX_TASKS_PER_TICK,
  TickWrap,                \* the tick is a u8: 256
  DropWakes                \* may the drop of a future wake another task?


VARIABLES
  state,        \* Header.state of each task
  new,          \* tasks not spawned yet
  bound,        \* tasks whose executor is set: polled once at least
  owned,        \* MpscQueues.owned_tasks
  local,        \* MpscQueues.local_queue
  remote,       \* RemoteQueue.queue
  open,         \* RemoteQueue.open
  lock,         \* who holds the remote queue's mutex
  pending,      \* MpscQueues.pending_drop, top first
  token,        \* the owner's park token
  tick, budget, \* LocalState.tick, and the polls left in this tick
  main_woken,   \* block_on's future was woken and not polled since
  owner,        \* where the owning thread is
  current,      \* the task it is polling or shutting down
  todo,         \* what is left of OwnedList::shutdown's walk
  carrying,     \* per thread: a task it won and has to submit
  deadlocked    \* the thread that waits for the mutex it holds, if any

queues == <<local, remote, open, lock, pending>>
loop == <<tick, budget, owner, current, todo>>
vars == <<state, new, bound, owned, local, remote, open, lock, pending, token,
          tick, budget, main_woken, owner, current, todo, carrying, deadlocked>>

(***************************************************************************)
(* owner  "main"       in the poll of block_on's future                    *)
(*        "tick"       in SchedulerPriv::tick, between two tasks           *)
(*        "running"    in Fiber::run     "park" in park, the queues empty  *)
(*        "maintain"   drain_pending_drop at the end of block_on's loop    *)
(*        "returned"   outside block_on                                    *)
(*   MpscQueues::shutdown                                                  *)
(*        "close_remote", "close_local", "shutdown_owned", "drain"         *)
(*   the loop of Drop for BasicScheduler                                   *)
(*        "drop_drain", "drop_local", "drop_lock", "drop_remote",          *)
(*        "drop_check", "drop_park", and "dropped" after it                *)
(***************************************************************************)
Active == {"main", "tick", "running", "park", "maintain"}
OwnerSteps == Active \cup
  {"returned", "close_remote", "close_local", "shutdown_owned", "drain",
   "drop_drain", "drop_local", "drop_lock", "drop_remote", "drop_check",
   "drop_park", "dropped"}

Init ==
  /\ state = [t \in Tasks |-> {"NOTIFIED"}]
  /\ new = Tasks /\ bound = {} /\ owned = {}
  /\ local = <<>> /\ remote = <<>> /\ open = TRUE /\ lock = "free"
  /\ pending = <<>> /\ token = FALSE
  /\ tick = 0 /\ budget = 0 /\ main_woken = TRUE
  /\ owner = "main" /\ current = NoTask /\ todo = {}
  /\ carrying = [h \in Threads |-> NoTask]
  /\ deadlocked = "nobody"

-----------------------------------------------------------------------------
(* block_on and SchedulerPriv::tick *)

PollMain ==
  /\ owner = "main"
  /\ main_woken' = FALSE
  /\ \/ owner' = "tick" /\ budget' = MAX_TASKS_PER_TICK
     \/ owner' = "returned" /\ UNCHANGED budget
  /\ UNCHANGED <<state, new, bound, owned, queues, token, tick, current, todo,
                 carrying, deadlocked>>

BlockOnAgain ==
  /\ owner = "returned"
  /\ owner' = "main" /\ main_woken' = TRUE
  /\ UNCHANGED <<state, new, bound, owned, queues, token, tick, budget, current,
                 todo, carrying, deadlocked>>

NextTick == (tick + 1) % TickWrap

\* Mutant: the remote queue is looked at only when the local one is empty.
M_RemoteLast == FALSE

RemoteFirst == tick % CHECK_REMOTE_INTERVAL = 0

\* The head of Harness::poll, the first bind included.
Start(t) ==
  /\ state' = [state EXCEPT ![t] = transition_to_running(@)]
  /\ bound' = bound \cup {t}
  /\ owned' = IF t \in bound THEN owned ELSE owned \cup {t}
  /\ current' = t /\ owner' = "running"

NextTask ==
  /\ owner = "tick" /\ budget > 0 /\ lock = "free"
  /\ tick' = NextTick
  /\ IF remote # <<>> /\ (RemoteFirst \/ local = <<>>)
       THEN Start(Head(remote)) /\ remote' = Tail(remote) /\ UNCHANGED local
     ELSE IF local # <<>>
       THEN Start(Head(local)) /\ local' = Tail(local) /\ UNCHANGED remote
     ELSE owner' = "park" /\ UNCHANGED <<state, bound, owned, current, local, remote>>
  /\ UNCHANGED <<new, open, lock, pending, token, budget, main_woken, todo,
                 carrying, deadlocked>>

\* park_timeout(0) after MAX_TASKS_PER_TICK tasks.
BudgetSpent ==
  /\ owner = "tick" /\ budget = 0
  /\ token' = FALSE /\ owner' = "maintain"
  /\ UNCHANGED <<state, new, bound, owned, queues, tick, budget, main_woken,
                 current, todo, carrying, deadlocked>>

TaskPending ==
  /\ owner = "running"
  /\ state' = [state EXCEPT ![current] = transition_to_idle(@)]
  /\ local' = IF "NOTIFIED" \in state'[current] THEN Append(local, current)
              ELSE local
  /\ owner' = "tick" /\ budget' = budget - 1 /\ current' = NoTask
  /\ UNCHANGED <<new, bound, owned, remote, open, lock, pending, token, tick,
                 main_woken, todo, carrying, deadlocked>>

TaskReady ==
  /\ owner = "running"
  /\ state' = [state EXCEPT ![current] = transition_to_complete(@)]
  /\ owned' = owned \ {current}
  /\ owner' = "tick" /\ budget' = budget - 1 /\ current' = NoTask
  /\ UNCHANGED <<new, bound, queues, token, tick, main_woken, todo, carrying,
                 deadlocked>>

\* A future polled by the owner wakes a task: SchedulerPriv::schedule, current.
WakeLocal(u) ==
  /\ owner \in {"main", "running"} /\ u \in bound
  /\ state' = [state EXCEPT ![u] = transition_to_notified(@)]
  /\ local' = IF must_schedule(state[u]) THEN Append(local, u) ELSE local
  /\ UNCHANGED <<new, bound, owned, remote, open, lock, pending, token, loop,
                 main_woken, carrying, deadlocked>>

SpawnLocal(t) ==
  /\ owner \in {"main", "running"} /\ t \in new
  /\ new' = new \ {t}
  /\ local' = Append(local, t)
  /\ UNCHANGED <<state, bound, owned, remote, open, lock, pending, token, loop,
                 main_woken, carrying, deadlocked>>

Park ==
  /\ owner \in {"park", "drop_park"} /\ token
  /\ token' = FALSE
  /\ owner' = IF owner = "park" THEN "maintain" ELSE "drop_drain"
  /\ UNCHANGED <<state, new, bound, owned, queues, tick, budget, main_woken,
                 current, todo, carrying, deadlocked>>

\* The driver under the park (timers, I/O) had an event of its own.
DriverEvent ==
  /\ owner \in {"park", "drop_park"} /\ ~ token
  /\ owner' = IF owner = "park" THEN "maintain" ELSE "drop_drain"
  /\ UNCHANGED <<state, new, bound, owned, queues, token, tick, budget,
                 main_woken, current, todo, carrying, deadlocked>>

DrainPendingDrop ==
  /\ owner \in {"maintain", "drain", "drop_drain"} /\ current = NoTask
  /\ owned' = owned \ ToSet(pending)
  /\ pending' = <<>>
  /\ owner' = CASE owner = "maintain" -> "main"
                [] owner = "drain" -> "drop_drain"
                [] owner = "drop_drain" -> "drop_local"
  /\ UNCHANGED <<state, new, bound, local, remote, open, lock, token, tick,
                 budget, main_woken, current, todo, carrying, deadlocked>>

-----------------------------------------------------------------------------
(* Drop for BasicScheduler *)

\* close_remote of MpscQueues::shutdown takes the mutex and keeps it.
BeginDrop ==
  /\ owner = "returned" /\ lock = "free"
  /\ owner' = "close_remote" /\ lock' = "owner" /\ open' = FALSE
  /\ UNCHANGED <<state, new, bound, owned, local, remote, pending, token, tick,
                 budget, main_woken, current, todo, carrying, deadlocked>>

\* close_remote of the loop's drain_queues does so again.
LockRemote ==
  /\ owner = "drop_lock" /\ lock = "free"
  /\ owner' = "drop_remote" /\ lock' = "owner"
  /\ UNCHANGED <<state, new, bound, owned, local, remote, open, pending, token,
                 tick, budget, main_woken, current, todo, carrying, deadlocked>>

\* Fiber::shutdown of a popped task, up to the drop of its future.
Cancel(t) ==
  /\ state' = [state EXCEPT ![t] = transition_to_canceled_from_queue(@)]
  /\ current' = t

CloseRemote ==
  /\ owner \in {"close_remote", "drop_remote"} /\ current = NoTask /\ deadlocked = "nobody"
  /\ IF remote # <<>>
       THEN Cancel(Head(remote)) /\ remote' = Tail(remote)
            /\ UNCHANGED <<lock, owner>>
       ELSE /\ lock' = "free"
            /\ owner' = IF owner = "close_remote" THEN "close_local"
                        ELSE "drop_check"
            /\ UNCHANGED <<state, current, remote>>
  /\ UNCHANGED <<new, bound, owned, local, open, pending, token, tick, budget,
                 main_woken, todo, carrying, deadlocked>>

CloseLocal ==
  /\ owner \in {"close_local", "drop_local"} /\ current = NoTask
  /\ IF local # <<>>
       THEN Cancel(Head(local)) /\ local' = Tail(local)
            /\ UNCHANGED <<owner, todo>>
       ELSE /\ owner' = IF owner = "close_local" THEN "shutdown_owned"
                        ELSE "drop_lock"
            /\ todo' = IF owner = "close_local" THEN owned ELSE todo
            /\ UNCHANGED <<state, current, local>>
  /\ UNCHANGED <<new, bound, owned, remote, open, lock, pending, token, tick,
                 budget, main_woken, carrying, deadlocked>>

\* One task of OwnedList::shutdown's walk.
ShutdownOwned ==
  /\ owner = "shutdown_owned" /\ current = NoTask
  /\ \/ \E t \in todo :
          /\ todo' = todo \ {t}
          /\ state' = [state EXCEPT ![t] = transition_to_canceled_from_list(@)]
          /\ current' = IF is_active(state[t]) /\ "CANCELLED" \in state'[t]
                        THEN t ELSE NoTask
          /\ UNCHANGED owner
     \/ todo = {} /\ owner' = "drain" /\ UNCHANGED <<todo, state, current>>
  /\ UNCHANGED <<new, bound, owned, queues, token, tick, budget, main_woken,
                 carrying, deadlocked>>

ShuttingDown == current # NoTask /\ owner # "running"

\* do_cancel drops the future (or wakes the JoinHandle's context), which wakes
\* a task: block_on is not active, so schedule locks the remote queue.
WakeOnDrop(u) ==
  /\ DropWakes /\ ShuttingDown /\ deadlocked = "nobody"
  /\ u \in bound \ {current}
  /\ state' = [state EXCEPT ![u] = transition_to_notified(@)]
  /\ IF ~ must_schedule(state[u])
       THEN UNCHANGED <<remote, token, deadlocked>>
     ELSE IF lock = "owner"
       THEN deadlocked' = "owner" /\ UNCHANGED <<remote, token>>
     ELSE /\ lock = "free"
          /\ remote' = Append(remote, u) /\ token' = TRUE
          /\ UNCHANGED deadlocked
  /\ UNCHANGED <<new, bound, owned, local, open, lock, pending, loop,
                 main_woken, carrying>>

\* The end of do_cancel: release pushes a bound task on pending_drop.
ReleaseCancelled ==
  /\ ShuttingDown /\ deadlocked = "nobody"
  /\ pending' = IF current \in bound THEN <<current>> \o pending ELSE pending
  /\ current' = NoTask
  /\ UNCHANGED <<state, new, bound, owned, local, remote, open, lock, token,
                 tick, budget, main_woken, owner, todo, carrying, deadlocked>>

CheckRemaining ==
  /\ owner = "drop_check"
  /\ owner' = IF owned = {} THEN "dropped" ELSE "drop_park"
  /\ UNCHANGED <<state, new, bound, owned, queues, token, tick, budget,
                 main_woken, current, todo, carrying, deadlocked>>

-----------------------------------------------------------------------------
(* Other threads *)

WakeMain ==
  /\ main_woken' = TRUE /\ token' = TRUE
  /\ owner # "dropped"
  /\ UNCHANGED <<state, new, bound, owned, queues, loop, carrying, deadlocked>>

\* Harness::wake_by_ref up to Schedule::schedule.
Wake(h, t) ==
  /\ carrying[h] = NoTask /\ t \in bound
  /\ state' = [state EXCEPT ![t] = transition_to_notified(@)]
  /\ carrying' = [carrying EXCEPT ![h] = IF must_schedule(state[t]) THEN t
                                         ELSE NoTask]
  /\ UNCHANGED <<new, bound, owned, queues, token, loop, main_woken, deadlocked>>

\* Mutant: the owner is not unparked.
M_SubmitNoUnpark(h) ==
  /\ carrying[h] # NoTask /\ lock = "free"
  /\ remote' = Append(remote, carrying[h])
  /\ carrying' = [carrying EXCEPT ![h] = NoTask]
  /\ UNCHANGED <<state, new, bound, owned, local, open, lock, pending, token,
                 loop, main_woken, deadlocked>>

\* SchedulerPriv::schedule from another thread: push and unpark while locked.
Submit(h) ==
  /\ carrying[h] # NoTask /\ lock = "free"
  /\ remote' = Append(remote, carrying[h]) /\ token' = TRUE
  /\ carrying' = [carrying EXCEPT ![h] = NoTask]
  /\ UNCHANGED <<state, new, bound, owned, local, open, lock, pending, loop,
                 main_woken, deadlocked>>

Spawn(h, t) ==
  /\ carrying[h] = NoTask /\ t \in new /\ lock = "free" /\ open
  /\ new' = new \ {t} /\ token' = TRUE
  /\ remote' = Append(remote, t)
  /\ UNCHANGED <<state, bound, owned, local, open, lock, pending, loop,
                 main_woken, carrying, deadlocked>>

\* A closed queue shuts the task down under the mutex; the drop of its future
\* may wake a task, whose schedule wants the same mutex.
SpawnRefused(h, t) ==
  /\ carrying[h] = NoTask /\ t \in new /\ lock = "free" /\ ~ open
  /\ new' = new \ {t}
  /\ \/ /\ state' = [state EXCEPT ![t] = transition_to_canceled_from_queue(@)]
        /\ token' = TRUE
        /\ UNCHANGED <<lock, deadlocked>>
     \/ \E u \in bound :
          /\ DropWakes /\ must_schedule(state[u])
          /\ state' = [state EXCEPT ![t] = transition_to_canceled_from_queue(@),
                                    ![u] = transition_to_notified(@)]
          /\ lock' = h /\ deadlocked' = h
          /\ UNCHANGED token
  /\ UNCHANGED <<bound, owned, local, remote, open, pending, loop, main_woken,
                 carrying>>

-----------------------------------------------------------------------------
Next ==
  \/ PollMain \/ BlockOnAgain \/ NextTask \/ BudgetSpent \/ TaskPending
  \/ TaskReady \/ Park \/ DriverEvent \/ DrainPendingDrop
  \/ (\E u \in Tasks : WakeLocal(u) \/ SpawnLocal(u) \/ WakeOnDrop(u))
  \/ BeginDrop \/ LockRemote \/ CloseRemote \/ CloseLocal \/ ShutdownOwned
  \/ ReleaseCancelled \/ CheckRemaining \/ WakeMain
  \/ \E h \in Threads :
       Submit(h) \/ \E t \in Tasks : Wake(h, t) \/ Spawn(h, t) \/ SpawnRefused(h, t)

Spec == Init /\ [][Next]_vars

(***************************************************************************)
(* The owner's thread makes progress and the futures' polls return; a      *)
(* thread inside schedule gets the mutex if it is free again and again.    *)
(* No driver event, no wakeup and no drop of the scheduler has to come.    *)
(***************************************************************************)
OwnerProgress ==
  \/ PollMain \/ NextTask \/ BudgetSpent \/ TaskPending \/ TaskReady \/ Park
  \/ DrainPendingDrop \/ LockRemote \/ CloseRemote \/ CloseLocal
  \/ ShutdownOwned \/ ReleaseCancelled \/ CheckRemaining

Fairness ==
  /\ WF_vars(OwnerProgress)
  /\ \A h \in Threads : SF_vars(Submit(h))

FairSpec == Spec /\ Fairness

-----------------------------------------------------------------------------
(* Properties *)

TypeOK ==
  /\ state \in [Tasks -> SUBSET Flags]
  /\ new \subseteq Tasks /\ bound \subseteq Tasks /\ owned \subseteq Tasks
  /\ local \in Seq(Tasks) /\ remote \in Seq(Tasks) /\ pending \in Seq(Tasks)
  /\ open \in BOOLEAN /\ token \in BOOLEAN /\ main_woken \in BOOLEAN
  /\ lock \in {"free", "owner"} \cup Threads
  /\ tick \in 0 .. (TickWrap - 1) /\ budget \in 0 .. MAX_TASKS_PER_TICK
  /\ owner \in OwnerSteps /\ current \in Tasks \cup {NoTask}
  /\ todo \subseteq Tasks
  /\ carrying \in [Threads -> Tasks \cup {NoTask}]
  /\ deadlocked \in {"nobody", "owner"} \cup Threads

Occurrences(s, t) == Cardinality({i \in DOMAIN s : s[i] = t})

Handles(t) ==
  Occurrences(local, t) + Occurrences(remote, t) + Occurrences(pending, t)
    + (IF current = t THEN 1 ELSE 0)
    + Cardinality({h \in Threads : carrying[h] = t})

(***************************************************************************)
(* The Fiber handle of a task is in one place: no interleaving of wakers,  *)
(* poller and shutdown puts a task into two queues, or releases one that   *)
(* is still queued.  A task that was notified and is not over is somewhere *)
(* it will be run or shut down from: a wakeup is never lost.               *)
(***************************************************************************)
QueuedOnce ==
  \A t \in Tasks :
    /\ Handles(t) <= 1
    /\ t \notin new /\ is_active(state[t]) /\ deadlocked = "nobody"
         => (Handles(t) = 1 <=> state[t] \cap {"NOTIFIED", "RUNNING"} # {})

(***************************************************************************)
(* The owner never goes to sleep on work: when it is parked and no token   *)
(* is on its way, both queues are empty and block_on's future has not been *)
(* woken since its last poll.                                              *)
(***************************************************************************)
ParkedMeansIdle ==
  owner = "park" /\ ~ token => local = <<>> /\ remote = <<>> /\ ~ main_woken

(***************************************************************************)
(* Every task that was polled and is not over is in the owned list, so     *)
(* that the drop finds it; a thread that is about to call schedule through *)
(* the task's raw executor pointer holds a task of that list.              *)
(***************************************************************************)
OwnedUntilReleased ==
  /\ {t \in bound : is_active(state[t])} \subseteq owned
  /\ owner \in Active \cup {"returned"} => owned = {t \in bound : is_active(state[t])}
  /\ \A h \in Threads : carrying[h] # NoTask => carrying[h] \in owned

\* Every task is accounted for by the queues, the owner, the threads that wake it
\* and the owned list, at every step of running, waking, polling and dropping.
TasksAccounted == TypeOK /\ QueuedOnce /\ OwnedUntilReleased

(***************************************************************************)
(* When the drop has returned nothing is left of the scheduler's tasks: no *)
(* queue holds one, no thread is about to queue one, and each has been run *)
(* to its end or cancelled.                                                *)
(***************************************************************************)
DropLeavesNothing ==
  owner = "dropped" =>
    /\ local = <<>> /\ remote = <<>> /\ pending = <<>>
    /\ \A h \in Threads : carrying[h] = NoTask
    /\ \A t \in Tasks \ new : ~ is_active(state[t])

Queued(t) == t \in ToSet(local) \cup ToSet(remote)

(***************************************************************************)
(* No queue starves the other: a task that is queued while block_on runs   *)
(* is taken out, however often the tasks of the other queue come back.     *)
(***************************************************************************)
QueuedTaskRuns ==
  \A t \in Tasks : Queued(t) ~> (~ Queued(t) \/ owner \notin Active)

(***************************************************************************)
(* Tasks that keep each other busy do not keep block_on from polling its   *)
(* own future once that was woken.                                         *)
(***************************************************************************)
MainFuturePolled == main_woken ~> (~ main_woken \/ owner \notin Active)

\* The tick and the budget keep the two queues and block_on's future from
\* starving one another.
NobodyStarves == QueuedTaskRuns /\ MainFuturePolled

(***************************************************************************)
(* close_remote "is safe to call in a Drop impl": the owner never waits    *)
(* for the mutex that it holds itself.                                     *)
(***************************************************************************)
CloseRemoteSafeInDrop == deadlocked # "owner"
=============================================================================
