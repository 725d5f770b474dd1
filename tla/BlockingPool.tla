---------------------------- MODULE BlockingPool ----------------------------
(***************************************************************************)
(* The thread pool behind spawn_blocking (src/fiber/block_pool.rs).        *)
(*                                                                         *)
(* Every field of Shared is guarded by one mutex, so an action is one      *)
(* region of code between taking and releasing that mutex, the condition   *)
(* variable's wait being a release followed by a later re-acquisition.     *)
(* What a thread does without the lock (running a task, shutting one down, *)
(* creating a thread) shows as a program counter value of its own.         *)
(***************************************************************************)
EXTENDS Integers, Sequences, FiniteSets

CONSTANTS
  Threads,         \* identities of pool threads; an exited one may be reused
  Tasks,           \* the tasks handed to spawn_blocking, each once
  thread_cap,      \* Inner.thread_cap
  MaxSpawnFail,    \* bound: how often the OS may refuse to create a thread
  NoTask           \* a thread that holds no task

ASSUME ThreadsAssumption == IsFiniteSet(Threads)
ASSUME CapAssumption == thread_cap \in Nat \ {0}
ASSUME EnoughThreads == thread_cap <= Cardinality(Threads)
ASSUME FailAssumption == MaxSpawnFail \in Nat
ASSUME NoTaskAssumption == NoTask \notin Tasks

VARIABLES
  queue,         \* Shared.queue
  num_th,        \* Shared.num_th
  num_idle,      \* Shared.num_idle
  num_notify,    \* Shared.num_notify
  shutdown,      \* Shared.shutdown; shutdown_tx is None exactly when it is set
  pc,            \* where each thread is
  task,          \* the task a thread has popped and not finished with
  handle,        \* the BlockingPool value: "live", "dropping" or "dropped"
  status,        \* what has become of each task
  failures       \* threads the OS refused to create

shared == <<queue, num_th, num_idle, num_notify, shutdown>>
vars == <<queue, num_th, num_idle, num_notify, shutdown,
          pc, task, handle, status, failures>>

(***************************************************************************)
(* "none"      the identity is not in use                                  *)
(* "spawning"  schedule() counted the thread and has not yet created it    *)
(* "starting"  created, not yet at its first lock()                        *)
(* "running"   inside run_task                                             *)
(* "ran"       past run_task, about to take the lock again                 *)
(* "waiting"   in the condition variable's queue                           *)
(* "woken"     left that queue by a notification or spuriously             *)
(* "timedout"  left that queue because KEEP_ALIVE elapsed                  *)
(* "draining"  inside task.shutdown() of the drain loop                    *)
(* "exited"    past its last unlock, its shutdown_tx not dropped yet       *)
(***************************************************************************)
Stages == {"none", "spawning", "starting", "running", "ran", "waiting",
           "woken", "timedout", "draining", "exited"}

AwakeStages == {"woken", "timedout"}
IdleStages == {"waiting", "woken", "timedout"}
BusyStages == {"spawning", "starting", "running", "ran"}
LiveStages == Stages \ {"none", "exited"}

At(f, stages) == {t \in Threads : f[t] \in stages}
In(stages) == At(pc, stages)

Awake == In(AwakeStages)
Idle == In(IdleStages)
Busy == In(BusyStages)
Live == In(LiveStages)

TypeOK ==
  /\ queue \in Seq(Tasks)
  /\ num_th \in Nat
  /\ num_idle \in Nat
  /\ num_notify \in Nat
  /\ shutdown \in BOOLEAN
  /\ pc \in [Threads -> Stages]
  /\ task \in [Threads -> Tasks \cup {NoTask}]
  /\ handle \in {"live", "dropping", "dropped"}
  /\ status \in [Tasks -> {"new", "accepted", "running", "done", "cancelled"}]
  /\ failures \in 0 .. MaxSpawnFail

Init ==
  /\ queue = <<>>
  /\ num_th = 0
  /\ num_idle = 0
  /\ num_notify = 0
  /\ shutdown = FALSE
  /\ pc = [t \in Threads |-> "none"]
  /\ task = [t \in Threads |-> NoTask]
  /\ handle = "live"
  /\ status = [k \in Tasks |-> "new"]
  /\ failures = 0

(***************************************************************************)
(* Spawner::schedule.  The lock is held for each of the first three        *)
(* actions; ScheduleSpawn leaves spawn_thread for after the unlock.        *)
(***************************************************************************)
\* Mutant: a task handed over during shutdown is still queued.
M_RefusedQueued(k) ==
  /\ shutdown
  /\ status[k] = "new"
  /\ queue' = Append(queue, k)
  /\ status' = [status EXCEPT ![k] = "accepted"]
  /\ UNCHANGED <<num_th, num_idle, num_notify, shutdown, pc, task, handle, failures>>

ScheduleRefused(k) ==
  /\ shutdown
  /\ status[k] = "new"
  /\ status' = [status EXCEPT ![k] = "cancelled"]
  /\ UNCHANGED <<shared, pc, task, handle, failures>>

Enqueue(k) ==
  /\ ~shutdown
  /\ status[k] = "new"
  /\ queue' = Append(queue, k)
  /\ status' = [status EXCEPT ![k] = "accepted"]

ScheduleAtCap(k) ==
  /\ Enqueue(k)
  /\ num_idle = 0
  /\ num_th = thread_cap
  /\ UNCHANGED <<num_th, num_idle, num_notify, shutdown, pc, task, handle, failures>>

ScheduleSpawn(k, t) ==
  /\ Enqueue(k)
  /\ num_idle = 0
  /\ num_th # thread_cap
  /\ pc[t] = "none"
  /\ num_th' = num_th + 1
  /\ pc' = [pc EXCEPT ![t] = "spawning"]
  /\ UNCHANGED <<num_idle, num_notify, shutdown, task, handle, failures>>

\* notify_one wakes some waiting thread, and nobody when none is waiting.
NotifyOne ==
  \/ /\ In({"waiting"}) = {}
     /\ UNCHANGED pc
  \/ \E t \in In({"waiting"}) : pc' = [pc EXCEPT ![t] = "woken"]

\* Mutant: a thread is counted as notified, but the condvar is not.
M_ScheduleNotifySilent(k) ==
  /\ Enqueue(k)
  /\ num_idle # 0
  /\ num_idle' = num_idle - 1
  /\ num_notify' = num_notify + 1
  /\ UNCHANGED <<num_th, shutdown, pc, task, handle, failures>>

ScheduleNotify(k) ==
  /\ Enqueue(k)
  /\ num_idle # 0
  /\ num_idle' = num_idle - 1
  /\ num_notify' = num_notify + 1
  /\ NotifyOne
  /\ UNCHANGED <<num_th, shutdown, task, handle, failures>>

\* thread::Builder::spawn succeeds, or its unwrap() panics in the caller and
\* the clone of shutdown_tx is dropped with the closure.
SpawnThread(t) ==
  /\ pc[t] = "spawning"
  /\ pc' = [pc EXCEPT ![t] = "starting"]
  /\ UNCHANGED <<shared, task, handle, status, failures>>

SpawnThreadFails(t) ==
  /\ pc[t] = "spawning"
  /\ failures < MaxSpawnFail
  /\ failures' = failures + 1
  /\ pc' = [pc EXCEPT ![t] = "none"]
  /\ UNCHANGED <<shared, task, handle, status>>

\* "Thread exit": checked_sub(1) panics where this would be negative.
Exit(t, idle) ==
  /\ num_th' = num_th - 1
  /\ num_idle' = idle - 1
  /\ pc' = [pc EXCEPT ![t] = "exited"]
  /\ task' = [task EXCEPT ![t] = NoTask]
  /\ UNCHANGED queue

\* The drain loop entered once shutdown is seen, and what follows it.
Drain(t, idle) ==
  \/ /\ queue # <<>>
     /\ queue' = Tail(queue)
     /\ task' = [task EXCEPT ![t] = Head(queue)]
     /\ pc' = [pc EXCEPT ![t] = "draining"]
     /\ num_idle' = idle
     /\ UNCHANGED num_th
  \/ /\ queue = <<>>
     /\ Exit(t, idle + 1)

\* IDLE: count the thread as idle and wait, unless the pool is shut down.
BecomeIdle(t) ==
  \/ /\ ~shutdown
     /\ num_idle' = num_idle + 1
     /\ pc' = [pc EXCEPT ![t] = "waiting"]
     /\ task' = [task EXCEPT ![t] = NoTask]
     /\ UNCHANGED <<queue, num_th>>
  \/ /\ shutdown
     /\ Drain(t, num_idle + 1)

\* Mutant: a thread goes idle after one task without looking for more.
M_BusyLoopOnce(t) ==
  \/ /\ queue # <<>>
     /\ pc[t] # "ran"
     /\ queue' = Tail(queue)
     /\ task' = [task EXCEPT ![t] = Head(queue)]
     /\ pc' = [pc EXCEPT ![t] = "running"]
     /\ status' = [status EXCEPT ![Head(queue)] = "running"]
     /\ UNCHANGED <<num_th, num_idle>>
  \/ /\ queue = <<>> \/ pc[t] = "ran"
     /\ BecomeIdle(t)
     /\ UNCHANGED status

\* BUSY: take the next task, or fall through to IDLE.
BusyLoop(t) ==
  \/ /\ queue # <<>>
     /\ queue' = Tail(queue)
     /\ task' = [task EXCEPT ![t] = Head(queue)]
     /\ pc' = [pc EXCEPT ![t] = "running"]
     /\ status' = [status EXCEPT ![Head(queue)] = "running"]
     /\ UNCHANGED <<num_th, num_idle>>
  \/ /\ queue = <<>>
     /\ BecomeIdle(t)
     /\ UNCHANGED status

ThreadStart(t) ==
  /\ pc[t] = "starting"
  /\ BusyLoop(t)
  /\ UNCHANGED <<num_notify, shutdown, handle, failures>>

\* run_task returns; the lock is not held.
RunTask(t) ==
  /\ pc[t] = "running"
  /\ status' = [status EXCEPT ![task[t]] = "done"]
  /\ pc' = [pc EXCEPT ![t] = "ran"]
  /\ UNCHANGED <<shared, task, handle, failures>>

\* The lock is taken again: look for more work, unless shutdown is requested.
Relock(t) ==
  /\ pc[t] = "ran"
  /\ \/ /\ ~shutdown
        /\ BusyLoop(t)
     \/ /\ shutdown
        /\ BecomeIdle(t)
        /\ UNCHANGED status
  /\ UNCHANGED <<num_notify, shutdown, handle, failures>>

\* The condition variable lets go of a waiting thread for no reason, or
\* because KEEP_ALIVE elapsed.  The thread has yet to get the lock back.
SpuriousWakeup(t) ==
  /\ pc[t] = "waiting"
  /\ pc' = [pc EXCEPT ![t] = "woken"]
  /\ UNCHANGED <<shared, task, handle, status, failures>>

KeepAliveElapsed(t) ==
  /\ pc[t] = "waiting"
  /\ pc' = [pc EXCEPT ![t] = "timedout"]
  /\ UNCHANGED <<shared, task, handle, status, failures>>

\* wait_timeout returned and a notification is outstanding: acknowledge it.
WakeNotified(t) ==
  /\ t \in Awake
  /\ num_notify # 0
  /\ num_notify' = num_notify - 1
  /\ \/ /\ ~shutdown
        /\ BusyLoop(t)
     \/ /\ shutdown
        /\ Drain(t, num_idle)
        /\ UNCHANGED status
  /\ UNCHANGED <<shutdown, handle, failures>>

\* wait_timeout returned with no notification outstanding: leave the loop
\* on shutdown, leave the pool after a timeout, go back to sleep otherwise.
WakeUnnotified(t) ==
  /\ t \in Awake
  /\ num_notify = 0
  /\ \/ /\ shutdown
        /\ Drain(t, num_idle)
     \/ /\ ~shutdown
        /\ pc[t] = "timedout"
        /\ Exit(t, num_idle)
     \/ /\ ~shutdown
        /\ pc[t] = "woken"
        /\ pc' = [pc EXCEPT ![t] = "waiting"]
        /\ UNCHANGED <<queue, num_th, num_idle, task>>
  /\ UNCHANGED <<num_notify, shutdown, handle, status, failures>>

\* Mutant: the drain loop drops the task instead of shutting it down.
M_TaskDropped(t) ==
  /\ pc[t] = "draining"
  /\ Drain(t, num_idle)
  /\ UNCHANGED <<num_notify, shutdown, handle, status, failures>>

\* task.shutdown() of the drain loop returned.
TaskShutDown(t) ==
  /\ pc[t] = "draining"
  /\ status' = [status EXCEPT ![task[t]] = "cancelled"]
  /\ Drain(t, num_idle)
  /\ UNCHANGED <<num_notify, shutdown, handle, failures>>

\* before_stop, then drop(inner) and drop(shutdown_tx) in spawn_thread.
DropShutdownTx(t) ==
  /\ pc[t] = "exited"
  /\ pc' = [pc EXCEPT ![t] = "none"]
  /\ UNCHANGED <<shared, task, handle, status, failures>>

(***************************************************************************)
(* Drop for BlockingPool: request shutdown under the lock, then wait for   *)
(* every clone of shutdown_tx to be gone.                                  *)
(***************************************************************************)
\* Mutant: shutdown is requested without notify_all.
M_DropWakesNobody ==
  /\ handle = "live"
  /\ handle' = "dropping"
  /\ shutdown' = TRUE
  /\ UNCHANGED <<queue, num_th, num_idle, num_notify, pc, task, status, failures>>

DropPool ==
  /\ handle = "live"
  /\ handle' = "dropping"
  /\ shutdown' = TRUE
  /\ pc' = [t \in Threads |-> IF pc[t] = "waiting" THEN "woken" ELSE pc[t]]
  /\ UNCHANGED <<queue, num_th, num_idle, num_notify, task, status, failures>>

DropWaitReturns ==
  /\ handle = "dropping"
  /\ \A t \in Threads : pc[t] = "none"
  /\ handle' = "dropped"
  /\ UNCHANGED <<shared, pc, task, status, failures>>

Schedule(k) ==
  \/ ScheduleRefused(k)
  \/ ScheduleAtCap(k)
  \/ \E t \in Threads : ScheduleSpawn(k, t)
  \/ ScheduleNotify(k)

Run2(t) ==
  \/ ThreadStart(t)
  \/ RunTask(t)
  \/ Relock(t)
  \/ WakeNotified(t)
  \/ WakeUnnotified(t)
  \/ TaskShutDown(t)
  \/ DropShutdownTx(t)

\* Every task was handed over and the pool is gone: nothing is left to do.
Finished ==
  /\ handle = "dropped"
  /\ \A k \in Tasks : status[k] # "new"
  /\ UNCHANGED vars

Next ==
  \/ \E k \in Tasks : Schedule(k)
  \/ \E t \in Threads :
       SpawnThread(t) \/ SpawnThreadFails(t) \/ Run2(t)
         \/ SpuriousWakeup(t) \/ KeepAliveElapsed(t)
  \/ DropPool
  \/ DropWaitReturns
  \/ Finished

Spec == Init /\ [][Next]_vars

(***************************************************************************)
(* The OS runs every thread, and a task's closure returns: each thread's   *)
(* next step is weakly fair.  Nobody has to call schedule or drop, and     *)
(* wakeups without a notification need never happen.                       *)
(***************************************************************************)
Fairness ==
  /\ \A t \in Threads : WF_vars(SpawnThread(t)) /\ WF_vars(Run2(t))
  /\ WF_vars(DropWaitReturns)

FairSpec == Spec /\ Fairness
-----------------------------------------------------------------------------
\* num_idle and num_notify account for each thread in the wait loop exactly
\* once while the pool is open: schedule moves one unit from num_idle to
\* num_notify, and whichever thread wakes first takes it back, notified or not.
CountersExact ==
  ~shutdown => num_idle + num_notify = Cardinality(Idle)

\* A notification counted in num_notify is never lost to a timeout or to a
\* spurious wakeup racing notify_one: enough threads are already out of the
\* condition variable to acknowledge every one.
NoLostWakeup ==
  ~shutdown => num_notify <= Cardinality(Awake)

\* num_th counts the threads between schedule's increment and thread exit, and
\* one for every creation the OS refused; it never exceeds thread_cap.
ThreadsCounted ==
  /\ num_th = Cardinality(Live) + failures
  /\ num_th <= thread_cap

\* A queued task always has somebody on the way to it, although schedule wakes
\* or creates nobody at the cap and idle threads leave on their own: a thread
\* that will look at the queue, or a notification not acknowledged yet.
NoStrandedTask ==
  queue # <<>> /\ failures = 0 =>
    \/ Busy # {}
    \/ ~shutdown /\ num_notify > 0
    \/ shutdown /\ Live # {}

\* No thread sleeps through a shutdown, so the drop never waits for KEEP_ALIVE.
NobodySleepsThroughShutdown ==
  shutdown => In({"waiting"}) = {}

\* The counters that schedule decides by are right at every unlock, whatever
\* timeouts, spurious wakeups and failed thread creations happened before.
CountersSound == TypeOK /\ CountersExact /\ NoLostWakeup /\ ThreadsCounted

Service == INSTANCE TaskService WITH open <- ~shutdown

\* The pool does to each task what the callers were promised.
ImplementsTaskService == Service!Spec

\* An accepted task is eventually run or shut down, by the last of the threads
\* that leave if by nobody else, unless the OS refused to create a thread.
EveryTaskSettles ==
  \A k \in Tasks :
    status[k] = "accepted" ~> status[k] \in {"done", "cancelled"} \/ failures > 0

\* Dropping the pool terminates.
DropTerminates == handle = "dropping" ~> handle = "dropped"
=============================================================================
