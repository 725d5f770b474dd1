----------------------------- MODULE ThreadPool -----------------------------
(***************************************************************************)
(* util::threadpool: a pool of threads that take jobs from one channel     *)
(* under a mutex, count the jobs queued and active in atomics, replace a   *)
(* thread whose job panicked, and let callers join the pool or change its  *)
(* size; and `run`, whose future gets the result of a job or is dropped.   *)
(* Every atomic access and every lock is a step.                           *)
(***************************************************************************)
EXTENDS Integers, Sequences, FiniteSets, SequencesExt

CONSTANTS
  Threads,         \* the threads there can ever be
  num_threads,     \* the size of the pool when it is built
  Clients,         \* the threads that use the pool
  JobsOf,          \* function: client -> the sequence of its jobs
  Joining,         \* the clients that join after their jobs
  Sizes,           \* what set_num_threads is called with, each once
  MaxPanics

Jobs == UNION {ToSet(JobsOf[c]) : c \in Clients}

VARIABLES
  queued_count, active_count, max_thread_count, panic_count, join_generation,
  jobs,            \* the channel
  receiver,        \* who holds the job_receiver mutex, 0 for nobody
  empty_trigger,   \* who holds the empty_trigger mutex
  th,              \* thread -> [pc, job, seen]
  cl,              \* client -> [pc, next, gen, mine]: `mine` the jobs it queued before its join
  done,            \* the jobs that have run
  future,          \* job -> what its CpuFuture has: "wait", "ok", "canceled", "dropped"
  sizes

vars == <<queued_count, active_count, max_thread_count, panic_count, join_generation, jobs, receiver,
          empty_trigger, th, cl, done, future, sizes>>
counts == <<queued_count, active_count, max_thread_count, panic_count, join_generation>>

Spawnable == {t \in Threads : th[t].pc = "none"}
At(t, pc) == th[t].pc = pc
Go(t, pc) == th' = [th EXCEPT ![t].pc = pc]
Client(c, pc) == cl' = [cl EXCEPT ![c].pc = pc]

\* Builder::build
Init ==
  /\ queued_count = 0 /\ active_count = 0 /\ max_thread_count = num_threads
  /\ panic_count = 0 /\ join_generation = 0
  /\ jobs = <<>> /\ receiver = 0 /\ empty_trigger = 0
  /\ th = [t \in Threads |-> [pc |-> IF t <= num_threads THEN "top" ELSE "none", job |-> 0, seen |-> 0]]
  /\ cl = [c \in Clients |-> [pc |-> "run", next |-> 1, gen |-> 0]]
  /\ done = {} /\ future = [j \in Jobs |-> "wait"]
  /\ sizes = Sizes

-----------------------------------------------------------------------------
(* A thread: spawn_in_pool. *)

load_active(t) ==
  /\ At(t, "top")
  /\ th' = [th EXCEPT ![t].pc = "compare", ![t].seen = active_count]
  /\ UNCHANGED <<counts, jobs, receiver, empty_trigger, cl, done, future, sizes>>
\* A pool that was made smaller loses the threads that see enough others at work.
compare(t) ==
  /\ At(t, "compare")
  /\ th' = [th EXCEPT ![t].pc = IF th[t].seen >= max_thread_count THEN "exited" ELSE "lock", ![t].seen = 0]
  /\ UNCHANGED <<counts, jobs, receiver, empty_trigger, cl, done, future, sizes>>
lock_receiver(t) ==
  /\ At(t, "lock") /\ receiver = 0
  /\ receiver' = t /\ Go(t, "recv")
  /\ UNCHANGED <<counts, jobs, empty_trigger, cl, done, future, sizes>>
\* recv under the lock: a job, or the end once every ThreadPool has been dropped.
PoolDropped == \A c \in Clients : cl[c].pc = "gone"
recv(t) ==
  /\ At(t, "recv")
  /\ \/ /\ jobs # <<>>
        /\ th' = [th EXCEPT ![t].pc = "activate", ![t].job = Head(jobs)] /\ jobs' = Tail(jobs)
     \/ /\ jobs = <<>> /\ PoolDropped
        /\ Go(t, "exited") /\ jobs' = jobs
  /\ receiver' = 0
  /\ UNCHANGED <<counts, empty_trigger, cl, done, future, sizes>>
activate(t) ==
  /\ At(t, "activate")
  /\ active_count' = active_count + 1 /\ Go(t, "unqueue")
  /\ UNCHANGED <<queued_count, max_thread_count, panic_count, join_generation, jobs, receiver, empty_trigger,
                 cl, done, future, sizes>>
unqueue(t) ==
  /\ At(t, "unqueue")
  /\ queued_count' = queued_count - 1 /\ Go(t, "work")
  /\ UNCHANGED <<active_count, max_thread_count, panic_count, join_generation, jobs, receiver, empty_trigger,
                 cl, done, future, sizes>>
\* The job runs, unless its future has been dropped; one that panics drops its sender.
work(t) ==
  /\ At(t, "work")
  /\ LET j == th[t].job IN
     /\ done' = done \union {j}
     /\ \/ /\ Go(t, "deactivate")
           /\ future' = [future EXCEPT ![j] = IF @ = "wait" THEN "ok" ELSE @]
        \/ /\ panic_count < MaxPanics /\ future[j] = "wait"
           /\ Go(t, "unwind")
           /\ future' = [future EXCEPT ![j] = "canceled"]
  /\ UNCHANGED <<counts, jobs, receiver, empty_trigger, cl, sizes>>
\* Mutant: a thread that panics does not give its place back.
M_deactivate_leaks(t) ==
  /\ At(t, "deactivate") \/ At(t, "unwind")
  /\ active_count' = IF At(t, "unwind") THEN active_count ELSE active_count - 1
  /\ panic_count' = IF At(t, "unwind") THEN panic_count + 1 ELSE panic_count
  /\ th' = [th EXCEPT ![t].pc = "has_queued", ![t].job = 0, ![t].seen = IF At(t, "unwind") THEN 1 ELSE 0]
  /\ UNCHANGED <<queued_count, max_thread_count, join_generation, jobs, receiver, empty_trigger, cl, done, future, sizes>>

\* The end of the loop's body; or Sentinel::drop of a thread that panics, which then spawns
\* its replacement.
deactivate(t) ==
  /\ At(t, "deactivate") \/ At(t, "unwind")
  /\ active_count' = active_count - 1
  /\ panic_count' = IF At(t, "unwind") THEN panic_count + 1 ELSE panic_count
  /\ th' = [th EXCEPT ![t].pc = "has_queued", ![t].job = 0, ![t].seen = IF At(t, "unwind") THEN 1 ELSE 0]
  /\ UNCHANGED <<queued_count, max_thread_count, join_generation, jobs, receiver, empty_trigger, cl, done, future, sizes>>
\* no_work_notify_all
After(t) == IF th[t].seen = 1 THEN "respawn" ELSE "top"
has_queued(t) ==
  /\ At(t, "has_queued")
  /\ Go(t, IF queued_count > 0 THEN After(t) ELSE "has_active")
  /\ UNCHANGED <<counts, jobs, receiver, empty_trigger, cl, done, future, sizes>>
has_active(t) ==
  /\ At(t, "has_active")
  /\ Go(t, IF active_count > 0 THEN After(t) ELSE "trigger")
  /\ UNCHANGED <<counts, jobs, receiver, empty_trigger, cl, done, future, sizes>>
trigger(t) ==
  /\ At(t, "trigger") /\ empty_trigger = 0
  /\ Go(t, "notify")
  /\ UNCHANGED <<counts, jobs, receiver, empty_trigger, cl, done, future, sizes>>
notify_all(t) ==
  /\ At(t, "notify")
  /\ Go(t, After(t))
  /\ cl' = [c \in Clients |-> IF cl[c].pc = "asleep" THEN [cl[c] EXCEPT !.pc = "lock"] ELSE cl[c]]
  /\ UNCHANGED <<counts, jobs, receiver, empty_trigger, done, future, sizes>>
respawn(t) ==
  /\ At(t, "respawn")
  /\ \E n \in Spawnable :
       /\ \A m \in Spawnable : n <= m
       /\ th' = [th EXCEPT ![t] = [pc |-> "exited", job |-> 0, seen |-> 0], ![n].pc = "top"]
  /\ UNCHANGED <<counts, jobs, receiver, empty_trigger, cl, done, future, sizes>>

-----------------------------------------------------------------------------
(* The clients: execute (and run), set_num_threads, join. *)

execute(c) ==
  /\ cl[c].pc = "run" /\ cl[c].next <= Len(JobsOf[c])
  /\ queued_count' = queued_count + 1
  /\ Client(c, "send")
  /\ UNCHANGED <<active_count, max_thread_count, panic_count, join_generation, jobs, receiver, empty_trigger,
                 th, done, future, sizes>>
send(c) ==
  /\ cl[c].pc = "send"
  /\ jobs' = Append(jobs, JobsOf[c][cl[c].next])
  /\ cl' = [cl EXCEPT ![c].pc = "run", ![c].next = @ + 1]
  /\ UNCHANGED <<counts, receiver, empty_trigger, th, done, future, sizes>>
\* The future of a job is dropped before the job has answered.
drop_future(j) ==
  /\ future[j] = "wait" /\ j \in ToSet(jobs)
  /\ future' = [future EXCEPT ![j] = "dropped"]
  /\ UNCHANGED <<counts, jobs, receiver, empty_trigger, th, cl, done, sizes>>
set_num_threads ==
  /\ \E n \in sizes :
       LET extra == {t \in Spawnable : Cardinality({m \in Spawnable : m < t}) < n - max_thread_count} IN
       /\ Cardinality(Spawnable) >= n - max_thread_count
       /\ max_thread_count' = n
       /\ th' = [t \in Threads |-> IF t \in extra THEN [th[t] EXCEPT !.pc = "top"] ELSE th[t]]
       /\ sizes' = sizes \ {n}
  /\ \E c \in Clients : cl[c].pc # "gone"
  /\ UNCHANGED <<queued_count, active_count, panic_count, join_generation, jobs, receiver, empty_trigger, cl, done, future>>

\* join, one load at a time; the loop starts at "check" under the lock.
join(c) ==
  /\ \/ /\ cl[c].pc = "run" /\ cl[c].next > Len(JobsOf[c])
        /\ Client(c, IF c \in Joining THEN "queued" ELSE "gone")
     \/ cl[c].pc = "queued" /\ Client(c, IF queued_count > 0 THEN "generation" ELSE "active")
     \/ cl[c].pc = "active" /\ Client(c, IF active_count > 0 THEN "generation" ELSE "returned")
     \/ cl[c].pc = "generation" /\ cl' = [cl EXCEPT ![c].pc = "lock", ![c].gen = join_generation]
     \/ cl[c].pc = "check" /\ Client(c, IF cl[c].gen # join_generation THEN "advance" ELSE "check_queued")
     \/ cl[c].pc = "check_queued" /\ Client(c, IF queued_count > 0 THEN "wait" ELSE "check_active")
     \/ cl[c].pc = "check_active" /\ Client(c, IF active_count > 0 THEN "wait" ELSE "advance")
     \/ cl[c].pc = "returned" /\ Client(c, "gone")
  /\ UNCHANGED <<counts, jobs, receiver, empty_trigger, th, done, future, sizes>>
join_lock(c) ==
  /\ cl[c].pc = "lock" /\ empty_trigger = 0
  /\ empty_trigger' = c /\ Client(c, "check")
  /\ UNCHANGED <<counts, jobs, receiver, th, done, future, sizes>>
\* Condvar::wait gives the lock back.
join_wait(c) ==
  /\ cl[c].pc = "wait"
  /\ empty_trigger' = 0 /\ Client(c, "asleep")
  /\ UNCHANGED <<counts, jobs, receiver, th, done, future, sizes>>
join_advance(c) ==
  /\ cl[c].pc = "advance"
  /\ join_generation' = IF join_generation = cl[c].gen THEN join_generation + 1 ELSE join_generation
  /\ empty_trigger' = 0 /\ Client(c, "returned")
  /\ UNCHANGED <<queued_count, active_count, max_thread_count, panic_count, jobs, receiver, th, done, future, sizes>>

Next ==
  \/ \E t \in Threads :
       \/ load_active(t) \/ compare(t) \/ lock_receiver(t) \/ recv(t) \/ activate(t) \/ unqueue(t) \/ work(t)
       \/ deactivate(t) \/ has_queued(t) \/ has_active(t) \/ trigger(t) \/ notify_all(t) \/ respawn(t)
  \/ \E c \in Clients : execute(c) \/ send(c) \/ join(c) \/ join_lock(c) \/ join_wait(c) \/ join_advance(c)
  \/ \E j \in Jobs : drop_future(j)
  \/ set_num_threads
Spec == Init /\ [][Next]_vars

-----------------------------------------------------------------------------
Alive == {t \in Threads : th[t].pc \notin {"none", "exited"}}

\* A join that returns has waited for every job its caller had queued; with several threads
\* joining at a time another one's join may end it early, so this is asked of a lone joiner.
JoinWaits ==
  Cardinality(Joining) = 1 =>
    \A c \in Joining : cl[c].pc \in {"returned", "gone"} => ToSet(JobsOf[c]) \subseteq done

\* A caller asleep in join while there is no work is about to be woken.
JoinWakes ==
  (\E c \in Clients : cl[c].pc = "asleep") /\ queued_count = 0 /\ active_count = 0 =>
    \E t \in Threads : th[t].pc \in {"has_queued", "has_active", "trigger", "notify"}

\* Whatever sizes the pool is given and whatever panics, a queued job has a thread that will
\* take it, the counters are those of the jobs, and the pool's threads return to its size.
JobsTaken ==
  /\ jobs # <<>> => Alive # {}
  /\ active_count = Cardinality({t \in Threads : th[t].pc \in {"unqueue", "work", "deactivate", "unwind"}})
  /\ queued_count = Len(jobs) + Cardinality({c \in Clients : cl[c].pc = "send"})
                    + Cardinality({t \in Threads : th[t].pc \in {"activate", "unqueue"}})
  /\ Sizes = {} => Cardinality(Alive) <= num_threads
  /\ (Sizes = {} /\ ~PoolDropped) => Cardinality(Alive) = num_threads
\* The future of a job that has run is answered or was dropped: nobody waits for ever.
FuturesAnswered == \A j \in Jobs : future[j] \in {"ok", "canceled"} => j \in done
FuturesEnd == \A j \in done : future[j] # "wait"
ThreadPoolSound == JoinWaits /\ JoinWakes /\ JobsTaken /\ FuturesAnswered /\ FuturesEnd
=============================================================================
