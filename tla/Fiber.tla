-------------------------------- MODULE Fiber --------------------------------
(***************************************************************************)
(* The life of one task cell: src/fiber/inner/{harness,join,waker,raw,     *)
(* fiber,list}.rs on top of the atomic word of FiberState, as its users in *)
(* src/fiber/{scheduler,local}.rs drive it.                                *)
(*                                                                         *)
(* Three kinds of threads share the cell without a lock: the one that owns *)
(* the scheduler (it polls, completes, cancels and releases the task), the *)
(* one that holds the JoinHandle, and those that hold clones of the task's *)
(* waker.  A step is one read-modify-write of the word or one access to    *)
(* the unsynchronised parts (the stage of the future, the join waker       *)
(* cell); dropping a copied waker and freeing the cell touch nothing that  *)
(* is still shared and belong to the step that earns the right to do them. *)
(***************************************************************************)
EXTENDS Integers, FiniteSets, FiniteSetTheorems, TLAPS, FiberState

CONSTANTS
  Wakers,     \* the clones of the task's waker that can exist at once
  Ctxs,       \* the tasks from which the JoinHandle may be polled
  NoWaker     \* the join waker cell holds None

ASSUME WakersAssumption == IsFiniteSet(Wakers)
ASSUME NoWakerAssumption == NoWaker \notin Ctxs

VARIABLES
  state, refs,     \* Header.state: the flags and the waker count
  stage,           \* Core.stage
  cell,            \* Trailer.waker: the context whose waker was cloned into it
  might_drop,      \* the low bit of Header.queue_next
  bound,           \* Header.executor is set
  owned,           \* the task is in the scheduler's OwnedList
  freed,           \* the Box of the cell has been dropped
  at,              \* where the one Fiber handle to the task is
  phase,           \* how far the scheduler is in its shutdown
  owner,           \* the step the owning thread is at
  res,             \* the snapshot it acts on
  join_interest,   \* Harness::poll: the interest seen when the poll began
  will_drop,       \* it has to drop the join waker if the interest is gone
  copy,            \* its bitwise copy of the join waker cell
  join,            \* the step the thread with the JoinHandle is at
  jres,            \* the snapshot that thread acts on
  poll_ctx,        \* the context of the latest poll of the JoinHandle
  woken,           \* that context has been woken since
  result,          \* what the JoinHandle has returned
  outcome,         \* what the future resolved to, if it did (history)
  wakers,          \* what becomes of each clone of the task's waker
  live             \* clones of each context's waker not dropped yet

word == <<state, refs>>
ownerVars == <<owner, res, join_interest, will_drop, copy>>
joinVars == <<join, jres, poll_ctx, result>>
sched == <<bound, owned, phase, might_drop>>
vars == <<state, refs, stage, cell, might_drop, bound, owned, freed, at, phase,
          owner, res, join_interest, will_drop, copy,
          join, jres, poll_ctx, woken, result, outcome, wakers, live>>

(***************************************************************************)
(* at     "spawner"  not handed to the scheduler yet                       *)
(*        "queue"    in a run queue     "owner"  held by the owning thread *)
(*        "waker"    held by a thread between transition_to_notified and   *)
(*                   Schedule::schedule                                    *)
(*        "idle"     nowhere: a waker has to make a new one                *)
(*        "pending"  in the pending_drop stack                             *)
(*        "gone"     dropped                                               *)
(* owner  "idle"     between two tasks   "polling" in the future's poll    *)
(*        "complete" the output is stored   "notify" COMPLETE is set       *)
(*        "read_waker", "release"  the optimistic read and release_task    *)
(*        "cancel", "wake"  do_cancel before and after the future's drop   *)
(* join   "spawning" not returned by spawn yet   "held" between two polls  *)
(*        "store", "set", "clear", "unset"  inside store_ and              *)
(*                   swap_join_waker                                       *)
(*        "read"     read_output        "slow"   drop_join_handle_slow     *)
(*        "consume"  its error branch   "finish" complete_join_handle      *)
(*        "gone"     polled to the end or dropped                          *)
(* phase  the drop of the scheduler: "open" before it, then "closing" the  *)
(*        queues, shutting down the owned "list", "waiting" for tasks to   *)
(*        be released, and "dropped"                                       *)
(***************************************************************************)
Places == {"spawner", "queue", "owner", "waker", "idle", "pending", "gone"}
OwnerSteps == {"idle", "polling", "complete", "notify", "read_waker",
               "release", "cancel", "wake"}
JoinSteps == {"spawning", "held", "store", "set", "clear", "unset", "read",
              "slow", "consume", "finish", "gone"}
Phases == {"open", "closing", "list", "waiting", "dropped"}
WakerSteps == {"none", "held", "submit", "submit_val", "drop"}
Outcomes == {"ok", "panic"}

has(s, f) == f \in s

\* Drops one clone of the waker that a bitwise copy of the cell refers to.
DropWaker(c) ==
  live' = IF c = NoWaker THEN live ELSE [live EXCEPT ![c] = @ - 1]

Init ==
  /\ state = new_joinable /\ refs = 0
  /\ stage = "Running" /\ cell = NoWaker /\ might_drop = FALSE
  /\ bound = FALSE /\ owned = FALSE /\ freed = FALSE
  /\ at = "spawner" /\ phase = "open"
  /\ owner = "idle" /\ res = {} /\ join_interest = FALSE
  /\ will_drop = FALSE /\ copy = NoWaker
  /\ join = "spawning" /\ jres = {} /\ poll_ctx = NoWaker
  /\ woken = TRUE /\ result = "none" /\ outcome = "none"
  /\ wakers = [w \in Wakers |-> "none"]
  /\ live = [c \in Ctxs |-> 0]

-----------------------------------------------------------------------------
(* Spawning: Spawner::spawn and RemoteQueue::schedule *)

Spawn ==
  /\ at = "spawner" /\ phase = "open"
  /\ at' = "queue" /\ join' = "held"
  /\ UNCHANGED <<word, stage, cell, sched, freed, ownerVars,
                 jres, poll_ctx, result, woken, outcome, wakers, live>>

\* The remote queue is closed: the task is shut down before spawn returns.
SpawnRefused ==
  /\ at = "spawner" /\ phase # "open"
  /\ state' = release_task(transition_to_canceled_from_queue(state))
  /\ stage' = "Consumed"
  /\ at' = "gone" /\ join' = "held"
  /\ UNCHANGED <<refs, cell, sched, freed, ownerVars,
                 jres, poll_ctx, result, woken, outcome, wakers, live>>

-----------------------------------------------------------------------------
(* The owning thread: Harness::poll and complete *)

Run ==
  /\ owner = "idle" /\ phase = "open" /\ at = "queue"
  /\ state' = transition_to_running(state) /\ res' = state'
  /\ at' = "owner"
  /\ IF has(res', "CANCELLED")
       THEN /\ owner' = "cancel"
            /\ UNCHANGED <<join_interest, bound, owned>>
       ELSE /\ owner' = "polling"
            /\ join_interest' = has(res', "JOIN_INTEREST")
            /\ bound' = TRUE /\ owned' = (owned \/ ~ bound)
  /\ UNCHANGED <<refs, stage, cell, might_drop, freed, phase, will_drop, copy,
                 joinVars, woken, outcome, wakers, live>>

\* The future wakes its own task through the borrowed waker of its context.
WakeByLocalRef ==
  /\ owner = "polling"
  /\ state' = transition_to_notified(state)
  /\ at' = IF must_schedule(state) THEN "queue" ELSE at
  /\ UNCHANGED <<refs, stage, cell, sched, freed, ownerVars,
                 joinVars, woken, outcome, wakers, live>>

PollPending ==
  /\ owner = "polling"
  /\ state' = transition_to_idle(state) /\ res' = state'
  /\ IF has(res', "CANCELLED")
       THEN owner' = "cancel" /\ UNCHANGED at
       ELSE /\ owner' = "idle"
            /\ at' = IF has(res', "NOTIFIED") THEN "queue" ELSE "idle"
  /\ UNCHANGED <<refs, stage, cell, sched, freed, join_interest, will_drop,
                 copy, joinVars, woken, outcome, wakers, live>>

\* Ready, or a panic that catch_unwind turned into the task's result.  The
\* executor that polls is the one the task is bound to: a local release.
PollReady(o) ==
  /\ owner = "polling"
  /\ stage' = IF join_interest THEN o ELSE "Consumed"
  /\ outcome' = o
  /\ owned' = FALSE
  /\ owner' = "complete"
  /\ UNCHANGED <<word, cell, bound, might_drop, freed, at, phase, res,
                 join_interest, will_drop, copy, joinVars, woken, wakers, live>>

TransitionToComplete ==
  /\ owner = "complete" /\ join_interest
  /\ state' = transition_to_complete(state) /\ res' = state'
  /\ owner' = "notify"
  /\ UNCHANGED <<refs, stage, cell, sched, freed, at, join_interest, will_drop,
                 copy, joinVars, woken, outcome, wakers, live>>

TransitionToReleased ==
  /\ owner = "complete" /\ ~ join_interest
  /\ state' = transition_to_released(state)
  /\ freed' = (freed \/ is_final_ref(state', refs))
  /\ owner' = "idle" /\ at' = "gone"
  /\ UNCHANGED <<refs, stage, cell, sched, res, join_interest, will_drop, copy,
                 joinVars, woken, outcome, wakers, live>>

\* wake_join wakes the context whose waker the cell holds.
WakeJoin == woken' = (woken \/ cell = poll_ctx)

NotifyJoinHandle ==
  /\ owner = "notify"
  /\ IF ~ has(res, "JOIN_INTEREST")
       THEN stage' = "Consumed" /\ UNCHANGED woken
       ELSE IF has(res, "JOIN_WAKER")
       THEN /\ WakeJoin
            /\ stage' = IF has(res, "CANCELLED") THEN "Consumed" ELSE stage
       ELSE UNCHANGED <<stage, woken>>
  /\ will_drop' = has(res, "JOIN_WAKER")
  /\ owner' = "read_waker"
  /\ UNCHANGED <<word, cell, sched, freed, at, res, join_interest, copy,
                 joinVars, outcome, wakers, live>>

\* The optimistic read: after release_task the cell may be freed any time.
ReadJoinWaker ==
  /\ owner = "read_waker"
  /\ copy' = cell
  /\ owner' = "release"
  /\ UNCHANGED <<word, stage, cell, sched, freed, at, res, join_interest,
                 will_drop, joinVars, woken, outcome, wakers, live>>

\* The end of Harness::transition_to_released and of drop_task.
ReleaseTask ==
  /\ owner = "release"
  /\ state' = release_task(state)
  /\ IF will_drop /\ ~ has(state', "JOIN_INTEREST")
       THEN DropWaker(copy)
       ELSE UNCHANGED live
  /\ freed' = (freed \/ is_final_ref(state', refs))
  /\ owner' = "idle" /\ at' = "gone"
  /\ UNCHANGED <<refs, stage, cell, sched, res, join_interest, will_drop, copy,
                 joinVars, woken, outcome, wakers>>

-----------------------------------------------------------------------------
(* The owning thread: cancellation and the drop of the scheduler *)

BeginDrop ==
  /\ phase = "open" /\ owner = "idle"
  /\ phase' = "closing"
  /\ UNCHANGED <<word, stage, cell, might_drop, bound, owned, freed, at,
                 ownerVars, joinVars, woken, outcome, wakers, live>>

\* close_remote and close_local, in shutdown and again in the drop's loop.
CancelFromQueue ==
  /\ phase \in {"closing", "waiting"} /\ owner = "idle" /\ at = "queue"
  /\ state' = transition_to_canceled_from_queue(state) /\ res' = state'
  /\ owner' = "cancel" /\ at' = "owner"
  /\ UNCHANGED <<refs, stage, cell, sched, freed, join_interest, will_drop,
                 copy, joinVars, woken, outcome, wakers, live>>

QueuesClosed ==
  /\ phase = "closing" /\ owner = "idle" /\ at # "queue"
  /\ phase' = "list"
  /\ UNCHANGED <<word, stage, cell, might_drop, bound, owned, freed, at,
                 ownerVars, joinVars, woken, outcome, wakers, live>>

\* OwnedList::shutdown; a task left a signal instead comes back by its queue.
ShutdownOwned ==
  /\ phase = "list" /\ owner = "idle"
  /\ phase' = "waiting"
  /\ IF owned
       THEN /\ state' = transition_to_canceled_from_list(state)
            /\ res' = state'
            /\ IF is_active(state) /\ has(state', "CANCELLED")
                 THEN owner' = "cancel" /\ at' = "owner"
                 ELSE UNCHANGED <<owner, at>>
       ELSE UNCHANGED <<state, res, owner, at>>
  /\ UNCHANGED <<refs, stage, cell, might_drop, bound, owned, freed,
                 join_interest, will_drop, copy, joinVars, woken, outcome,
                 wakers, live>>

DoCancel ==
  /\ owner = "cancel"
  /\ stage' = "Consumed"
  /\ owner' = "wake"
  /\ UNCHANGED <<word, cell, sched, freed, at, res, join_interest, will_drop,
                 copy, joinVars, woken, outcome, wakers, live>>

\* The rest of do_cancel: wake the JoinHandle, then release or drop the task.
CancelWakesJoin ==
  /\ owner = "wake"
  /\ IF {"JOIN_INTEREST", "JOIN_WAKER"} \subseteq res
       THEN WakeJoin /\ might_drop' = TRUE
       ELSE UNCHANGED <<woken, might_drop>>
  /\ IF bound
       THEN at' = "pending" /\ owner' = "idle" /\ UNCHANGED will_drop
       ELSE owner' = "read_waker" /\ will_drop' = might_drop' /\ UNCHANGED at
  /\ UNCHANGED <<word, stage, cell, bound, owned, phase, freed, res,
                 join_interest, copy, joinVars, outcome, wakers, live>>

\* drain_pending_drop, up to drop_task's optimistic read.
DrainPendingDrop ==
  /\ phase = "waiting" /\ owner = "idle" /\ at = "pending"
  /\ owned' = FALSE
  /\ will_drop' = might_drop
  /\ owner' = "read_waker" /\ at' = "owner"
  /\ UNCHANGED <<word, stage, cell, might_drop, bound, phase, freed, res,
                 join_interest, copy, joinVars, woken, outcome, wakers, live>>

DropReturns ==
  /\ phase = "waiting" /\ owner = "idle" /\ ~ owned
  /\ phase' = "dropped"
  /\ UNCHANGED <<word, stage, cell, might_drop, bound, owned, freed, at,
                 ownerVars, joinVars, woken, outcome, wakers, live>>

Owner ==
  \/ Run \/ WakeByLocalRef \/ PollPending \/ (\E o \in Outcomes : PollReady(o))
  \/ TransitionToComplete \/ TransitionToReleased \/ NotifyJoinHandle
  \/ ReadJoinWaker \/ ReleaseTask
  \/ BeginDrop \/ CancelFromQueue \/ QueuesClosed \/ ShutdownOwned
  \/ DoCancel \/ CancelWakesJoin \/ DrainPendingDrop \/ DropReturns

-----------------------------------------------------------------------------
(* The clones of the task's waker *)

\* Waker::clone, of the context's borrowed waker or of a clone.
CloneWaker(w) ==
  /\ wakers[w] = "none"
  /\ owner = "polling" \/ \E v \in Wakers : wakers[v] = "held"
  /\ refs' = refs + 1
  /\ wakers' = [wakers EXCEPT ![w] = "held"]
  /\ UNCHANGED <<state, stage, cell, sched, freed, at, ownerVars,
                 joinVars, woken, outcome, live>>

Wake(w, won, lost) ==
  /\ wakers[w] = "held"
  /\ state' = transition_to_notified(state)
  /\ wakers' = [wakers EXCEPT ![w] = IF must_schedule(state) THEN won ELSE lost]
  /\ at' = IF must_schedule(state) THEN "waker" ELSE at
  /\ UNCHANGED <<refs, stage, cell, sched, freed, ownerVars,
                 joinVars, woken, outcome, live>>

WakeByRef(w) == Wake(w, "submit", "held")

WakeByVal(w) == Wake(w, "submit_val", "drop")

\* Schedule::schedule of the executor the task is bound to.
Submit(w) ==
  /\ wakers[w] \in {"submit", "submit_val"}
  /\ at' = "queue"
  /\ wakers' = [wakers EXCEPT ![w] = IF @ = "submit" THEN "held" ELSE "drop"]
  /\ UNCHANGED <<word, stage, cell, sched, freed, ownerVars,
                 joinVars, woken, outcome, live>>

DropTaskWaker(w) ==
  /\ wakers[w] \in {"held", "drop"}
  /\ refs' = refs - 1
  /\ freed' = (freed \/ is_final_ref(state, refs'))
  /\ wakers' = [wakers EXCEPT ![w] = "none"]
  /\ UNCHANGED <<state, stage, cell, sched, at, ownerVars,
                 joinVars, woken, outcome, live>>

WakerStep(w) ==
  CloneWaker(w) \/ WakeByRef(w) \/ WakeByVal(w) \/ Submit(w) \/ DropTaskWaker(w)

-----------------------------------------------------------------------------
(* The JoinHandle *)


\* JoinHandle::poll up to its first write, swap_join_waker's will_wake included.
JoinPoll(c) ==
  /\ join = "held"
  /\ poll_ctx' = c /\ woken' = FALSE
  /\ IF ~ is_active(state)
       THEN join' = "read" /\ jres' = state
       ELSE /\ UNCHANGED jres
            /\ join' = IF ~ has(state, "JOIN_WAKER") THEN "store"
                       ELSE IF cell = c THEN "held" ELSE "unset"
  /\ UNCHANGED <<word, stage, cell, sched, freed, at, ownerVars,
                 result, outcome, wakers, live>>

UnsetWaker ==
  /\ join = "unset"
  /\ state' = unset_waker(state) /\ jres' = state'
  /\ join' = IF is_active(state') THEN "store" ELSE "read"
  /\ UNCHANGED <<refs, stage, cell, sched, freed, at, ownerVars,
                 poll_ctx, result, woken, outcome, wakers, live>>

\* store_join_waker replaces the cell, which drops the waker it held.
StoreCell ==
  /\ join = "store"
  /\ cell' = poll_ctx
  /\ live' = [c \in Ctxs |-> live[c] + (IF c = poll_ctx THEN 1 ELSE 0)
                                     - (IF c = cell THEN 1 ELSE 0)]
  /\ join' = "set"
  /\ UNCHANGED <<word, stage, sched, freed, at, ownerVars,
                 jres, poll_ctx, result, woken, outcome, wakers>>

SetJoinWaker ==
  /\ join = "set"
  /\ state' = store_join_waker(state) /\ jres' = state'
  /\ join' = IF is_active(state') THEN "held" ELSE "clear"
  /\ UNCHANGED <<refs, stage, cell, sched, freed, at, ownerVars,
                 poll_ctx, result, woken, outcome, wakers, live>>

ClearCell ==
  /\ join = "clear"
  /\ cell' = NoWaker /\ DropWaker(cell)
  /\ join' = "read"
  /\ UNCHANGED <<word, stage, sched, freed, at, ownerVars,
                 jres, poll_ctx, result, woken, outcome, wakers>>

ReadOutput ==
  /\ join = "read"
  /\ IF has(jres, "CANCELLED")
       THEN result' = "cancelled" /\ UNCHANGED stage
       ELSE result' = stage /\ stage' = "Consumed"
  /\ join' = "finish"
  /\ UNCHANGED <<word, cell, sched, freed, at, ownerVars,
                 jres, poll_ctx, woken, outcome, wakers, live>>

\* Only this thread writes the cell, so its copy is what the cell holds.
CompleteJoinHandle ==
  /\ join = "finish"
  /\ state' = complete_join_handle(state)
  /\ IF has(state', "RELEASED") THEN DropWaker(cell) ELSE UNCHANGED live
  /\ freed' = (freed \/ is_final_ref(state', refs))
  /\ join' = "gone"
  /\ UNCHANGED <<refs, stage, cell, sched, at, ownerVars,
                 jres, poll_ctx, result, woken, outcome, wakers>>

JoinDropFast ==
  /\ join = "held"
  /\ state = new_joinable /\ refs = 0
  /\ state' = state \ {"JOIN_INTEREST"}
  /\ join' = "gone"
  /\ UNCHANGED <<refs, stage, cell, sched, freed, at, ownerVars,
                 jres, poll_ctx, result, woken, outcome, wakers, live>>

\* The weak exchange of the fast path failed, perhaps spuriously.
JoinDropSlow ==
  /\ join = "held"
  /\ join' = "slow"
  /\ UNCHANGED <<word, stage, cell, sched, freed, at, ownerVars,
                 jres, poll_ctx, result, woken, outcome, wakers, live>>

DropJoinHandleSlow ==
  /\ join = "slow"
  /\ state' = drop_join_handle_slow(state)
  /\ IF is_active(state)
       THEN /\ DropWaker(cell)
            /\ freed' = (freed \/ is_final_ref(state', refs))
            /\ join' = "gone" /\ UNCHANGED jres
       ELSE /\ join' = "consume" /\ jres' = state
            /\ UNCHANGED <<live, freed>>
  /\ UNCHANGED <<refs, stage, cell, sched, at, ownerVars,
                 poll_ctx, result, woken, outcome, wakers>>

ConsumeOutput ==
  /\ join = "consume"
  /\ stage' = IF has(jres, "COMPLETE") THEN "Consumed" ELSE stage
  /\ join' = "finish"
  /\ UNCHANGED <<word, cell, sched, freed, at, ownerVars,
                 jres, poll_ctx, result, woken, outcome, wakers, live>>

JoinStep ==
  \/ \E c \in Ctxs : JoinPoll(c)
  \/ UnsetWaker \/ StoreCell \/ SetJoinWaker \/ ClearCell \/ ReadOutput
  \/ CompleteJoinHandle \/ JoinDropFast \/ JoinDropSlow \/ DropJoinHandleSlow
  \/ ConsumeOutput

-----------------------------------------------------------------------------
Unreachable ==
  /\ at = "gone" /\ owner = "idle" /\ join = "gone"
  /\ \A w \in Wakers : wakers[w] = "none"

\* The cell is freed and the scheduler dropped: nothing is left to happen.
Finished == Unreachable /\ phase = "dropped" /\ UNCHANGED vars

Next ==
  \/ Spawn \/ SpawnRefused \/ Owner \/ JoinStep \/ Finished
  \/ \E w \in Wakers : WakerStep(w)

Spec == Init /\ [][Next]_vars

(***************************************************************************)
(* The owning thread and a thread inside a call make progress, a future's  *)
(* poll returns, and a context that was woken polls its JoinHandle again.  *)
(* Nobody has to wake, to clone or drop a waker or the JoinHandle, or to   *)
(* drop the scheduler.                                                     *)
(***************************************************************************)
OwnerProgress ==
  \/ Run \/ PollPending \/ (\E o \in Outcomes : PollReady(o))
  \/ TransitionToComplete \/ TransitionToReleased \/ NotifyJoinHandle
  \/ ReadJoinWaker \/ ReleaseTask
  \/ CancelFromQueue \/ QueuesClosed \/ ShutdownOwned
  \/ DoCancel \/ CancelWakesJoin \/ DrainPendingDrop \/ DropReturns

JoinProgress ==
  \/ woken /\ \E c \in Ctxs : JoinPoll(c)
  \/ UnsetWaker \/ StoreCell \/ SetJoinWaker \/ ClearCell \/ ReadOutput
  \/ CompleteJoinHandle \/ DropJoinHandleSlow \/ ConsumeOutput

Fairness ==
  /\ WF_vars(Spawn \/ SpawnRefused)
  /\ WF_vars(OwnerProgress)
  /\ WF_vars(JoinProgress)
  /\ \A w \in Wakers : WF_vars(Submit(w))

FairSpec == Spec /\ Fairness

-----------------------------------------------------------------------------
(* Properties *)

TypeOK ==
  /\ state \subseteq Flags /\ refs \in Nat
  /\ stage \in {"Running", "Consumed"} \cup Outcomes
  /\ cell \in Ctxs \cup {NoWaker} /\ copy \in Ctxs \cup {NoWaker}
  /\ poll_ctx \in Ctxs \cup {NoWaker}
  /\ might_drop \in BOOLEAN /\ bound \in BOOLEAN /\ owned \in BOOLEAN
  /\ freed \in BOOLEAN /\ woken \in BOOLEAN
  /\ join_interest \in BOOLEAN /\ will_drop \in BOOLEAN
  /\ at \in Places /\ phase \in Phases
  /\ owner \in OwnerSteps /\ res \subseteq Flags
  /\ join \in JoinSteps /\ jres \subseteq Flags
  /\ result \in {"none", "cancelled"} \cup Outcomes
  /\ outcome \in {"none"} \cup Outcomes
  /\ wakers \in [Wakers -> WakerSteps]
  /\ live \in [Ctxs -> Int]

(***************************************************************************)
(* The Box of the cell is dropped at the very moment the last of the Fiber *)
(* handle, the JoinHandle and the wakers lets go of it: never earlier (a   *)
(* use after free), never not at all (a leak), whichever thread is last.   *)
(***************************************************************************)
FreedByTheLast == freed <=> Unreachable

Submitting == {w \in Wakers : wakers[w] \in {"submit", "submit_val"}}

(***************************************************************************)
(* However many threads wake the task at once there is one Fiber handle:   *)
(* one waker at most wins transition_to_notified, and only while the task  *)
(* is neither in a queue nor with the owning thread.  The owning thread    *)
(* holds it exactly while it is at work on the task.                       *)
(***************************************************************************)
OneHandle ==
  /\ Cardinality(Submitting) = IF at = "waker" THEN 1 ELSE 0
  /\ (owner # "idle") <=> (at = "owner")

(***************************************************************************)
(* A wakeup is never lost between transition_to_notified of a waker and    *)
(* transition_to_idle of the poller: a task that is NOTIFIED and not over  *)
(* is in a queue, on its way to one, or will be put back by its poller.    *)
(***************************************************************************)
NotifiedIsQueued ==
  is_active(state) /\ has(state, "NOTIFIED")
    => at \in {"spawner", "queue", "waker", "owner"}

\* At these steps the owning thread reads the cell or the copy it made of it.
OwnerUsesCell ==
  \/ owner = "notify" /\ {"JOIN_INTEREST", "JOIN_WAKER"} \subseteq res
  \/ owner = "wake" /\ {"JOIN_INTEREST", "JOIN_WAKER"} \subseteq res
  \/ owner \in {"read_waker", "release"} /\ will_drop

OwnerUsesStage ==
  \/ owner \in {"polling", "cancel"}
  \/ owner = "notify" /\ ~ has(res, "JOIN_INTEREST")

JoinUsesStage ==
  \/ join = "read" /\ ~ has(jres, "CANCELLED")
  \/ join = "consume" /\ has(jres, "COMPLETE")

(***************************************************************************)
(* The flags are the only lock on the join waker cell and on the stage:    *)
(* the thread with the JoinHandle never writes the cell while the owning   *)
(* thread uses it, and the two never have the future or its output at      *)
(* once.                                                                   *)
(***************************************************************************)
CellsExclusive ==
  /\ ~ (OwnerUsesCell /\ join \in {"store", "clear"})
  /\ ~ (OwnerUsesStage /\ JoinUsesStage)

(***************************************************************************)
(* The join waker, read out of the cell by two threads that each may have  *)
(* to drop it, is dropped once: a clone that is alive is the one in the    *)
(* cell, a thread that is about to use or to drop the cell finds it alive, *)
(* and none is alive once the task cell is freed.                          *)
(***************************************************************************)
JoinWakerDroppedOnce ==
  /\ \A c \in Ctxs : live[c] \in {0, 1} /\ (live[c] = 1 => cell = c)
  /\ OwnerUsesCell \/ join \in {"held", "unset", "set", "clear", "slow"}
       => cell = NoWaker \/ live[cell] = 1
  /\ freed => \A c \in Ctxs : live[c] = 0

(***************************************************************************)
(* What harness.rs, state.rs, join.rs and fiber.rs assert (debug_assert,   *)
(* assert, expect, unwrap, unreachable) holds wherever it is evaluated.    *)
(***************************************************************************)
StateAsserts ==
  /\ at = "queue" =>
       /\ has(state, "NOTIFIED") /\ ~ has(state, "COMPLETE")
       /\ phase = "open" => ~ has(state, "RUNNING")
  /\ owner = "complete" =>
       /\ ~ has(state, "COMPLETE") /\ ~ has(state, "RELEASED")
       /\ has(state, "RUNNING")
  /\ owner = "release" =>
       /\ ~ has(state, "RELEASED") /\ is_terminal(state)
       /\ will_drop => has(state, "JOIN_WAKER")
  /\ join \in {"held", "finish", "slow", "store", "set", "unset"}
       => has(state, "JOIN_INTEREST")
  /\ join = "set" => ~ has(state, "JOIN_WAKER")
  /\ join = "unset" /\ is_active(state) => has(state, "JOIN_WAKER")

HarnessAsserts ==
  /\ owner = "polling" =>
       /\ join_interest \/ ~ has(state, "JOIN_WAKER")
       /\ stage = "Running"
  /\ owner = "notify" /\ ~ has(res, "JOIN_INTEREST") => ~ has(res, "JOIN_WAKER")
  /\ owner \in {"notify", "wake"} /\ OwnerUsesCell => cell # NoWaker
  /\ owner = "cancel" => ~ has(res, "COMPLETE") /\ ~ has(res, "RELEASED")
  /\ owner = "wake" => ~ might_drop
  /\ join = "consume" => ~ {"COMPLETE", "CANCELLED"} \subseteq jres
  /\ join = "read" /\ ~ has(jres, "CANCELLED") => stage \in Outcomes
  /\ join = "held" /\ is_active(state) /\ has(state, "JOIN_WAKER")
       => cell # NoWaker
  /\ Submitting # {} => bound

AssertionsHold == StateAsserts /\ HarnessAsserts

(***************************************************************************)
(* The JoinHandle returns what became of the future: its output or its     *)
(* panic when it ran to the end, cancelled only when it was dropped before *)
(* that.                                                                   *)
(***************************************************************************)
ResultFaithful ==
  result # "none" => result = IF outcome = "none" THEN "cancelled" ELSE outcome

(***************************************************************************)
(* A task waits in pending_drop or is queued only while its scheduler has  *)
(* not been dropped: a waker that still has to call Schedule::schedule     *)
(* through the raw executor pointer finds the scheduler alive.             *)
(***************************************************************************)
SchedulerOutlivesTask ==
  phase = "dropped" => at \in {"spawner", "gone"}

\* The task cell as memory: freed once and by its last user, its unsynchronised
\* fields never shared, the join waker dropped once, the scheduler alive as long
\* as anybody follows the raw pointer to it.
MemorySafe ==
  /\ TypeOK /\ FreedByTheLast /\ CellsExclusive
  /\ JoinWakerDroppedOnce /\ SchedulerOutlivesTask

\* However wakers, poller and cancellation race, the one handle of a task that is
\* to run is somewhere it will be run from, and nowhere twice.
QueuedExactlyOnce == OneHandle /\ NotifiedIsQueued

\* What the code asserts about flags and stage holds, and the JoinHandle is told
\* what really happened.
JoinSound == AssertionsHold /\ ResultFaithful

(***************************************************************************)
(* A notified task is polled, or its scheduler goes away and cancels it.   *)
(***************************************************************************)
WakesAreServed ==
  (has(state, "NOTIFIED") /\ is_active(state))
    ~> (~ has(state, "NOTIFIED") \/ ~ is_active(state))

(***************************************************************************)
(* Once the task is over its JoinHandle, polled only when its context was  *)
(* woken, becomes ready: the wakeup is not lost between store_join_waker,  *)
(* swap_join_waker and the completion or cancellation.                     *)
(***************************************************************************)
JoinIsWoken == ~ is_active(state) ~> join \in {"gone", "spawning"}

(***************************************************************************)
(* The drop of the scheduler gets every task released, also one that a     *)
(* waker is about to submit when the queues have been drained.             *)
(***************************************************************************)
DropReleasesTask == phase = "closing" ~> (phase = "dropped" /\ ~ owned)

\* The cell outlives its users, a task is queued once, and the assertions of the harness and
\* of the JoinHandle hold.
FiberSound == MemorySafe /\ QueuedExactlyOnce /\ JoinSound

-----------------------------------------------------------------------------
(***************************************************************************)
(* FiberSound for any number of wakers and contexts.                       *)
(***************************************************************************)
\* Where the handle is, and what that says of the word, of bound, owned and phase.
PlaceInv ==
  /\ (owner # "idle") <=> (at = "owner")
  /\ at = "gone" <=> has(state, "RELEASED")
  /\ join # "gone" <=> has(state, "JOIN_INTEREST")
  /\ join = "spawning" <=> at = "spawner"
  /\ ~ (has(state, "COMPLETE") /\ has(state, "CANCELLED"))
  /\ at = "spawner" => state = new_joinable /\ ~ bound /\ cell = NoWaker
  /\ at \in {"queue", "waker"} => has(state, "NOTIFIED") /\ is_active(state)
  /\ at = "idle" => ~ has(state, "RUNNING") /\ ~ has(state, "NOTIFIED") /\ is_active(state)
  /\ at \in {"queue", "waker"} /\ has(state, "RUNNING") => phase = "waiting"
  /\ owner \in {"polling", "complete"} =>
       is_active(state) /\ has(state, "RUNNING") /\ phase = "open" /\ bound
  /\ owner = "notify" => has(state, "COMPLETE")
  /\ owner \in {"cancel", "wake"} \/ at = "pending" => has(state, "CANCELLED")
  /\ owner \in {"read_waker", "release"} \/ at = "gone" => ~ is_active(state)
  /\ at \in {"idle", "waker", "pending"} => bound
  /\ owned <=> /\ bound
               /\ at \in {"queue", "waker", "idle", "pending"} \/ owner \in {"polling", "cancel", "wake"}
  /\ phase \in {"list", "waiting", "dropped"} => bound \/ at \in {"spawner", "gone"}
  /\ phase = "dropped" => at \in {"spawner", "gone"}

Held == {w \in Wakers : wakers[w] # "none"}
CountInv == refs = Cardinality(Held)

\* One waker at most has won transition_to_notified; the cell is freed by the last reference.
RefsInv ==
  /\ \A w \in Wakers : wakers[w] # "none" => bound
  /\ at = "waker" <=> \E w \in Wakers : wakers[w] \in {"submit", "submit_val"}
  /\ \A v, w \in Wakers :
       wakers[v] \in {"submit", "submit_val"} /\ wakers[w] \in {"submit", "submit_val"} => v = w
  /\ freed <=> is_final_ref(state, refs)

\* The owning thread, not the one with the JoinHandle, answers for the waker in the cell.
Duty ==
  \/ owner = "notify" /\ has(res, "JOIN_WAKER")
  \/ owner \in {"cancel", "wake"} /\ {"JOIN_INTEREST", "JOIN_WAKER"} \subseteq res
  \/ at = "pending" /\ might_drop
  \/ owner \in {"read_waker", "release"} /\ will_drop

\* A clone that is alive is the one in the cell; while the task is active the flag
\* JOIN_WAKER says whether the cell is full, afterwards who answers for it.
CellInv ==
  /\ \A c \in Ctxs : live[c] \in {0, 1} /\ (live[c] = 1 => cell = c)
  /\ join # "gone" => cell = NoWaker \/ live[cell] = 1
  /\ join = "gone" /\ ~ Duty => \A c \in Ctxs : live[c] = 0
  /\ Duty => /\ cell # NoWaker /\ live[cell] = 1 /\ has(state, "JOIN_WAKER")
             /\ join \notin {"store", "set", "clear"}
  /\ is_active(state) =>
       /\ join \notin {"clear", "read", "consume", "finish"}
       /\ join \in {"held", "unset", "slow"} => (has(state, "JOIN_WAKER") <=> cell # NoWaker)
       /\ join \notin {"held", "unset", "slow"} => ~ has(state, "JOIN_WAKER")
  /\ join = "unset" => has(state, "JOIN_WAKER")
  /\ join \in {"store", "set"} => ~ has(state, "JOIN_WAKER")
  /\ ~ is_active(state) /\ at # "gone" /\ ~ Duty =>
       /\ join # "unset"
       /\ join \notin {"store", "set", "clear", "gone"} => cell = NoWaker
  /\ join \in {"unset", "store", "set"} => poll_ctx # NoWaker
  /\ join \in {"set", "clear"} => cell # NoWaker
  /\ owner = "release" /\ will_drop => copy = cell

\* What the two threads remember of the word.
SnapInv ==
  /\ owner = "notify" =>
       has(res, "JOIN_INTEREST") \/ (join = "gone" /\ ~ has(res, "JOIN_WAKER"))
  /\ owner = "notify" => ~ has(res, "CANCELLED")
  /\ owner \in {"cancel", "wake"} => ~ has(res, "COMPLETE") /\ ~ has(res, "RELEASED")
  /\ owner \in {"polling", "complete"} => join_interest \/ join = "gone"
  /\ might_drop => /\ has(state, "CANCELLED")
                   /\ at \in {"pending", "gone"} \/ owner \in {"read_waker", "release"}
  /\ join \in {"clear", "read", "consume"} =>
       \A f \in {"COMPLETE", "CANCELLED"} : has(jres, f) <=> has(state, f)

\* The future is there until it is polled to its end or cancelled, its output until read.
StageInv ==
  /\ at \in {"spawner", "queue", "waker", "idle"} \/ owner \in {"polling", "cancel"}
       => stage = "Running"
  /\ outcome # "none" <=> owner = "complete" \/ has(state, "COMPLETE")
  /\ owner = "complete" /\ join_interest => stage = outcome
  /\ has(state, "COMPLETE") /\ join \notin {"finish", "gone"} => stage = outcome
  /\ result # "none" => ~ is_active(state)
  /\ ResultFaithful

FiberInv == TypeOK /\ PlaceInv /\ CountInv /\ RefsInv /\ CellInv /\ SnapInv /\ StageInv

BoolOK ==
  /\ might_drop \in BOOLEAN /\ bound \in BOOLEAN /\ owned \in BOOLEAN
  /\ freed \in BOOLEAN /\ woken \in BOOLEAN
  /\ join_interest \in BOOLEAN /\ will_drop \in BOOLEAN

LEMMA FiberInitInv ==
  ASSUME Init PROVE FiberInv
<1> USE WakersAssumption, NoWakerAssumption
<1>1. TypeOK
  <2>1. BoolOK
    BY Zenon DEF Init, BoolOK
  <2> QED BY <2>1 DEF Init, TypeOK, BoolOK, new_joinable, Flags, Places, Phases, OwnerSteps,
       JoinSteps, WakerSteps
<1>2. PlaceInv
  BY Zenon DEF Init, PlaceInv, has, is_active, new_joinable
<1>3. CountInv
  <2>1. Held = {}
    BY Zenon DEF Init, Held
  <2> QED BY <2>1, FS_EmptySet, Zenon DEF Init, CountInv
<1>4. RefsInv
  BY Zenon DEF Init, RefsInv, is_final_ref, new_joinable
<1>5. CellInv
  BY DEF Init, CellInv, Duty, has, is_active, new_joinable
<1>6. SnapInv /\ StageInv
  BY Zenon DEF Init, SnapInv, StageInv, ResultFaithful, has, is_active, new_joinable
<1> QED BY <1>1, <1>2, <1>3, <1>4, <1>5, <1>6, Zenon DEF FiberInv

LEMMA CountPositive ==
  ASSUME CountInv, NEW w \in Wakers, wakers[w] # "none" PROVE refs \in Nat /\ refs - 1 \in Nat
<1>1. IsFiniteSet(Held) /\ Held # {}
  BY WakersAssumption, FS_Subset, Zenon DEF Held
<1>2. Cardinality(Held) \in Nat /\ Cardinality(Held) # 0
  BY <1>1, FS_CardinalityType, FS_EmptySet, Zenon
<1> QED BY <1>2 DEF CountInv

LEMMA CountKept ==
  ASSUME CountInv, UNCHANGED <<refs, wakers>> PROVE CountInv'
BY Zenon DEF CountInv, Held

LEMMA KeepSpawn ==
  ASSUME FiberInv, Spawn PROVE FiberInv'
<1> USE NoWakerAssumption DEF FiberInv, has, is_active, word, ownerVars, joinVars, sched
<1>1. TypeOK'
  BY DEF Spawn, TypeOK, Places, JoinSteps
<1>2. PlaceInv'
  BY Zenon DEF Spawn, PlaceInv, new_joinable
<1>3. CountInv'
  BY CountKept, Zenon DEF Spawn
<1>4. RefsInv'
  BY Zenon DEF Spawn, RefsInv
<1>5. CellInv'
  BY Zenon DEF Spawn, PlaceInv, CellInv, Duty
<1>6. SnapInv'
  BY Zenon DEF Spawn, PlaceInv, SnapInv
<1>7. StageInv'
  BY Zenon DEF Spawn, PlaceInv, StageInv, ResultFaithful
<1> QED BY <1>1, <1>2, <1>3, <1>4, <1>5, <1>6, <1>7, Zenon

LEMMA KeepSpawnRefused ==
  ASSUME FiberInv, SpawnRefused PROVE FiberInv'
<1> USE NoWakerAssumption DEF FiberInv, has, is_active, word, ownerVars, joinVars, sched
<1>1. TypeOK'
  BY DEF SpawnRefused, release_task, transition_to_canceled_from_queue, TypeOK, Flags,
       Places, JoinSteps
<1>2. PlaceInv'
  BY Zenon DEF SpawnRefused, release_task, transition_to_canceled_from_queue, PlaceInv,
       new_joinable
<1>3. CountInv'
  BY CountKept, Zenon DEF SpawnRefused
<1>4. RefsInv'
  BY Zenon DEF SpawnRefused, release_task, transition_to_canceled_from_queue, PlaceInv,
       RefsInv, is_final_ref
<1>5. CellInv'
  BY Zenon DEF SpawnRefused, release_task, transition_to_canceled_from_queue, PlaceInv,
       CellInv, Duty
<1>6. SnapInv'
  BY Zenon DEF SpawnRefused, PlaceInv, SnapInv
<1>7. StageInv'
  BY Zenon DEF SpawnRefused, release_task, transition_to_canceled_from_queue, PlaceInv,
       StageInv, ResultFaithful, new_joinable
<1> QED BY <1>1, <1>2, <1>3, <1>4, <1>5, <1>6, <1>7, Zenon

LEMMA KeepRun ==
  ASSUME FiberInv, Run PROVE FiberInv'
<1> USE NoWakerAssumption DEF FiberInv, has, is_active, word, ownerVars, joinVars, sched
<1>1. TypeOK'
  <2>1. TypeOK /\ BoolOK
    BY Zenon DEF TypeOK, BoolOK
  <2> HIDE DEF FiberInv
  <2>2. bound' \in BOOLEAN /\ owned' \in BOOLEAN /\ join_interest' \in BOOLEAN
    <3>1. CASE has(res', "CANCELLED")
      BY <2>1, <3>1, Zenon DEF Run, BoolOK
    <3>2. CASE ~ has(res', "CANCELLED")
      BY <2>1, <3>2 DEF Run
    <3> QED BY <3>1, <3>2, Zenon
  <2>3. /\ state' \subseteq Flags /\ res' \subseteq Flags /\ owner' \in OwnerSteps /\ at' \in Places
    BY <2>1, Zenon DEF Run, TypeOK, Flags, OwnerSteps, Places, transition_to_running, Xor
  <2>4. UNCHANGED <<refs, stage, cell, might_drop, freed, phase, will_drop, copy, joinVars, woken, outcome, wakers, live>>
    BY Zenon DEF Run
  <2> QED BY <2>1, <2>2, <2>3, <2>4 DEF TypeOK
<1>2. PlaceInv'
  BY Zenon DEF Run, transition_to_running, Xor, PlaceInv
<1>3. CountInv'
  BY CountKept, Zenon DEF Run
<1>4. RefsInv'
  BY Zenon DEF Run, transition_to_running, Xor, RefsInv, is_final_ref
<1>5. CellInv'
  BY Zenon DEF Run, transition_to_running, Xor, PlaceInv, CellInv, Duty
<1>6. SnapInv'
  BY Zenon DEF Run, transition_to_running, Xor, PlaceInv, SnapInv
<1>7. StageInv'
  BY Zenon DEF Run, transition_to_running, Xor, StageInv, ResultFaithful
<1> QED BY <1>1, <1>2, <1>3, <1>4, <1>5, <1>6, <1>7, Zenon

LEMMA KeepWakeByLocalRef ==
  ASSUME FiberInv, WakeByLocalRef PROVE FiberInv'
<1> USE NoWakerAssumption DEF FiberInv, has, is_active, word, ownerVars, joinVars, sched
<1>1. TypeOK'
  BY DEF WakeByLocalRef, transition_to_notified, TypeOK, Flags, Places
<1>2. PlaceInv'
  BY Zenon DEF WakeByLocalRef, transition_to_notified, must_schedule, PlaceInv
<1>3. CountInv'
  BY CountKept, Zenon DEF WakeByLocalRef
<1>4. RefsInv'
  BY Zenon DEF WakeByLocalRef, transition_to_notified, PlaceInv, RefsInv, is_final_ref
<1>5. CellInv'
  BY Zenon DEF WakeByLocalRef, transition_to_notified, must_schedule, CellInv, Duty
<1>6. SnapInv'
  BY Zenon DEF WakeByLocalRef, transition_to_notified, must_schedule, SnapInv
<1>7. StageInv'
  BY Zenon DEF WakeByLocalRef, transition_to_notified, StageInv, ResultFaithful
<1> QED BY <1>1, <1>2, <1>3, <1>4, <1>5, <1>6, <1>7, Zenon

LEMMA KeepPollPending ==
  ASSUME FiberInv, PollPending PROVE FiberInv'
<1> USE NoWakerAssumption DEF FiberInv, has, is_active, word, ownerVars, joinVars, sched
<1>1. TypeOK'
  BY DEF PollPending, transition_to_idle, Xor, TypeOK, Flags, Places, OwnerSteps
<1>2. PlaceInv'
  BY Zenon DEF PollPending, transition_to_idle, Xor, PlaceInv
<1>3. CountInv'
  BY CountKept, Zenon DEF PollPending
<1>4. RefsInv'
  BY Zenon DEF PollPending, transition_to_idle, Xor, PlaceInv, RefsInv, is_final_ref
<1>5. CellInv'
  BY Zenon DEF PollPending, transition_to_idle, Xor, PlaceInv, CellInv, Duty
<1>6. SnapInv'
  BY Zenon DEF PollPending, transition_to_idle, Xor, PlaceInv, SnapInv
<1>7. StageInv'
  BY Zenon DEF PollPending, transition_to_idle, Xor, StageInv, ResultFaithful
<1> QED BY <1>1, <1>2, <1>3, <1>4, <1>5, <1>6, <1>7, Zenon

LEMMA KeepPollReady ==
  ASSUME FiberInv, NEW o \in Outcomes, PollReady(o) PROVE FiberInv'
<1> USE NoWakerAssumption DEF FiberInv, has, is_active, word, ownerVars, joinVars, sched
<1>1. TypeOK'
  <2>1. TypeOK /\ BoolOK
    BY Zenon DEF TypeOK, BoolOK
  <2> HIDE DEF FiberInv
  <2>2. BoolOK'
    BY <2>1, Zenon DEF PollReady, BoolOK
  <2> QED BY <2>1, <2>2, Zenon DEF PollReady, BoolOK, TypeOK, OwnerSteps
<1>2. PlaceInv'
  BY Zenon DEF PollReady, PlaceInv
<1>3. CountInv'
  BY CountKept, Zenon DEF PollReady
<1>4. RefsInv'
  BY Zenon DEF PollReady, RefsInv
<1>5. CellInv'
  BY DEF PollReady, CellInv, Duty
<1>6. SnapInv'
  BY Zenon DEF PollReady, SnapInv
<1>7. StageInv'
  BY Zenon DEF Outcomes, PollReady, PlaceInv, StageInv, ResultFaithful
<1> QED BY <1>1, <1>2, <1>3, <1>4, <1>5, <1>6, <1>7, Zenon

LEMMA KeepTransitionToComplete ==
  ASSUME FiberInv, TransitionToComplete PROVE FiberInv'
<1> USE NoWakerAssumption DEF FiberInv, has, is_active, word, ownerVars, joinVars, sched
<1>1. TypeOK'
  BY DEF TransitionToComplete, transition_to_complete, Xor, TypeOK, Flags, OwnerSteps
<1>2. PlaceInv'
  BY Zenon DEF TransitionToComplete, transition_to_complete, Xor, PlaceInv
<1>3. CountInv'
  BY CountKept, Zenon DEF TransitionToComplete
<1>4. RefsInv'
  BY Zenon DEF TransitionToComplete, transition_to_complete, Xor, RefsInv, is_final_ref
<1>5. CellInv'
  <2>1. /\ at = "owner" /\ at' = "owner" /\ owner' = "notify" /\ is_active(state)
        /\ \A f \in {"JOIN_WAKER", "JOIN_INTEREST"} : has(state', f) <=> has(state, f)
        /\ res' = state' /\ ~ is_active(state') /\ ~ Duty
        /\ UNCHANGED <<cell, live, join, poll_ctx, will_drop, copy>>
    BY Zenon DEF TransitionToComplete, transition_to_complete, Xor, PlaceInv, Duty
  <2>2. Duty' <=> has(state, "JOIN_WAKER")
    BY <2>1, Zenon DEF Duty
  <2> QED BY <2>1, <2>2, Zenon DEF TypeOK, PlaceInv, CellInv, JoinSteps
<1>6. SnapInv'
  BY Zenon DEF CellInv, TransitionToComplete, transition_to_complete, Xor, PlaceInv, SnapInv
<1>7. StageInv'
  BY Zenon DEF TransitionToComplete, transition_to_complete, Xor, PlaceInv, StageInv,
       ResultFaithful
<1> QED BY <1>1, <1>2, <1>3, <1>4, <1>5, <1>6, <1>7, Zenon

LEMMA KeepTransitionToReleased ==
  ASSUME FiberInv, TransitionToReleased PROVE FiberInv'
<1> USE NoWakerAssumption DEF FiberInv, has, is_active, word, ownerVars, joinVars, sched
<1>1. TypeOK'
  BY DEF TransitionToReleased, transition_to_released, Xor, TypeOK, Flags, Places, OwnerSteps
<1>2. PlaceInv'
  BY Zenon DEF TransitionToReleased, transition_to_released, Xor, PlaceInv
<1>3. CountInv'
  BY CountKept, Zenon DEF TransitionToReleased
<1>4. RefsInv'
  BY Zenon DEF TransitionToReleased, PlaceInv, RefsInv, is_final_ref
<1>5. CellInv'
  BY Zenon DEF TransitionToReleased, transition_to_released, Xor, PlaceInv, CellInv, Duty
<1>6. SnapInv'
  BY Zenon DEF TransitionToReleased, transition_to_released, Xor, SnapInv
<1>7. StageInv'
  BY Zenon DEF TransitionToReleased, transition_to_released, Xor, PlaceInv, SnapInv,
       StageInv, ResultFaithful
<1> QED BY <1>1, <1>2, <1>3, <1>4, <1>5, <1>6, <1>7, Zenon

LEMMA KeepNotifyJoinHandle ==
  ASSUME FiberInv, NotifyJoinHandle PROVE FiberInv'
<1> USE NoWakerAssumption DEF FiberInv, has, is_active, word, ownerVars, joinVars, sched
<1>1. TypeOK'
  <2>1. TypeOK /\ BoolOK
    BY Zenon DEF TypeOK, BoolOK
  <2> HIDE DEF FiberInv
  <2>2. woken' \in BOOLEAN /\ will_drop' \in BOOLEAN
    <3>1. woken' = woken \/ woken' = (woken \/ cell = poll_ctx)
      BY Zenon DEF NotifyJoinHandle, WakeJoin
    <3>2. will_drop' \in BOOLEAN
      BY DEF NotifyJoinHandle
    <3> QED BY <2>1, <3>1, <3>2, Zenon DEF BoolOK
  <2>3. stage' \in {stage, "Consumed"} /\ owner' \in OwnerSteps
    BY <2>1, Zenon DEF NotifyJoinHandle, OwnerSteps
  <2>4. UNCHANGED <<word, cell, sched, freed, at, res, join_interest, copy, joinVars, outcome, wakers, live>>
    BY Zenon DEF NotifyJoinHandle
  <2> QED BY <2>1, <2>2, <2>3, <2>4 DEF TypeOK
<1>2. PlaceInv'
  BY Zenon DEF NotifyJoinHandle, PlaceInv
<1>3. CountInv'
  BY CountKept, Zenon DEF NotifyJoinHandle
<1>4. RefsInv'
  BY Zenon DEF NotifyJoinHandle, RefsInv
<1>5. CellInv'
  BY Zenon DEF NotifyJoinHandle, PlaceInv, CellInv, Duty
<1>6. SnapInv'
  BY Zenon DEF NotifyJoinHandle, SnapInv
<1>7. StageInv'
  BY Zenon DEF NotifyJoinHandle, PlaceInv, SnapInv, StageInv, ResultFaithful
<1> QED BY <1>1, <1>2, <1>3, <1>4, <1>5, <1>6, <1>7, Zenon

LEMMA KeepReadJoinWaker ==
  ASSUME FiberInv, ReadJoinWaker PROVE FiberInv'
<1> USE NoWakerAssumption DEF FiberInv, has, is_active, word, ownerVars, joinVars, sched
<1>1. TypeOK'
  BY DEF ReadJoinWaker, TypeOK, OwnerSteps
<1>2. PlaceInv'
  BY Zenon DEF ReadJoinWaker, PlaceInv
<1>3. CountInv'
  BY CountKept, Zenon DEF ReadJoinWaker
<1>4. RefsInv'
  BY Zenon DEF ReadJoinWaker, RefsInv
<1>5. CellInv'
  BY Zenon DEF ReadJoinWaker, PlaceInv, CellInv, Duty
<1>6. SnapInv'
  BY Zenon DEF ReadJoinWaker, SnapInv
<1>7. StageInv'
  BY Zenon DEF ReadJoinWaker, StageInv, ResultFaithful
<1> QED BY <1>1, <1>2, <1>3, <1>4, <1>5, <1>6, <1>7, Zenon

LEMMA KeepReleaseTask ==
  ASSUME FiberInv, ReleaseTask PROVE FiberInv'
<1> USE NoWakerAssumption DEF FiberInv, has, is_active, word, ownerVars, joinVars, sched
<1>1. TypeOK'
  BY DEF ReleaseTask, release_task, DropWaker, TypeOK, Flags, Places, OwnerSteps
<1>2. PlaceInv'
  BY Zenon DEF ReleaseTask, release_task, PlaceInv
<1>3. CountInv'
  BY CountKept, Zenon DEF ReleaseTask
<1>4. RefsInv'
  BY Zenon DEF ReleaseTask, PlaceInv, RefsInv, is_final_ref
<1>5. CellInv'
  BY DEF ReleaseTask, release_task, DropWaker, TypeOK, PlaceInv, CellInv, SnapInv, Duty,
       new_joinable
<1>6. SnapInv'
  BY Zenon DEF ReleaseTask, release_task, SnapInv
<1>7. StageInv'
  BY Zenon DEF ReleaseTask, release_task, StageInv, ResultFaithful
<1> QED BY <1>1, <1>2, <1>3, <1>4, <1>5, <1>6, <1>7, Zenon

LEMMA KeepBeginDrop ==
  ASSUME FiberInv, BeginDrop PROVE FiberInv'
<1> USE NoWakerAssumption DEF FiberInv, has, is_active, word, ownerVars, joinVars, sched
<1>1. TypeOK'
  BY DEF BeginDrop, TypeOK, Phases
<1>2. PlaceInv'
  BY Zenon DEF BeginDrop, PlaceInv
<1>3. CountInv'
  BY CountKept, Zenon DEF BeginDrop
<1>4. RefsInv'
  BY Zenon DEF BeginDrop, RefsInv
<1>5. CellInv'
  BY Zenon DEF BeginDrop, PlaceInv, CellInv, SnapInv, Duty
<1>6. SnapInv'
  BY Zenon DEF BeginDrop, SnapInv
<1>7. StageInv'
  BY Zenon DEF BeginDrop, StageInv, ResultFaithful
<1> QED BY <1>1, <1>2, <1>3, <1>4, <1>5, <1>6, <1>7, Zenon

LEMMA KeepCancelFromQueue ==
  ASSUME FiberInv, CancelFromQueue PROVE FiberInv'
<1> USE NoWakerAssumption DEF FiberInv, has, is_active, word, ownerVars, joinVars, sched
<1>1. TypeOK'
  BY DEF CancelFromQueue, transition_to_canceled_from_queue, TypeOK, Flags, Places,
       OwnerSteps, Outcomes
<1>2. PlaceInv'
  BY Zenon DEF CancelFromQueue, transition_to_canceled_from_queue, PlaceInv
<1>3. CountInv'
  BY CountKept, Zenon DEF CancelFromQueue
<1>4. RefsInv'
  BY Zenon DEF CancelFromQueue, transition_to_canceled_from_queue, RefsInv, is_final_ref
<1>5. CellInv'
  <2>1. /\ at = "queue" /\ at' = "owner" /\ owner = "idle" /\ owner' = "cancel" /\ is_active(state)
        /\ \A f \in {"JOIN_WAKER", "JOIN_INTEREST"} : has(state', f) <=> has(state, f)
        /\ res' = state' /\ ~ is_active(state') /\ ~ Duty
        /\ UNCHANGED <<cell, live, join, poll_ctx, will_drop, copy>>
    BY Zenon DEF CancelFromQueue, transition_to_canceled_from_queue, PlaceInv, Duty
  <2>2. has(state, "JOIN_WAKER") => has(state, "JOIN_INTEREST")
    BY <2>1, Zenon DEF PlaceInv, CellInv
  <2>3. Duty' <=> has(state, "JOIN_WAKER")
    BY <2>1, <2>2, Zenon DEF Duty
  <2> QED BY <2>1, <2>3, Zenon DEF TypeOK, PlaceInv, CellInv, JoinSteps
<1>6. SnapInv'
  BY Zenon DEF CellInv, CancelFromQueue, transition_to_canceled_from_queue, PlaceInv, SnapInv
<1>7. StageInv'
  BY Zenon DEF CancelFromQueue, transition_to_canceled_from_queue, StageInv, ResultFaithful
<1> QED BY <1>1, <1>2, <1>3, <1>4, <1>5, <1>6, <1>7, Zenon

LEMMA KeepQueuesClosed ==
  ASSUME FiberInv, QueuesClosed PROVE FiberInv'
<1> USE NoWakerAssumption DEF FiberInv, has, is_active, word, ownerVars, joinVars, sched
<1>1. TypeOK'
  BY DEF QueuesClosed, TypeOK, Phases
<1>2. PlaceInv'
  BY Zenon DEF Places, QueuesClosed, TypeOK, PlaceInv
<1>3. CountInv'
  BY CountKept, Zenon DEF QueuesClosed
<1>4. RefsInv'
  BY Zenon DEF QueuesClosed, RefsInv
<1>5. CellInv'
  BY Zenon DEF QueuesClosed, PlaceInv, CellInv, SnapInv, Duty
<1>6. SnapInv'
  BY Zenon DEF QueuesClosed, SnapInv
<1>7. StageInv'
  BY Zenon DEF QueuesClosed, StageInv, ResultFaithful
<1> QED BY <1>1, <1>2, <1>3, <1>4, <1>5, <1>6, <1>7, Zenon

LEMMA KeepShutdownOwned ==
  ASSUME FiberInv, ShutdownOwned PROVE FiberInv'
<1> USE NoWakerAssumption DEF FiberInv, has, is_active, word, ownerVars, joinVars, sched
<1>1. TypeOK'
  <2>1. TypeOK /\ BoolOK
    BY Zenon DEF TypeOK, BoolOK
  <2> HIDE DEF FiberInv
  <2>2. BoolOK'
    BY <2>1, Zenon DEF ShutdownOwned, BoolOK
  <2>3. /\ state' \subseteq Flags /\ res' \subseteq Flags /\ owner' \in OwnerSteps /\ at' \in Places
        /\ phase' \in Phases
    BY <2>1, Zenon DEF ShutdownOwned, TypeOK, Flags, OwnerSteps, Places, Phases,
         transition_to_canceled_from_list
  <2>4. UNCHANGED <<refs, stage, cell, freed, joinVars, copy, woken, outcome, wakers, live>>
    BY Zenon DEF ShutdownOwned
  <2> QED BY <2>1, <2>2, <2>3, <2>4, Zenon DEF BoolOK, TypeOK
<1>2. PlaceInv'
  BY DEF ShutdownOwned, transition_to_canceled_from_list, TypeOK, PlaceInv, RefsInv,
       CellInv, new_joinable
<1>3. CountInv'
  BY CountKept, Zenon DEF ShutdownOwned
<1>4. RefsInv'
  BY DEF ShutdownOwned, transition_to_canceled_from_list, PlaceInv, RefsInv, is_final_ref
<1>5. CellInv'
  <2>1. CASE owned /\ is_active(state) /\ has(state', "CANCELLED")
    <3>1. /\ at' = "owner" /\ owner = "idle" /\ owner' = "cancel" /\ at # "gone" /\ at # "pending"
          /\ at # "spawner"
          /\ \A f \in {"JOIN_WAKER", "JOIN_INTEREST"} : has(state', f) <=> has(state, f)
          /\ res' = state' /\ ~ is_active(state') /\ ~ Duty
          /\ UNCHANGED <<cell, live, join, poll_ctx, will_drop, copy>>
      BY <2>1, Zenon DEF ShutdownOwned, transition_to_canceled_from_list, PlaceInv, Duty
    <3>2. has(state, "JOIN_WAKER") => has(state, "JOIN_INTEREST")
      BY <2>1, Zenon DEF PlaceInv, CellInv
    <3>3. Duty' <=> has(state, "JOIN_WAKER")
      BY <3>1, <3>2, Zenon DEF Duty
    <3> QED BY <2>1, <3>1, <3>3, Zenon DEF TypeOK, PlaceInv, CellInv, JoinSteps
  <2>2. CASE ~ (owned /\ is_active(state) /\ has(state', "CANCELLED"))
    <3>1. /\ owner = "idle" /\ (is_active(state) <=> is_active(state'))
          /\ \A f \in {"JOIN_WAKER", "JOIN_INTEREST"} : has(state', f) <=> has(state, f)
          /\ UNCHANGED <<at, owner, might_drop, cell, live, join, poll_ctx, will_drop, copy>>
      BY <2>2 DEF ShutdownOwned, transition_to_canceled_from_list
    <3>2. Duty' <=> Duty
      BY <3>1, Zenon DEF Duty
    <3> QED BY <3>1, <3>2, Zenon DEF CellInv
  <2> QED BY <2>1, <2>2, Zenon
<1>6. SnapInv'
  BY DEF CellInv, ShutdownOwned, transition_to_canceled_from_list, TypeOK, PlaceInv,
       SnapInv, new_joinable
<1>7. StageInv'
  BY DEF ShutdownOwned, transition_to_canceled_from_list, TypeOK, PlaceInv, SnapInv,
       StageInv, ResultFaithful, new_joinable
<1> QED BY <1>1, <1>2, <1>3, <1>4, <1>5, <1>6, <1>7, Zenon

LEMMA KeepDoCancel ==
  ASSUME FiberInv, DoCancel PROVE FiberInv'
<1> USE NoWakerAssumption DEF FiberInv, has, is_active, word, ownerVars, joinVars, sched
<1>1. TypeOK'
  BY DEF DoCancel, TypeOK, OwnerSteps, Outcomes
<1>2. PlaceInv'
  BY Zenon DEF DoCancel, PlaceInv
<1>3. CountInv'
  BY CountKept, Zenon DEF DoCancel
<1>4. RefsInv'
  BY Zenon DEF DoCancel, RefsInv
<1>5. CellInv'
  BY Zenon DEF DoCancel, PlaceInv, CellInv, Duty
<1>6. SnapInv'
  BY Zenon DEF DoCancel, SnapInv
<1>7. StageInv'
  BY Zenon DEF DoCancel, PlaceInv, StageInv, ResultFaithful
<1> QED BY <1>1, <1>2, <1>3, <1>4, <1>5, <1>6, <1>7, Zenon

LEMMA KeepCancelWakesJoin ==
  ASSUME FiberInv, CancelWakesJoin PROVE FiberInv'
<1> USE NoWakerAssumption DEF FiberInv, has, is_active, word, ownerVars, joinVars, sched
<1>1. TypeOK'
  <2>1. TypeOK /\ BoolOK
    BY Zenon DEF TypeOK, BoolOK
  <2> HIDE DEF FiberInv
  <2>2. BoolOK'
    BY <2>1, Zenon DEF CancelWakesJoin, WakeJoin, BoolOK
  <2> QED BY <2>1, <2>2 DEF CancelWakesJoin, BoolOK, TypeOK, Places, OwnerSteps
<1>2. PlaceInv'
  BY Zenon DEF CancelWakesJoin, PlaceInv
<1>3. CountInv'
  BY CountKept, Zenon DEF CancelWakesJoin
<1>4. RefsInv'
  BY Zenon DEF CancelWakesJoin, PlaceInv, RefsInv
<1>5. CellInv'
  BY Zenon DEF CancelWakesJoin, PlaceInv, CellInv, SnapInv, Duty, new_joinable
<1>6. SnapInv'
  BY Zenon DEF CancelWakesJoin, PlaceInv, SnapInv
<1>7. StageInv'
  BY Zenon DEF CancelWakesJoin, StageInv, ResultFaithful
<1> QED BY <1>1, <1>2, <1>3, <1>4, <1>5, <1>6, <1>7, Zenon

LEMMA KeepDrainPendingDrop ==
  ASSUME FiberInv, DrainPendingDrop PROVE FiberInv'
<1> USE NoWakerAssumption DEF FiberInv, has, is_active, word, ownerVars, joinVars, sched
<1>1. TypeOK'
  <2>1. TypeOK /\ BoolOK
    BY Zenon DEF TypeOK, BoolOK
  <2> HIDE DEF FiberInv
  <2>2. BoolOK'
    BY <2>1, Zenon DEF DrainPendingDrop, BoolOK
  <2> QED BY <2>1, <2>2, Zenon DEF DrainPendingDrop, BoolOK, TypeOK, Places, OwnerSteps
<1>2. PlaceInv'
  BY Zenon DEF DrainPendingDrop, PlaceInv
<1>3. CountInv'
  BY CountKept, Zenon DEF DrainPendingDrop
<1>4. RefsInv'
  BY Zenon DEF DrainPendingDrop, RefsInv
<1>5. CellInv'
  BY Zenon DEF DrainPendingDrop, CellInv, Duty
<1>6. SnapInv'
  BY Zenon DEF DrainPendingDrop, SnapInv
<1>7. StageInv'
  BY Zenon DEF DrainPendingDrop, StageInv, ResultFaithful
<1> QED BY <1>1, <1>2, <1>3, <1>4, <1>5, <1>6, <1>7, Zenon

LEMMA KeepDropReturns ==
  ASSUME FiberInv, DropReturns PROVE FiberInv'
<1> USE NoWakerAssumption DEF FiberInv, has, is_active, word, ownerVars, joinVars, sched
<1>1. TypeOK'
  BY DEF DropReturns, TypeOK, Phases
<1>2. PlaceInv'
  BY Zenon DEF Places, DropReturns, TypeOK, PlaceInv
<1>3. CountInv'
  BY CountKept, Zenon DEF DropReturns
<1>4. RefsInv'
  BY Zenon DEF DropReturns, RefsInv
<1>5. CellInv'
  BY DEF DropReturns, TypeOK, CellInv, SnapInv, Duty, new_joinable
<1>6. SnapInv'
  BY Zenon DEF DropReturns, SnapInv
<1>7. StageInv'
  BY Zenon DEF DropReturns, StageInv, ResultFaithful
<1> QED BY <1>1, <1>2, <1>3, <1>4, <1>5, <1>6, <1>7, Zenon

LEMMA KeepCloneWaker ==
  ASSUME FiberInv, NEW w \in Wakers, CloneWaker(w) PROVE FiberInv'
<1> USE NoWakerAssumption DEF FiberInv, has, is_active, word, ownerVars, joinVars, sched
<1>1. TypeOK'
  BY DEF CloneWaker, TypeOK, WakerSteps
<1>2. PlaceInv'
  BY Zenon DEF CloneWaker, PlaceInv
<1>3. CountInv'
  <2>1. Held' = Held \cup {w} /\ w \notin Held /\ refs' = refs + 1
    BY Zenon DEF CloneWaker, Held, TypeOK
  <2>2. IsFiniteSet(Held)
    BY WakersAssumption, FS_Subset, Zenon DEF Held
  <2> QED BY <2>1, <2>2, FS_AddElement, Zenon DEF CountInv
<1>4. RefsInv'
  BY CountPositive DEF CloneWaker, PlaceInv, RefsInv, is_final_ref, new_joinable
<1>5. CellInv'
  BY DEF CloneWaker, TypeOK, PlaceInv, CellInv, SnapInv, Duty, new_joinable
<1>6. SnapInv'
  BY Zenon DEF CloneWaker, SnapInv
<1>7. StageInv'
  BY Zenon DEF CloneWaker, StageInv, ResultFaithful
<1> QED BY <1>1, <1>2, <1>3, <1>4, <1>5, <1>6, <1>7, Zenon

LEMMA KeepWakeByRef ==
  ASSUME FiberInv, NEW w \in Wakers, WakeByRef(w) PROVE FiberInv'
<1> USE NoWakerAssumption DEF FiberInv, has, is_active, word, ownerVars, joinVars, sched
<1>1. TypeOK'
  BY DEF WakeByRef, Wake, transition_to_notified, TypeOK, Flags, Places, WakerSteps
<1>2. PlaceInv'
  BY DEF Places, OwnerSteps, WakeByRef, Wake, transition_to_notified, must_schedule, TypeOK,
       PlaceInv, RefsInv, CellInv, new_joinable
<1>3. CountInv'
  <2>1. Held' = Held /\ refs' = refs
    BY DEF WakeByRef, Wake, Held
  <2> QED BY <2>1, Zenon DEF CountInv
<1>4. RefsInv'
  BY DEF WakeByRef, Wake, transition_to_notified, must_schedule, TypeOK, PlaceInv, RefsInv,
       is_final_ref, new_joinable
<1>5. CellInv'
  BY DEF WakeByRef, Wake, transition_to_notified, must_schedule, TypeOK, PlaceInv, CellInv,
       SnapInv, Duty, new_joinable
<1>6. SnapInv'
  BY Zenon DEF Places, WakeByRef, Wake, transition_to_notified, must_schedule, SnapInv
<1>7. StageInv'
  BY Zenon DEF Places, OwnerSteps, WakeByRef, Wake, transition_to_notified, must_schedule,
       TypeOK, PlaceInv, StageInv, ResultFaithful
<1> QED BY <1>1, <1>2, <1>3, <1>4, <1>5, <1>6, <1>7, Zenon

LEMMA KeepWakeByVal ==
  ASSUME FiberInv, NEW w \in Wakers, WakeByVal(w) PROVE FiberInv'
<1> USE NoWakerAssumption DEF FiberInv, has, is_active, word, ownerVars, joinVars, sched
<1>1. TypeOK'
  BY DEF WakeByVal, Wake, transition_to_notified, TypeOK, Flags, Places, WakerSteps
<1>2. PlaceInv'
  BY DEF Places, OwnerSteps, WakeByVal, Wake, transition_to_notified, must_schedule, TypeOK,
       PlaceInv, RefsInv, CellInv, new_joinable
<1>3. CountInv'
  <2>1. Held' = Held /\ refs' = refs
    BY DEF WakeByVal, Wake, Held
  <2> QED BY <2>1, Zenon DEF CountInv
<1>4. RefsInv'
  BY Zenon DEF WakeByVal, Wake, transition_to_notified, must_schedule, TypeOK, PlaceInv,
       RefsInv, is_final_ref
<1>5. CellInv'
  BY DEF WakeByVal, Wake, transition_to_notified, must_schedule, TypeOK, PlaceInv, CellInv,
       SnapInv, Duty, new_joinable
<1>6. SnapInv'
  BY Zenon DEF WakeByVal, Wake, transition_to_notified, must_schedule, SnapInv
<1>7. StageInv'
  BY Zenon DEF Places, OwnerSteps, WakeByVal, Wake, transition_to_notified, must_schedule,
       TypeOK, PlaceInv, StageInv, ResultFaithful
<1> QED BY <1>1, <1>2, <1>3, <1>4, <1>5, <1>6, <1>7, Zenon

LEMMA KeepSubmit ==
  ASSUME FiberInv, NEW w \in Wakers, Submit(w) PROVE FiberInv'
<1> USE NoWakerAssumption DEF FiberInv, has, is_active, word, ownerVars, joinVars, sched
<1>1. TypeOK'
  BY DEF Submit, TypeOK, Places, WakerSteps
<1>2. PlaceInv'
  BY Zenon DEF Submit, PlaceInv, RefsInv
<1>3. CountInv'
  <2>1. Held' = Held /\ refs' = refs
    BY DEF Submit, Held
  <2> QED BY <2>1, Zenon DEF CountInv
<1>4. RefsInv'
  BY Zenon DEF Submit, TypeOK, RefsInv
<1>5. CellInv'
  BY DEF RefsInv, Submit, CellInv, Duty
<1>6. SnapInv'
  BY Zenon DEF RefsInv, Submit, SnapInv
<1>7. StageInv'
  BY Zenon DEF RefsInv, Submit, StageInv, ResultFaithful
<1> QED BY <1>1, <1>2, <1>3, <1>4, <1>5, <1>6, <1>7, Zenon

LEMMA KeepDropTaskWaker ==
  ASSUME FiberInv, NEW w \in Wakers, DropTaskWaker(w) PROVE FiberInv'
<1> USE NoWakerAssumption DEF FiberInv, has, is_active, word, ownerVars, joinVars, sched
<1>1. TypeOK'
  <2>1. BoolOK'
    BY Zenon DEF DropTaskWaker, TypeOK, BoolOK
  <2>2. refs - 1 \in Nat
    BY CountPositive, Zenon DEF DropTaskWaker
  <2> QED BY <2>1, <2>2 DEF DropTaskWaker, TypeOK, WakerSteps
<1>2. PlaceInv'
  BY Zenon DEF DropTaskWaker, PlaceInv
<1>3. CountInv'
  <2>1. Held' = Held \ {w} /\ w \in Held /\ refs' = refs - 1
    BY Zenon DEF DropTaskWaker, Held, TypeOK
  <2>2. IsFiniteSet(Held)
    BY WakersAssumption, FS_Subset, Zenon DEF Held
  <2> QED BY <2>1, <2>2, FS_RemoveElement, Zenon DEF CountInv
<1>4. RefsInv'
  BY CountPositive DEF DropTaskWaker, TypeOK, RefsInv, is_final_ref, new_joinable
<1>5. CellInv'
  BY DEF DropTaskWaker, TypeOK, PlaceInv, CellInv, SnapInv, Duty, new_joinable
<1>6. SnapInv'
  BY Zenon DEF DropTaskWaker, SnapInv
<1>7. StageInv'
  BY Zenon DEF DropTaskWaker, StageInv, ResultFaithful
<1> QED BY <1>1, <1>2, <1>3, <1>4, <1>5, <1>6, <1>7, Zenon

LEMMA KeepJoinPoll ==
  ASSUME FiberInv, NEW c \in Ctxs, JoinPoll(c) PROVE FiberInv'
<1> USE NoWakerAssumption DEF FiberInv, has, is_active, word, ownerVars, joinVars, sched
<1>1. TypeOK'
  <2>1. TypeOK /\ BoolOK
    BY Zenon DEF TypeOK, BoolOK
  <2> HIDE DEF FiberInv
  <2>2. woken' \in BOOLEAN
    BY <2>1, Zenon DEF JoinPoll
  <2>3. join' \in JoinSteps /\ jres' \subseteq Flags /\ poll_ctx' \in Ctxs
    BY <2>1, Zenon DEF JoinPoll, TypeOK, JoinSteps
  <2>4. UNCHANGED <<state, refs, stage, cell, bound, owned, phase, might_drop, freed, at, ownerVars, result, outcome, wakers, live>>
    BY Zenon DEF JoinPoll
  <2> QED BY <2>1, <2>2, <2>3, <2>4 DEF TypeOK
<1>2. PlaceInv'
  BY Zenon DEF JoinPoll, PlaceInv, new_joinable
<1>3. CountInv'
  BY CountKept, Zenon DEF JoinPoll
<1>4. RefsInv'
  BY Zenon DEF JoinPoll, RefsInv
<1>5. CellInv'
  BY Zenon DEF JoinPoll, CellInv, Duty, new_joinable
<1>6. SnapInv'
  BY Zenon DEF JoinPoll, SnapInv
<1>7. StageInv'
  BY Zenon DEF JoinPoll, StageInv, ResultFaithful
<1> QED BY <1>1, <1>2, <1>3, <1>4, <1>5, <1>6, <1>7, Zenon

LEMMA KeepUnsetWaker ==
  ASSUME FiberInv, UnsetWaker PROVE FiberInv'
<1> USE NoWakerAssumption DEF FiberInv, has, is_active, word, ownerVars, joinVars, sched
<1>1. TypeOK'
  BY DEF UnsetWaker, unset_waker, TypeOK, JoinSteps
<1>2. PlaceInv'
  BY Zenon DEF UnsetWaker, unset_waker, PlaceInv
<1>3. CountInv'
  BY CountKept, Zenon DEF UnsetWaker
<1>4. RefsInv'
  BY Zenon DEF UnsetWaker, unset_waker, RefsInv, is_final_ref
<1>5. CellInv'
  BY Zenon DEF UnsetWaker, unset_waker, PlaceInv, CellInv, Duty
<1>6. SnapInv'
  BY Zenon DEF UnsetWaker, unset_waker, SnapInv
<1>7. StageInv'
  BY Zenon DEF UnsetWaker, unset_waker, StageInv, ResultFaithful
<1> QED BY <1>1, <1>2, <1>3, <1>4, <1>5, <1>6, <1>7, Zenon

LEMMA KeepStoreCell ==
  ASSUME FiberInv, StoreCell PROVE FiberInv'
<1> USE NoWakerAssumption DEF FiberInv, has, is_active, word, ownerVars, joinVars, sched
<1>1. TypeOK'
  BY DEF StoreCell, TypeOK, JoinSteps
<1>2. PlaceInv'
  BY Zenon DEF StoreCell, PlaceInv
<1>3. CountInv'
  BY CountKept, Zenon DEF StoreCell
<1>4. RefsInv'
  BY Zenon DEF StoreCell, RefsInv
<1>5. CellInv'
  <2>1. /\ poll_ctx \in Ctxs /\ cell' = poll_ctx /\ ~ Duty /\ ~ Duty' /\ join' = "set"
        /\ ~ (owner' = "release" /\ will_drop') /\ UNCHANGED <<state, at, poll_ctx>>
    BY Zenon DEF StoreCell, TypeOK, CellInv, Duty
  <2>2. \A c \in Ctxs : live'[c] = IF c = poll_ctx THEN 1 ELSE 0
    BY <2>1 DEF StoreCell, CellInv
  <2> QED BY <2>1, <2>2, Zenon DEF StoreCell, CellInv
<1>6. SnapInv'
  BY Zenon DEF StoreCell, SnapInv
<1>7. StageInv'
  BY Zenon DEF StoreCell, StageInv, ResultFaithful
<1> QED BY <1>1, <1>2, <1>3, <1>4, <1>5, <1>6, <1>7, Zenon

LEMMA KeepSetJoinWaker ==
  ASSUME FiberInv, SetJoinWaker PROVE FiberInv'
<1> USE NoWakerAssumption DEF FiberInv, has, is_active, word, ownerVars, joinVars, sched
<1>1. TypeOK'
  BY DEF SetJoinWaker, store_join_waker, Xor, TypeOK, Flags, JoinSteps
<1>2. PlaceInv'
  BY Zenon DEF SetJoinWaker, store_join_waker, Xor, PlaceInv
<1>3. CountInv'
  BY CountKept, Zenon DEF SetJoinWaker
<1>4. RefsInv'
  BY Zenon DEF SetJoinWaker, store_join_waker, Xor, RefsInv, is_final_ref
<1>5. CellInv'
  BY Zenon DEF SetJoinWaker, store_join_waker, Xor, CellInv, Duty
<1>6. SnapInv'
  BY Zenon DEF SetJoinWaker, store_join_waker, Xor, SnapInv
<1>7. StageInv'
  BY Zenon DEF SetJoinWaker, store_join_waker, Xor, StageInv, ResultFaithful
<1> QED BY <1>1, <1>2, <1>3, <1>4, <1>5, <1>6, <1>7, Zenon

LEMMA KeepClearCell ==
  ASSUME FiberInv, ClearCell PROVE FiberInv'
<1> USE NoWakerAssumption DEF FiberInv, has, is_active, word, ownerVars, joinVars, sched
<1>1. TypeOK'
  BY DEF ClearCell, DropWaker, TypeOK, JoinSteps
<1>2. PlaceInv'
  BY Zenon DEF ClearCell, PlaceInv
<1>3. CountInv'
  BY CountKept, Zenon DEF ClearCell
<1>4. RefsInv'
  BY Zenon DEF ClearCell, RefsInv
<1>5. CellInv'
  BY DEF ClearCell, DropWaker, TypeOK, CellInv, Duty, new_joinable
<1>6. SnapInv'
  BY Zenon DEF ClearCell, SnapInv
<1>7. StageInv'
  BY Zenon DEF ClearCell, StageInv, ResultFaithful
<1> QED BY <1>1, <1>2, <1>3, <1>4, <1>5, <1>6, <1>7, Zenon

LEMMA KeepReadOutput ==
  ASSUME FiberInv, ReadOutput PROVE FiberInv'
<1> USE NoWakerAssumption DEF FiberInv, has, is_active, word, ownerVars, joinVars, sched
<1>1. TypeOK'
  <2>1. result' \in {"cancelled"} \cup Outcomes
    BY Zenon DEF ReadOutput, TypeOK, CellInv, SnapInv, StageInv
  <2> QED BY <2>1 DEF ReadOutput, TypeOK, JoinSteps
<1>2. PlaceInv'
  BY Zenon DEF ReadOutput, PlaceInv
<1>3. CountInv'
  BY CountKept, Zenon DEF ReadOutput
<1>4. RefsInv'
  BY Zenon DEF ReadOutput, RefsInv
<1>5. CellInv'
  BY Zenon DEF ReadOutput, CellInv, Duty
<1>6. SnapInv'
  BY Zenon DEF ReadOutput, SnapInv
<1>7. StageInv'
  BY Zenon DEF CellInv, ReadOutput, PlaceInv, SnapInv, StageInv, ResultFaithful
<1> QED BY <1>1, <1>2, <1>3, <1>4, <1>5, <1>6, <1>7, Zenon

LEMMA KeepCompleteJoinHandle ==
  ASSUME FiberInv, CompleteJoinHandle PROVE FiberInv'
<1> USE NoWakerAssumption DEF FiberInv, has, is_active, word, ownerVars, joinVars, sched
<1>1. TypeOK'
  BY DEF CompleteJoinHandle, complete_join_handle, DropWaker, TypeOK, JoinSteps
<1>2. PlaceInv'
  BY Zenon DEF CompleteJoinHandle, complete_join_handle, PlaceInv
<1>3. CountInv'
  BY CountKept, Zenon DEF CompleteJoinHandle
<1>4. RefsInv'
  BY Zenon DEF CompleteJoinHandle, complete_join_handle, RefsInv, is_final_ref
<1>5. CellInv'
  BY DEF CompleteJoinHandle, complete_join_handle, DropWaker, TypeOK, PlaceInv, CellInv,
       SnapInv, Duty, new_joinable
<1>6. SnapInv'
  BY Zenon DEF CompleteJoinHandle, complete_join_handle, SnapInv
<1>7. StageInv'
  BY Zenon DEF CompleteJoinHandle, complete_join_handle, StageInv, ResultFaithful
<1> QED BY <1>1, <1>2, <1>3, <1>4, <1>5, <1>6, <1>7, Zenon

LEMMA KeepJoinDropFast ==
  ASSUME FiberInv, JoinDropFast PROVE FiberInv'
<1> USE NoWakerAssumption DEF FiberInv, has, is_active, word, ownerVars, joinVars, sched
<1>1. TypeOK'
  BY DEF JoinDropFast, TypeOK, JoinSteps
<1>2. PlaceInv'
  BY Zenon DEF JoinDropFast, PlaceInv
<1>3. CountInv'
  BY CountKept, Zenon DEF JoinDropFast
<1>4. RefsInv'
  BY Zenon DEF JoinDropFast, RefsInv, is_final_ref, new_joinable
<1>5. CellInv'
  BY Zenon DEF JoinDropFast, CellInv, Duty, new_joinable
<1>6. SnapInv'
  BY Zenon DEF JoinDropFast, SnapInv
<1>7. StageInv'
  BY Zenon DEF JoinDropFast, StageInv, ResultFaithful
<1> QED BY <1>1, <1>2, <1>3, <1>4, <1>5, <1>6, <1>7, Zenon

LEMMA KeepJoinDropSlow ==
  ASSUME FiberInv, JoinDropSlow PROVE FiberInv'
<1> USE NoWakerAssumption DEF FiberInv, has, is_active, word, ownerVars, joinVars, sched
<1>1. TypeOK'
  BY DEF JoinDropSlow, TypeOK, JoinSteps
<1>2. PlaceInv'
  BY Zenon DEF JoinDropSlow, PlaceInv
<1>3. CountInv'
  BY CountKept, Zenon DEF JoinDropSlow
<1>4. RefsInv'
  BY Zenon DEF JoinDropSlow, RefsInv
<1>5. CellInv'
  BY Zenon DEF JoinDropSlow, CellInv, Duty
<1>6. SnapInv'
  BY Zenon DEF JoinDropSlow, SnapInv
<1>7. StageInv'
  BY Zenon DEF JoinDropSlow, StageInv, ResultFaithful
<1> QED BY <1>1, <1>2, <1>3, <1>4, <1>5, <1>6, <1>7, Zenon

LEMMA KeepDropJoinHandleSlow ==
  ASSUME FiberInv, DropJoinHandleSlow PROVE FiberInv'
<1> USE NoWakerAssumption DEF FiberInv, has, is_active, word, ownerVars, joinVars, sched
<1>1. TypeOK'
  <2>1. TypeOK /\ BoolOK
    BY Zenon DEF TypeOK, BoolOK
  <2> HIDE DEF FiberInv
  <2>2. freed' \in BOOLEAN
    BY <2>1, Zenon DEF DropJoinHandleSlow, BoolOK
  <2>3. /\ state' \subseteq Flags /\ join' \in JoinSteps /\ jres' \subseteq Flags
        /\ live' \in [Ctxs -> Int]
    BY <2>1 DEF DropJoinHandleSlow, drop_join_handle_slow, TypeOK, JoinSteps, DropWaker
  <2>4. UNCHANGED <<refs, stage, cell, bound, owned, phase, might_drop, at, ownerVars, poll_ctx, result, woken, outcome, wakers>>
    BY Zenon DEF DropJoinHandleSlow
  <2> QED BY <2>1, <2>2, <2>3, <2>4 DEF TypeOK
<1>2. PlaceInv'
  BY Zenon DEF DropJoinHandleSlow, drop_join_handle_slow, PlaceInv
<1>3. CountInv'
  BY CountKept, Zenon DEF DropJoinHandleSlow
<1>4. RefsInv'
  BY Zenon DEF DropJoinHandleSlow, drop_join_handle_slow, RefsInv, is_final_ref
<1>5. CellInv'
  BY DEF DropJoinHandleSlow, drop_join_handle_slow, DropWaker, TypeOK, PlaceInv, CellInv,
       SnapInv, Duty, new_joinable
<1>6. SnapInv'
  BY Zenon DEF DropJoinHandleSlow, drop_join_handle_slow, SnapInv
<1>7. StageInv'
  BY Zenon DEF DropJoinHandleSlow, drop_join_handle_slow, StageInv, ResultFaithful
<1> QED BY <1>1, <1>2, <1>3, <1>4, <1>5, <1>6, <1>7, Zenon

LEMMA KeepConsumeOutput ==
  ASSUME FiberInv, ConsumeOutput PROVE FiberInv'
<1> USE NoWakerAssumption DEF FiberInv, has, is_active, word, ownerVars, joinVars, sched
<1>1. TypeOK'
  BY DEF ConsumeOutput, TypeOK, JoinSteps
<1>2. PlaceInv'
  BY Zenon DEF ConsumeOutput, PlaceInv
<1>3. CountInv'
  BY CountKept, Zenon DEF ConsumeOutput
<1>4. RefsInv'
  BY Zenon DEF ConsumeOutput, RefsInv
<1>5. CellInv'
  BY Zenon DEF ConsumeOutput, CellInv, Duty
<1>6. SnapInv'
  BY Zenon DEF ConsumeOutput, SnapInv
<1>7. StageInv'
  BY Zenon DEF ConsumeOutput, PlaceInv, SnapInv, StageInv, ResultFaithful
<1> QED BY <1>1, <1>2, <1>3, <1>4, <1>5, <1>6, <1>7, Zenon

LEMMA KeepStutter ==
  ASSUME FiberInv, UNCHANGED vars PROVE FiberInv'
<1> USE NoWakerAssumption DEF FiberInv, has, is_active, word, ownerVars, joinVars, sched
<1>1. CountInv'
  BY CountKept, Zenon DEF vars
<1>2. TypeOK' /\ PlaceInv' /\ RefsInv' /\ StageInv'
  BY DEF vars, TypeOK, PlaceInv, RefsInv, StageInv, ResultFaithful
<1>3. CellInv' /\ SnapInv'
  BY DEF vars, CellInv, SnapInv, Duty
<1> QED BY <1>1, <1>2, <1>3, Zenon

LEMMA FiberStepInv ==
  ASSUME FiberInv, [Next]_vars PROVE FiberInv'
<1>1. CASE Spawn
  BY <1>1, KeepSpawn
<1>2. CASE SpawnRefused
  BY <1>2, KeepSpawnRefused
<1>3. CASE Run
  BY <1>3, KeepRun
<1>4. CASE WakeByLocalRef
  BY <1>4, KeepWakeByLocalRef
<1>5. CASE PollPending
  BY <1>5, KeepPollPending
<1>6. ASSUME NEW o \in Outcomes, PollReady(o) PROVE FiberInv'
  BY <1>6, KeepPollReady
<1>7. CASE TransitionToComplete
  BY <1>7, KeepTransitionToComplete
<1>8. CASE TransitionToReleased
  BY <1>8, KeepTransitionToReleased
<1>9. CASE NotifyJoinHandle
  BY <1>9, KeepNotifyJoinHandle
<1>10. CASE ReadJoinWaker
  BY <1>10, KeepReadJoinWaker
<1>11. CASE ReleaseTask
  BY <1>11, KeepReleaseTask
<1>12. CASE BeginDrop
  BY <1>12, KeepBeginDrop
<1>13. CASE CancelFromQueue
  BY <1>13, KeepCancelFromQueue
<1>14. CASE QueuesClosed
  BY <1>14, KeepQueuesClosed
<1>15. CASE ShutdownOwned
  BY <1>15, KeepShutdownOwned
<1>16. CASE DoCancel
  BY <1>16, KeepDoCancel
<1>17. CASE CancelWakesJoin
  BY <1>17, KeepCancelWakesJoin
<1>18. CASE DrainPendingDrop
  BY <1>18, KeepDrainPendingDrop
<1>19. CASE DropReturns
  BY <1>19, KeepDropReturns
<1>20. ASSUME NEW w \in Wakers, CloneWaker(w) PROVE FiberInv'
  BY <1>20, KeepCloneWaker
<1>21. ASSUME NEW w \in Wakers, WakeByRef(w) PROVE FiberInv'
  BY <1>21, KeepWakeByRef
<1>22. ASSUME NEW w \in Wakers, WakeByVal(w) PROVE FiberInv'
  BY <1>22, KeepWakeByVal
<1>23. ASSUME NEW w \in Wakers, Submit(w) PROVE FiberInv'
  BY <1>23, KeepSubmit
<1>24. ASSUME NEW w \in Wakers, DropTaskWaker(w) PROVE FiberInv'
  BY <1>24, KeepDropTaskWaker
<1>25. ASSUME NEW c \in Ctxs, JoinPoll(c) PROVE FiberInv'
  BY <1>25, KeepJoinPoll
<1>26. CASE UnsetWaker
  BY <1>26, KeepUnsetWaker
<1>27. CASE StoreCell
  BY <1>27, KeepStoreCell
<1>28. CASE SetJoinWaker
  BY <1>28, KeepSetJoinWaker
<1>29. CASE ClearCell
  BY <1>29, KeepClearCell
<1>30. CASE ReadOutput
  BY <1>30, KeepReadOutput
<1>31. CASE CompleteJoinHandle
  BY <1>31, KeepCompleteJoinHandle
<1>32. CASE JoinDropFast
  BY <1>32, KeepJoinDropFast
<1>33. CASE JoinDropSlow
  BY <1>33, KeepJoinDropSlow
<1>34. CASE DropJoinHandleSlow
  BY <1>34, KeepDropJoinHandleSlow
<1>35. CASE ConsumeOutput
  BY <1>35, KeepConsumeOutput
<1>36. CASE UNCHANGED vars
  BY <1>36, KeepStutter
<1> QED
  BY <1>1, <1>2, <1>3, <1>4, <1>5, <1>6, <1>7, <1>8, <1>9, <1>10, <1>11, <1>12, <1>13,
       <1>14, <1>15, <1>16, <1>17, <1>18, <1>19, <1>20, <1>21, <1>22, <1>23, <1>24, <1>25,
       <1>26, <1>27, <1>28, <1>29, <1>30, <1>31, <1>32, <1>33, <1>34, <1>35, <1>36 DEF Next,
       Owner, JoinStep, WakerStep, Finished

LEMMA FiberInvSound ==
  ASSUME FiberInv PROVE FiberSound
<1> USE NoWakerAssumption DEF FiberInv, has, is_active
<1>1. FreedByTheLast
  <2>1. refs = 0 <=> \A w \in Wakers : wakers[w] = "none"
    <3>1. IsFiniteSet(Held)
      BY WakersAssumption, FS_Subset, Zenon DEF Held
    <3>2. refs = 0 <=> Held = {}
      BY <3>1, FS_EmptySet, Zenon DEF CountInv
    <3> QED BY <3>2, Zenon DEF Held
  <2> QED BY <2>1, Zenon DEF FreedByTheLast, Unreachable, RefsInv, PlaceInv, is_final_ref
<1>2. CellsExclusive
  BY Zenon DEF CellsExclusive, OwnerUsesCell, OwnerUsesStage, JoinUsesStage, CellInv, Duty,
       SnapInv, PlaceInv
<1>3. JoinWakerDroppedOnce
  BY Zenon DEF JoinWakerDroppedOnce, OwnerUsesCell, CellInv, Duty, PlaceInv, RefsInv,
       is_final_ref
<1>4. SchedulerOutlivesTask
  BY Zenon DEF SchedulerOutlivesTask, PlaceInv
<1>5. OneHandle
  <2>1. CASE at = "waker"
    <3>1. PICK w \in Wakers : wakers[w] \in {"submit", "submit_val"}
      BY <2>1, Zenon DEF RefsInv
    <3>2. Submitting = {w}
      BY <3>1, Zenon DEF Submitting, RefsInv
    <3> QED BY <2>1, <3>2, FS_Singleton, Zenon DEF OneHandle, PlaceInv
  <2>2. CASE at # "waker"
    <3>1. Submitting = {}
      BY <2>2, Zenon DEF Submitting, RefsInv
    <3> QED BY <2>2, <3>1, FS_EmptySet, Zenon DEF OneHandle, PlaceInv
  <2> QED BY <2>1, <2>2, Zenon
<1>6. NotifiedIsQueued
  BY Zenon DEF NotifiedIsQueued, PlaceInv, TypeOK, Places
<1>7. StateAsserts
  BY Zenon DEF StateAsserts, PlaceInv, CellInv, Duty, is_terminal
<1>8. HarnessAsserts
  BY Zenon DEF HarnessAsserts, OwnerUsesCell, Submitting, PlaceInv, RefsInv, CellInv,
       SnapInv, StageInv, Duty, TypeOK
<1> HIDE DEF FiberInv, has, is_active
<1>9. TypeOK /\ ResultFaithful
  BY Zenon DEF FiberInv, StageInv
<1> QED
  BY <1>1, <1>2, <1>3, <1>4, <1>5, <1>6, <1>7, <1>8, <1>9, Zenon DEF FiberSound, MemorySafe,
       QueuedExactlyOnce, JoinSound, AssertionsHold

\* For any clones of the task's waker and any contexts of the JoinHandle, the cell of a task
\* is freed by its last user and by nobody else, its unsynchronised parts are never shared,
\* the join waker is dropped once, the task is queued once, the assertions of the harness
\* hold and the JoinHandle is told what happened (fiber/inner: harness, join, waker, raw).
THEOREM TaskCellSafe == Spec => []FiberSound
<1>1. FiberInv => FiberSound
  BY FiberInvSound, Zenon
<1>2. Init => FiberInv
  BY FiberInitInv, Zenon
<1>3. FiberInv /\ [Next]_vars => FiberInv'
  BY FiberStepInv, Zenon
<1> QED BY <1>1, <1>2, <1>3, PTL DEF Spec
=============================================================================
