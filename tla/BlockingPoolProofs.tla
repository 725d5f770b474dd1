------------------------- MODULE BlockingPoolProofs -------------------------
(***************************************************************************)
(* Proofs about BlockingPool for every set of threads and tasks, every     *)
(* thread_cap and any number of failed thread creations.                   *)
(***************************************************************************)
EXTENDS BlockingPool, FiniteSetTheorems, SequenceTheorems, TLAPS

\* shutdown is requested by the drop of the pool and by nothing else.
ShutdownIsDrop == shutdown <=> handle # "live"

\* Only a thread that has seen shutdown drains the queue.
DrainsInShutdown == \A t \in Threads : pc[t] = "draining" => shutdown

\* The counting part of the argument.  CountersExact alone is not inductive:
\* a thread's exit needs ThreadsCounted, and that no exact count is lost at
\* the cap needs NoLostWakeup.
Counting ==
  /\ TypeOK
  /\ ShutdownIsDrop
  /\ DrainsInShutdown
  /\ ThreadsCounted
  /\ CountersExact
  /\ NoLostWakeup
  /\ NoStrandedTask
  /\ NobodySleepsThroughShutdown

\* One when the stage is among S, zero otherwise.
One(stage, S) == IF stage \in S THEN 1 ELSE 0

Size(f, S) == Cardinality(At(f, S))

\* Moving one thread to stage v changes the size of the set of threads within
\* some stages by at most one, in the direction of the move.
LEMMA CardMove ==
  ASSUME NEW f \in [Threads -> Stages], NEW t \in Threads, NEW v, NEW S
  PROVE  Size([f EXCEPT ![t] = v], S) = Size(f, S) + One(v, S) - One(f[t], S)
<1>. DEFINE g == [f EXCEPT ![t] = v]
<1>1. IsFiniteSet(At(f, S)) /\ Size(f, S) \in Nat
  BY ThreadsAssumption, FS_Subset, FS_CardinalityType, Zenon DEF At, Size
<1>2. CASE v \in S /\ f[t] \notin S
  <2>1. At(g, S) = At(f, S) \cup {t} /\ t \notin At(f, S)
    BY <1>2, Zenon DEF At
  <2>2. Size(g, S) = Size(f, S) + 1
    BY <1>1, <2>1, FS_AddElement, Zenon DEF Size
  <2>. QED BY <1>1, <1>2, <2>2 DEF One
<1>3. CASE v \notin S /\ f[t] \in S
  <2>1. At(g, S) = At(f, S) \ {t} /\ t \in At(f, S)
    BY <1>3, Zenon DEF At
  <2>2. Size(g, S) = Size(f, S) - 1
    BY <1>1, <2>1, FS_RemoveElement, Zenon DEF Size
  <2>. QED BY <1>1, <1>3, <2>2 DEF One
<1>4. CASE v \in S <=> f[t] \in S
  <2>1. At(g, S) = At(f, S)
    BY <1>4, Zenon DEF At
  <2>. QED BY <1>1, <1>4, <2>1 DEF One, Size
<1>. QED BY <1>2, <1>3, <1>4, Zenon

\* A set of threads is empty exactly when its size is zero, and one that
\* includes another is no smaller.
LEMMA CardAt ==
  ASSUME NEW f, NEW S, NEW T
  PROVE  /\ Size(f, S) \in Nat
         /\ Size(f, S) = 0 <=> At(f, S) = {}
         /\ S \subseteq T => Size(f, S) <= Size(f, T)
<1>1. IsFiniteSet(At(f, S)) /\ IsFiniteSet(At(f, T))
  BY ThreadsAssumption, FS_Subset, Zenon DEF At
<1>2. S \subseteq T => At(f, S) \subseteq At(f, T)
  BY Zenon DEF At
<1>. QED BY <1>1, <1>2, FS_CardinalityType, FS_EmptySet, FS_Subset, Zenon DEF Size

\* A pool that is new.
LEMMA InitCounting == Init => Counting
<1>. SUFFICES ASSUME Init PROVE Counting
  OBVIOUS
<1>1. \A S \in SUBSET (Stages \ {"none"}) : In(S) = {}
  BY Zenon DEF Init, In, At, Stages
<1>2. Awake = {} /\ Idle = {} /\ Busy = {} /\ Live = {} /\ In({"waiting"}) = {}
  BY <1>1, Zenon DEF Awake, Idle, Busy, Live, AwakeStages, IdleStages, BusyStages,
       LiveStages, Stages
<1>3. Cardinality({}) = 0
  BY FS_EmptySet, Zenon
<1>4. TypeOK
  <2>1. queue \in Seq(Tasks)
    BY EmptySeq, Zenon DEF Init
  <2>2. failures \in 0 .. MaxSpawnFail
    BY FailAssumption DEF Init
  <2>. QED BY <2>1, <2>2, Zenon DEF Init, TypeOK, Stages
<1>. QED
  BY <1>2, <1>3, <1>4, CapAssumption DEF Init, Counting, ShutdownIsDrop, DrainsInShutdown,
       ThreadsCounted, CountersExact, NoLostWakeup, NoStrandedTask,
       NobodySleepsThroughShutdown

\* What a single thread's move does to the counted sets of threads.
LEMMA MoveFacts ==
  ASSUME TypeOK, NEW t \in Threads, NEW v \in Stages,
         pc' = [pc EXCEPT ![t] = v]
  PROVE  /\ \A S : Size(pc', S) = Size(pc, S) + One(v, S) - One(pc[t], S)
         /\ v \in BusyStages => Busy' # {}
         /\ (v \in BusyStages <=> pc[t] \in BusyStages) => Busy' = Busy
         /\ v \in LiveStages => Live' # {}
         /\ v # "waiting" => In({"waiting"})' \subseteq In({"waiting"})
<1>. pc \in [Threads -> Stages]
  BY Zenon DEF TypeOK
<1>1. v # "waiting" => In({"waiting"})' \subseteq In({"waiting"})
  BY Zenon DEF In, At
<1>2. /\ v \in BusyStages => Busy' # {}
      /\ (v \in BusyStages <=> pc[t] \in BusyStages) => Busy' = Busy
      /\ v \in LiveStages => Live' # {}
  BY Zenon DEF Busy, Live, In, At
<1>3. \A S : Size(pc', S) = Size(pc, S) + One(v, S) - One(pc[t], S)
  BY CardMove
<1>. QED BY <1>1, <1>2, <1>3, Zenon

\* The arithmetic every move of a thread has in common: the counters follow
\* the sets they count.
LEMMA MoveCounting ==
  ASSUME Counting, TypeOK', NEW t \in Threads, NEW v \in Stages,
         pc' = [pc EXCEPT ![t] = v],
         shutdown' = shutdown, handle' = handle, failures' = failures,
         num_th' = num_th + One(v, LiveStages) - One(pc[t], LiveStages),
         num_th' <= thread_cap,
         ~shutdown => /\ num_idle' + num_notify' = num_idle + num_notify
                             + One(v, IdleStages) - One(pc[t], IdleStages)
                      /\ num_notify' = IF pc[t] \in AwakeStages /\ num_notify # 0
                                        THEN num_notify - 1 ELSE num_notify,
         shutdown => v # "waiting",
         v = "draining" => shutdown
  PROVE  /\ ShutdownIsDrop'
         /\ DrainsInShutdown'
         /\ ThreadsCounted'
         /\ CountersExact'
         /\ NoLostWakeup'
         /\ NobodySleepsThroughShutdown'
<1>. TypeOK
  BY Zenon DEF Counting
<1>1. ShutdownIsDrop' /\ DrainsInShutdown'
  BY Zenon DEF Counting, ShutdownIsDrop, DrainsInShutdown, TypeOK
<1>2. \A S : /\ Size(pc, S) \in Nat /\ Size(pc', S) \in Nat
            /\ Size(pc', S) = Size(pc, S) + One(v, S) - One(pc[t], S)
  BY MoveFacts, CardAt, Zenon
<1>3. \A x, S : One(x, S) \in {0, 1}
  BY Zenon DEF One
<1>4. ThreadsCounted'
  <2>1. num_th = Size(pc, LiveStages) + failures
    BY Zenon DEF Counting, ThreadsCounted, Live, In, Size
  <2>2. /\ Size(pc, LiveStages) \in Nat /\ Size(pc', LiveStages) \in Nat
        /\ One(v, LiveStages) \in {0, 1} /\ One(pc[t], LiveStages) \in {0, 1}
        /\ Size(pc', LiveStages) =
             Size(pc, LiveStages) + One(v, LiveStages) - One(pc[t], LiveStages)
    BY <1>2, <1>3, Zenon
  <2>3. failures \in Int
    BY FailAssumption DEF TypeOK
  <2>4. num_th' = Size(pc', LiveStages) + failures'
    BY <2>1, <2>2, <2>3
  <2>. QED BY <2>4, Zenon DEF ThreadsCounted, Live, In, Size, At
<1>5. CountersExact'
  <2>1. ~shutdown => num_idle + num_notify = Size(pc, IdleStages)
    BY Zenon DEF Counting, CountersExact, Idle, In, Size
  <2>2. ~shutdown => num_idle' + num_notify' = Size(pc', IdleStages)
    BY <1>2, <2>1, Zenon DEF TypeOK, One
  <2>. QED BY <2>2, Zenon DEF CountersExact, Idle, In, Size, At
<1>6. NoLostWakeup'
  <2>1. ~shutdown => num_notify <= Size(pc, AwakeStages)
    BY Zenon DEF Counting, NoLostWakeup, Awake, In, Size
  <2>2. /\ Size(pc, AwakeStages) \in Nat /\ Size(pc', AwakeStages) \in Nat
        /\ One(v, AwakeStages) \in {0, 1} /\ One(pc[t], AwakeStages) \in {0, 1}
        /\ Size(pc', AwakeStages) =
             Size(pc, AwakeStages) + One(v, AwakeStages) - One(pc[t], AwakeStages)
    BY <1>2, <1>3, Zenon
  <2>3. One(pc[t], AwakeStages) = IF pc[t] \in AwakeStages THEN 1 ELSE 0
    BY Zenon DEF One
  <2>4. num_notify \in Nat
    BY Zenon DEF TypeOK
  <2>5. ASSUME ~shutdown PROVE num_notify' <= Size(pc', AwakeStages)
    <3>1. CASE pc[t] \in AwakeStages /\ num_notify # 0
      BY <2>1, <2>2, <2>3, <2>4, <2>5, <3>1
    <3>2. CASE num_notify = 0
      BY <2>2, <2>5, <3>2
    <3>3. CASE pc[t] \notin AwakeStages
      BY <2>1, <2>2, <2>3, <2>4, <2>5, <3>3
    <3>. QED BY <3>1, <3>2, <3>3, Zenon
  <2>. QED BY <2>5, Zenon DEF NoLostWakeup, Awake, In, Size, At
<1>7. NobodySleepsThroughShutdown'
  BY MoveFacts, Zenon DEF Counting, NobodySleepsThroughShutdown
<1>. QED BY <1>1, <1>4, <1>5, <1>6, <1>7, Zenon

-----------------------------------------------------------------------------
(* Type correctness of each step.  The point of interest is num_idle: the    *)
(* checked_sub at thread exit does not underflow, because a thread that      *)
(* timed out is still counted as idle.                                       *)

\* A thread that timed out with no notification outstanding is counted.
LEMMA TimedOutIsCounted ==
  ASSUME Counting, ~shutdown, num_notify = 0, NEW t \in Awake
  PROVE  num_idle >= 1
<1>1. Size(pc, IdleStages) \in Nat /\ (Size(pc, IdleStages) = 0 <=> Idle = {})
  BY CardAt, Zenon DEF Idle, In
<1>2. t \in Idle
  BY Zenon DEF Awake, Idle, In, At, AwakeStages, IdleStages
<1>3. num_idle = Size(pc, IdleStages)
  BY DEF Counting, CountersExact, Idle, In, Size, TypeOK
<1>. QED BY <1>1, <1>2, <1>3

\* A live thread is counted in num_th.
LEMMA LiveIsCounted ==
  ASSUME Counting, NEW t \in Live
  PROVE  num_th >= 1
<1>1. Size(pc, LiveStages) \in Nat /\ (Size(pc, LiveStages) = 0 <=> Live = {})
  BY CardAt, Zenon DEF Live, In
<1>2. num_th = Size(pc, LiveStages) + failures
  BY Zenon DEF Counting, ThreadsCounted, Live, In, Size
<1>. QED BY <1>1, <1>2, FailAssumption DEF Counting, TypeOK

\* The queue after a task is taken from its front.
LEMMA PopFront ==
  ASSUME queue \in Seq(Tasks), queue # <<>>
  PROVE  Tail(queue) \in Seq(Tasks) /\ Head(queue) \in Tasks
BY HeadTailProperties, Zenon

\* Draining keeps the types.
LEMMA DrainType ==
  ASSUME Counting, NEW t \in Live, NEW idle \in Nat, Drain(t, idle)
  PROVE  /\ queue' \in Seq(Tasks) /\ num_th' \in Nat /\ num_idle' \in Nat
         /\ pc' \in [Threads -> Stages]
         /\ task' \in [Threads -> Tasks \cup {NoTask}]
<1>. TypeOK /\ t \in Threads
  BY Zenon DEF Counting, Live, In, At
<1>1. CASE queue # <<>>
  BY <1>1, PopFront, Zenon DEF Drain, TypeOK, Stages
<1>2. CASE queue = <<>>
  BY <1>2, LiveIsCounted DEF Drain, Exit, TypeOK, Stages
<1>. QED BY <1>1, <1>2, Zenon

\* Becoming idle keeps the types.
LEMMA BecomeIdleType ==
  ASSUME Counting, NEW t \in Live, BecomeIdle(t)
  PROVE  /\ queue' \in Seq(Tasks) /\ num_th' \in Nat /\ num_idle' \in Nat
         /\ pc' \in [Threads -> Stages]
         /\ task' \in [Threads -> Tasks \cup {NoTask}]
<1>. TypeOK /\ t \in Threads
  BY Zenon DEF Counting, Live, In, At
<1>1. CASE ~shutdown
  BY <1>1 DEF BecomeIdle, TypeOK, Stages
<1>2. CASE shutdown
  <2>1. num_idle + 1 \in Nat /\ Drain(t, num_idle + 1)
    BY <1>2 DEF BecomeIdle, TypeOK
  <2>. QED BY <2>1, DrainType, Zenon
<1>. QED BY <1>1, <1>2, Zenon

\* A turn of the busy loop keeps the types.
LEMMA BusyLoopType ==
  ASSUME Counting, NEW t \in Live, BusyLoop(t)
  PROVE  /\ queue' \in Seq(Tasks) /\ num_th' \in Nat /\ num_idle' \in Nat
         /\ pc' \in [Threads -> Stages]
         /\ task' \in [Threads -> Tasks \cup {NoTask}]
         /\ status' \in [Tasks -> {"new", "accepted", "running", "done", "cancelled"}]
<1>. TypeOK /\ t \in Threads
  BY Zenon DEF Counting, Live, In, At
<1>1. CASE queue # <<>>
  BY <1>1, PopFront DEF BusyLoop, TypeOK, Stages
<1>2. CASE queue = <<>>
  BY <1>2, BecomeIdleType, Zenon DEF BusyLoop, TypeOK
<1>. QED BY <1>1, <1>2, Zenon

\* Every step keeps the types.
LEMMA TypeStep ==
  ASSUME Counting, [Next]_vars
  PROVE  TypeOK'
<1>. TypeOK
  BY Zenon DEF Counting
<1>. USE DEF TypeOK
<1>1. ASSUME NEW k \in Tasks, ScheduleRefused(k) PROVE TypeOK'
  BY <1>1, Zenon DEF ScheduleRefused, shared
<1>2. ASSUME NEW k \in Tasks, ScheduleAtCap(k) PROVE TypeOK'
  BY <1>2, AppendProperties, Zenon DEF ScheduleAtCap, Enqueue
<1>3. ASSUME NEW k \in Tasks, NEW t \in Threads, ScheduleSpawn(k, t) PROVE TypeOK'
  BY <1>3, AppendProperties DEF ScheduleSpawn, Enqueue, Stages
<1>4. ASSUME NEW k \in Tasks, ScheduleNotify(k) PROVE TypeOK'
  <2>1. pc' \in [Threads -> Stages]
    BY <1>4, Zenon DEF ScheduleNotify, NotifyOne, In, At, Stages
  <2>2. num_idle' \in Nat /\ num_notify' \in Nat
    BY <1>4 DEF ScheduleNotify
  <2>. QED BY <1>4, <2>1, <2>2, AppendProperties, Zenon DEF ScheduleNotify, Enqueue
<1>5. ASSUME NEW t \in Threads, SpawnThread(t) PROVE TypeOK'
  BY <1>5, Zenon DEF SpawnThread, shared, Stages
<1>6. ASSUME NEW t \in Threads, SpawnThreadFails(t) PROVE TypeOK'
  BY <1>6, FailAssumption DEF SpawnThreadFails, shared, Stages
<1>7. ASSUME NEW t \in Threads, ThreadStart(t) PROVE TypeOK'
  <2>1. t \in Live /\ BusyLoop(t)
    BY <1>7, Zenon DEF ThreadStart, Live, In, At, LiveStages, Stages
  <2>. QED BY <1>7, <2>1, BusyLoopType, Zenon DEF ThreadStart
<1>8. ASSUME NEW t \in Threads, RunTask(t) PROVE TypeOK'
  BY <1>8, Zenon DEF RunTask, shared, Stages
<1>9. ASSUME NEW t \in Threads, Relock(t) PROVE TypeOK'
  <2>1. t \in Live
    BY <1>9, Zenon DEF Relock, Live, In, At, LiveStages, Stages
  <2>2. CASE ~shutdown
    BY <1>9, <2>1, <2>2, BusyLoopType, Zenon DEF Relock
  <2>3. CASE shutdown
    BY <1>9, <2>1, <2>3, BecomeIdleType, Zenon DEF Relock
  <2>. QED BY <2>2, <2>3, Zenon
<1>10. ASSUME NEW t \in Threads, SpuriousWakeup(t) \/ KeepAliveElapsed(t)
       PROVE  TypeOK'
  BY <1>10, Zenon DEF SpuriousWakeup, KeepAliveElapsed, shared, Stages
<1>11. ASSUME NEW t \in Threads, WakeNotified(t) PROVE TypeOK'
  <2>1. t \in Live /\ num_notify' \in Nat
    BY <1>11 DEF WakeNotified, Awake, Live, In, At, AwakeStages, LiveStages, Stages
  <2>2. CASE ~shutdown
    BY <1>11, <2>1, <2>2, BusyLoopType, Zenon DEF WakeNotified
  <2>3. CASE shutdown
    BY <1>11, <2>1, <2>3, DrainType, Zenon DEF WakeNotified
  <2>. QED BY <2>2, <2>3, Zenon
<1>12. ASSUME NEW t \in Threads, WakeUnnotified(t) PROVE TypeOK'
  <2>1. t \in Live /\ t \in Awake
    BY <1>12, Zenon DEF WakeUnnotified, Awake, Live, In, At, AwakeStages, LiveStages, Stages
  <2>2. CASE shutdown
    BY <1>12, <2>1, <2>2, DrainType, Zenon DEF WakeUnnotified
  <2>3. CASE ~shutdown /\ pc[t] = "timedout"
    <3>1. num_idle >= 1 /\ num_th >= 1 /\ Exit(t, num_idle)
      BY <1>12, <2>1, <2>3, TimedOutIsCounted, LiveIsCounted, Zenon DEF WakeUnnotified
    <3>. QED BY <1>12, <3>1 DEF WakeUnnotified, Exit, Stages
  <2>4. CASE ~shutdown /\ pc[t] = "woken"
    BY <1>12, <2>4, Zenon DEF WakeUnnotified, Stages
  <2>. QED BY <1>12, <2>2, <2>3, <2>4, Zenon DEF WakeUnnotified
<1>13. ASSUME NEW t \in Threads, TaskShutDown(t) PROVE TypeOK'
  <2>1. t \in Live
    BY <1>13, Zenon DEF TaskShutDown, Live, In, At, LiveStages, Stages
  <2>. QED BY <1>13, <2>1, DrainType, Zenon DEF TaskShutDown
<1>14. ASSUME NEW t \in Threads, DropShutdownTx(t) PROVE TypeOK'
  BY <1>14, Zenon DEF DropShutdownTx, shared, Stages
<1>15. CASE DropPool
  BY <1>15, Zenon DEF DropPool, Stages
<1>16. CASE DropWaitReturns
  BY <1>16, Zenon DEF DropWaitReturns, shared
<1>17. CASE Finished \/ UNCHANGED vars
  BY <1>17, Zenon DEF Finished, vars
<1>. QED
  BY <1>1, <1>2, <1>3, <1>4, <1>5, <1>6, <1>7, <1>8, <1>9, <1>10, <1>11, <1>12, <1>13,
       <1>14, <1>15, <1>16, <1>17, Zenon DEF Next, Schedule, Run2

-----------------------------------------------------------------------------
(* The counting invariant, step by step.                                     *)

\* The stages' memberships the arithmetic needs, as numbers.
LEMMA OneFacts ==
  /\ \A x \in IdleStages : One(x, IdleStages) = 1 /\ One(x, LiveStages) = 1
  /\ \A x \in BusyStages \cup {"draining"} :
       One(x, IdleStages) = 0 /\ One(x, LiveStages) = 1
  /\ \A x \in {"none", "exited"} : One(x, IdleStages) = 0 /\ One(x, LiveStages) = 0
BY Zenon DEF One, IdleStages, BusyStages, LiveStages, Stages

\* A step of the drain loop, under shutdown, by a live thread.
LEMMA DrainCounting ==
  ASSUME Counting, TypeOK', NEW t \in Live, NEW idle \in Nat, shutdown,
         Drain(t, idle),
         shutdown' = shutdown, handle' = handle, failures' = failures
  PROVE  Counting'
<1>. TypeOK /\ t \in Threads /\ pc[t] \in LiveStages
  BY Zenon DEF Counting, Live, In, At
<1>1. pc[t] \in IdleStages \cup BusyStages \cup {"draining"}
  BY Zenon DEF LiveStages, Stages, IdleStages, BusyStages
<1>2. CASE queue # <<>>
  <2>1. /\ pc' = [pc EXCEPT ![t] = "draining"]
        /\ num_th' = num_th
    BY <1>2, Zenon DEF Drain
  <2>2. One("draining", LiveStages) = 1 /\ One(pc[t], LiveStages) = 1
    BY <1>1, OneFacts, Zenon
  <2>3. "draining" \in Stages /\ "draining" \in LiveStages
    BY Zenon DEF Stages, LiveStages
  <2>4. num_th' <= thread_cap
    BY <2>1, Zenon DEF Counting, ThreadsCounted
  <2>5. num_th' = num_th + One("draining", LiveStages) - One(pc[t], LiveStages)
    BY <2>1, <2>2 DEF TypeOK
  <2>6. NoStrandedTask'
    BY <2>1, <2>3, MoveFacts, Zenon DEF NoStrandedTask
  <2>. QED BY <2>1, <2>3, <2>4, <2>5, <2>6, MoveCounting, Zenon DEF Counting
<1>3. CASE queue = <<>>
  <2>1. /\ pc' = [pc EXCEPT ![t] = "exited"]
        /\ num_th' = num_th - 1
        /\ queue' = <<>>
    BY <1>3, Zenon DEF Drain, Exit
  <2>2. One("exited", LiveStages) = 0 /\ One(pc[t], LiveStages) = 1
    BY <1>1, OneFacts, Zenon
  <2>3. "exited" \in Stages
    BY Zenon DEF Stages
  <2>4. num_th' <= thread_cap
    BY <2>1, CapAssumption DEF Counting, ThreadsCounted, TypeOK
  <2>5. num_th' = num_th + One("exited", LiveStages) - One(pc[t], LiveStages)
    BY <2>1, <2>2 DEF TypeOK
  <2>6. NoStrandedTask'
    BY <2>1, Zenon DEF NoStrandedTask
  <2>. QED BY <2>1, <2>3, <2>4, <2>5, <2>6, MoveCounting, Zenon DEF Counting
<1>. QED BY <1>2, <1>3, Zenon

\* A thread that started, came back from a task or acknowledged a notification
\* enters the busy loop: it takes a task, goes to sleep or joins the drain.
LEMMA BusyLoopCounting ==
  ASSUME Counting, TypeOK', NEW t \in Threads, BusyLoop(t),
         shutdown' = shutdown, handle' = handle, failures' = failures,
         \/ pc[t] \in {"starting", "ran"} /\ num_notify' = num_notify
         \/ /\ pc[t] \in AwakeStages
            /\ num_notify # 0
            /\ num_notify' = num_notify - 1
  PROVE  Counting'
<1>. TypeOK /\ pc[t] \in Stages
  BY Zenon DEF Counting, TypeOK
<1>1. /\ pc[t] \in IdleStages \cup BusyStages
      /\ pc[t] \in AwakeStages => pc[t] \in IdleStages
      /\ pc[t] \in {"starting", "ran"} => pc[t] \in BusyStages
      /\ pc[t] \in BusyStages => pc[t] \notin AwakeStages
      /\ t \in Live
  BY Zenon DEF AwakeStages, IdleStages, BusyStages, LiveStages, Stages, Live, In, At
<1>2. One(pc[t], LiveStages) = 1
  BY <1>1, OneFacts, Zenon
<1>3. num_th <= thread_cap
  BY Zenon DEF Counting, ThreadsCounted
<1>4. One(pc[t], IdleStages) \in Int /\ num_notify' = num_notify - One(pc[t], IdleStages)
  <2>1. CASE pc[t] \in {"starting", "ran"}
    BY <1>1, <2>1, OneFacts DEF TypeOK, AwakeStages
  <2>2. CASE pc[t] \in AwakeStages
    BY <1>1, <2>2, OneFacts DEF TypeOK, AwakeStages
  <2>. QED BY <2>1, <2>2, Zenon
<1>5. CASE queue # <<>>
  <2>1. /\ pc' = [pc EXCEPT ![t] = "running"]
        /\ num_th' = num_th
        /\ num_idle' = num_idle
    BY <1>5, Zenon DEF BusyLoop
  <2>2. "running" \in Stages /\ "running" \in BusyStages
    BY Zenon DEF Stages, BusyStages
  <2>3. One("running", LiveStages) = 1 /\ One("running", IdleStages) = 0
    BY <2>2, OneFacts, Zenon
  <2>4. num_th' = num_th + One("running", LiveStages) - One(pc[t], LiveStages)
    BY <1>2, <2>1, <2>3 DEF TypeOK
  <2>5. num_idle' + num_notify' = num_idle + num_notify
          + One("running", IdleStages) - One(pc[t], IdleStages)
    BY <1>4, <2>1, <2>3 DEF TypeOK
  <2>6. num_notify' = IF pc[t] \in AwakeStages /\ num_notify # 0
                      THEN num_notify - 1 ELSE num_notify
    BY <1>1, Zenon
  <2>7. NoStrandedTask'
    BY <2>1, <2>2, MoveFacts, Zenon DEF NoStrandedTask
  <2>. QED BY <1>3, <2>1, <2>2, <2>4, <2>5, <2>6, <2>7, MoveCounting, Zenon DEF Counting
<1>6. CASE queue = <<>> /\ ~shutdown
  <2>1. /\ pc' = [pc EXCEPT ![t] = "waiting"]
        /\ num_th' = num_th
        /\ num_idle' = num_idle + 1
        /\ queue' = <<>>
    BY <1>6, Zenon DEF BusyLoop, BecomeIdle
  <2>2. "waiting" \in Stages /\ "waiting" \in IdleStages
    BY Zenon DEF Stages, IdleStages
  <2>3. One("waiting", LiveStages) = 1 /\ One("waiting", IdleStages) = 1
    BY <2>2, OneFacts, Zenon
  <2>4. num_th' = num_th + One("waiting", LiveStages) - One(pc[t], LiveStages)
    BY <1>2, <2>1, <2>3 DEF TypeOK
  <2>5. num_idle' + num_notify' = num_idle + num_notify
          + One("waiting", IdleStages) - One(pc[t], IdleStages)
    BY <1>4, <2>1, <2>3 DEF TypeOK
  <2>6. num_notify' = IF pc[t] \in AwakeStages /\ num_notify # 0
                      THEN num_notify - 1 ELSE num_notify
    BY <1>1, Zenon
  <2>7. NoStrandedTask'
    BY <2>1, Zenon DEF NoStrandedTask
  <2>. QED BY <1>3, <1>6, <2>1, <2>2, <2>4, <2>5, <2>6, <2>7, MoveCounting, Zenon DEF Counting
<1>7. CASE queue = <<>> /\ shutdown
  <2>1. num_idle + 1 \in Nat /\ Drain(t, num_idle + 1)
    BY <1>7 DEF BusyLoop, BecomeIdle, TypeOK
  <2>. QED BY <1>1, <1>7, <2>1, DrainCounting, Zenon
<1>. QED BY <1>5, <1>6, <1>7, Zenon

\* A step that leaves the threads and the counters where they are.
LEMMA StillCounting ==
  ASSUME Counting, TypeOK', pc' = pc, num_th' = num_th, num_idle' = num_idle,
         num_notify' = num_notify, shutdown' = shutdown, failures' = failures,
         handle' = "live" <=> handle = "live",
         queue' # <<>> /\ failures = 0 =>
           \/ Busy # {}
           \/ ~shutdown /\ num_notify > 0
           \/ shutdown /\ Live # {}
  PROVE  Counting'
<1>1. Busy' = Busy /\ Idle' = Idle /\ Awake' = Awake /\ Live' = Live
      /\ In({"waiting"})' = In({"waiting"})
  BY Zenon DEF Busy, Idle, Awake, Live, In, At
<1>. QED
  BY <1>1, Zenon DEF Counting, ShutdownIsDrop, DrainsInShutdown, ThreadsCounted,
       CountersExact, NoLostWakeup, NoStrandedTask, NobodySleepsThroughShutdown

\* schedule at the cap wakes nobody: somebody busy or notified is on its way.
LEMMA AtCapCounting ==
  ASSUME Counting, TypeOK', NEW k \in Tasks, ScheduleAtCap(k)
  PROVE  Counting'
<1>. TypeOK
  BY Zenon DEF Counting
<1>1. ASSUME failures = 0, num_notify = 0, Busy = {} PROVE FALSE
  <2>1. ~shutdown /\ num_idle = 0 /\ num_th = thread_cap
    BY Zenon DEF ScheduleAtCap, Enqueue
  <2>2. Size(pc, LiveStages) = thread_cap /\ Size(pc, IdleStages) = 0
    <3>1. num_th = Size(pc, LiveStages) + failures
      BY Zenon DEF Counting, ThreadsCounted, Live, In, Size
    <3>2. num_idle + num_notify = Size(pc, IdleStages)
      BY <2>1, Zenon DEF Counting, CountersExact, Idle, In, Size
    <3>3. Size(pc, LiveStages) \in Nat /\ Size(pc, IdleStages) \in Nat
      BY CardAt, Zenon
    <3>. QED BY <1>1, <2>1, <3>1, <3>2, <3>3
  <2>3. Live # {} /\ Idle = {}
    BY <2>2, CardAt, CapAssumption DEF Live, Idle, In
  <2>4. PICK t \in Threads : pc[t] \in LiveStages
    BY <2>3, Zenon DEF Live, In, At
  <2>5. pc[t] \notin IdleStages /\ pc[t] \notin BusyStages
    BY <1>1, <2>3, Zenon DEF Busy, Idle, In, At
  <2>6. pc[t] = "draining"
    BY <2>4, <2>5, Zenon DEF LiveStages, IdleStages, BusyStages, Stages
  <2>. QED BY <2>1, <2>6, Zenon DEF Counting, DrainsInShutdown
<1>2. failures = 0 => Busy # {} \/ num_notify > 0
  BY <1>1 DEF TypeOK
<1>. QED BY <1>2, StillCounting, Zenon DEF ScheduleAtCap, Enqueue

\* schedule with a thread idle: one unit moves from num_idle to num_notify and
\* one waiting thread, if there is any, is woken.
LEMMA NotifyCounting ==
  ASSUME Counting, TypeOK', NEW k \in Tasks, ScheduleNotify(k)
  PROVE  Counting'
<1>. TypeOK
  BY Zenon DEF Counting
<1>1. /\ ~shutdown /\ ~shutdown' /\ num_idle # 0
      /\ num_idle' = num_idle - 1 /\ num_notify' = num_notify + 1
      /\ num_th' = num_th /\ failures' = failures /\ handle' = handle
  BY Zenon DEF ScheduleNotify, Enqueue, TypeOK
<1>2. /\ num_th = Size(pc, LiveStages) + failures
      /\ num_idle + num_notify = Size(pc, IdleStages)
      /\ num_notify <= Size(pc, AwakeStages)
      /\ num_th <= thread_cap
  BY <1>1, Zenon DEF Counting, ThreadsCounted, CountersExact, NoLostWakeup, Live, Idle,
       Awake, In, Size
<1>. DEFINE Kept ==
       /\ Size(pc', LiveStages) = Size(pc, LiveStages)
       /\ Size(pc', IdleStages) = Size(pc, IdleStages)
       /\ num_notify' <= Size(pc', AwakeStages)
       /\ \A t \in Threads : pc'[t] = "draining" => pc[t] = "draining"
<1>3. Kept
  <2>1. CASE In({"waiting"}) = {} /\ pc' = pc
    <3>1. At(pc, AwakeStages) = At(pc, IdleStages)
      BY <2>1 DEF In, At, AwakeStages, IdleStages
    <3>2. num_notify' <= Size(pc, AwakeStages)
      BY <1>1, <1>2, <3>1 DEF Size, TypeOK
    <3>. QED BY <2>1, <3>2, Zenon
  <2>2. ASSUME NEW t \in In({"waiting"}), pc' = [pc EXCEPT ![t] = "woken"]
        PROVE  Kept
    <3>1. t \in Threads /\ pc[t] = "waiting" /\ "woken" \in Stages
      BY <2>2, Zenon DEF In, At, Stages
    <3>2. /\ One("waiting", IdleStages) = 1 /\ One("woken", IdleStages) = 1
          /\ One("waiting", LiveStages) = 1 /\ One("woken", LiveStages) = 1
          /\ One("waiting", AwakeStages) = 0 /\ One("woken", AwakeStages) = 1
      BY Zenon DEF One, IdleStages, LiveStages, AwakeStages, Stages
    <3>3. \A S : Size(pc, S) \in Nat
                /\ Size(pc', S) = Size(pc, S) + One("woken", S) - One("waiting", S)
      BY <2>2, <3>1, MoveFacts, CardAt
    <3>4. /\ Size(pc', LiveStages) = Size(pc, LiveStages)
          /\ Size(pc', IdleStages) = Size(pc, IdleStages)
          /\ Size(pc', AwakeStages) = Size(pc, AwakeStages) + 1
          /\ Size(pc, AwakeStages) \in Nat
      BY <3>2, <3>3
    <3>5. \A u \in Threads : pc'[u] = "draining" => pc[u] = "draining"
      BY <2>2, <3>1, Zenon DEF TypeOK
    <3>. QED BY <1>1, <1>2, <3>4, <3>5 DEF TypeOK
  <2>. QED BY <2>1, <2>2, Zenon DEF ScheduleNotify, NotifyOne
<1>4. ThreadsCounted'
  BY <1>1, <1>2, <1>3, Zenon DEF ThreadsCounted, Live, In, At, Size
<1>5. CountersExact'
  BY <1>1, <1>2, <1>3 DEF CountersExact, Idle, In, At, Size, TypeOK
<1>6. NoLostWakeup'
  BY <1>3, Zenon DEF NoLostWakeup, Awake, In, At, Size
<1>7. /\ ShutdownIsDrop' /\ DrainsInShutdown'
      /\ NoStrandedTask' /\ NobodySleepsThroughShutdown'
  BY <1>1, <1>3 DEF Counting, ShutdownIsDrop, DrainsInShutdown, NoStrandedTask,
       NobodySleepsThroughShutdown, TypeOK
<1>. QED BY <1>4, <1>5, <1>6, <1>7, Zenon DEF Counting

\* A move between two stages that the counters do not tell apart.
LEMMA QuietMoveCounting ==
  ASSUME Counting, TypeOK', NEW t \in Threads, NEW v \in Stages,
         pc' = [pc EXCEPT ![t] = v], UNCHANGED <<shared, handle, failures>>,
         v \in BusyStages <=> pc[t] \in BusyStages,
         v \in IdleStages <=> pc[t] \in IdleStages,
         v \in LiveStages <=> pc[t] \in LiveStages,
         pc[t] \in AwakeStages => num_notify = 0,
         v = "waiting" => ~shutdown, v = "draining" => shutdown
  PROVE  Counting'
<1>. TypeOK
  BY Zenon DEF Counting
<1>1. /\ One(v, IdleStages) = One(pc[t], IdleStages)
      /\ One(v, LiveStages) = One(pc[t], LiveStages)
      /\ One(v, IdleStages) \in {0, 1} /\ One(v, LiveStages) \in {0, 1}
  BY Zenon DEF One
<1>2. num_th' = num_th + One(v, LiveStages) - One(pc[t], LiveStages)
  BY <1>1 DEF shared, TypeOK
<1>3. num_idle' + num_notify' = num_idle + num_notify
        + One(v, IdleStages) - One(pc[t], IdleStages)
  BY <1>1 DEF shared, TypeOK
<1>4. num_notify' = IF pc[t] \in AwakeStages /\ num_notify # 0
                    THEN num_notify - 1 ELSE num_notify
  BY Zenon DEF shared
<1>5. num_th' <= thread_cap
  BY Zenon DEF Counting, ThreadsCounted, shared
<1>6. Busy' = Busy /\ Live' = Live
  BY MoveFacts, Zenon DEF Live, In, At, TypeOK
<1>7. NoStrandedTask'
  BY <1>6, Zenon DEF Counting, NoStrandedTask, shared
<1>. QED
  BY <1>2, <1>3, <1>4, <1>5, <1>7, MoveCounting, Zenon DEF Counting, shared

\* A thread leaves the pool because KEEP_ALIVE elapsed: a queued task, if there
\* is one, has another thread on its way, since no notification is outstanding.
LEMMA TimeoutExitCounting ==
  ASSUME Counting, TypeOK', NEW t \in Threads, pc[t] = "timedout", ~shutdown,
         num_notify = 0, Exit(t, num_idle),
         UNCHANGED <<num_notify, shutdown, handle, failures>>
  PROVE  Counting'
<1>. TypeOK
  BY Zenon DEF Counting
<1>1. pc' = [pc EXCEPT ![t] = "exited"] /\ num_th' = num_th - 1
      /\ num_idle' = num_idle - 1 /\ queue' = queue
  BY Zenon DEF Exit
<1>2. /\ One("timedout", IdleStages) = 1 /\ One("timedout", LiveStages) = 1
      /\ One("exited", IdleStages) = 0 /\ One("exited", LiveStages) = 0
      /\ "exited" \in Stages /\ "exited" \notin BusyStages
      /\ "timedout" \notin BusyStages
  BY Zenon DEF One, IdleStages, LiveStages, BusyStages, Stages
<1>3. num_th' = num_th + One("exited", LiveStages) - One(pc[t], LiveStages)
  BY <1>1, <1>2 DEF TypeOK
<1>4. num_idle' + num_notify' = num_idle + num_notify
        + One("exited", IdleStages) - One(pc[t], IdleStages)
  BY <1>1, <1>2 DEF TypeOK
<1>5. num_th' <= thread_cap
  BY <1>1, CapAssumption DEF Counting, ThreadsCounted, TypeOK
<1>6. NoStrandedTask'
  BY <1>1, <1>2, MoveFacts, Zenon DEF Counting, NoStrandedTask
<1>. QED BY <1>1, <1>2, <1>3, <1>4, <1>5, <1>6, MoveCounting, Zenon DEF Counting

\* schedule counts a new thread in num_th and reserves it.
LEMMA SpawnCounting ==
  ASSUME Counting, TypeOK', NEW k \in Tasks, NEW t \in Threads, ScheduleSpawn(k, t)
  PROVE  Counting'
<1>. TypeOK
  BY Zenon DEF Counting
<1>1. /\ pc' = [pc EXCEPT ![t] = "spawning"] /\ pc[t] = "none"
      /\ num_th' = num_th + 1 /\ num_th # thread_cap
      /\ UNCHANGED <<num_idle, num_notify, shutdown, handle, failures>>
  BY Zenon DEF ScheduleSpawn, Enqueue
<1>2. /\ One("spawning", IdleStages) = 0 /\ One("spawning", LiveStages) = 1
      /\ One("none", IdleStages) = 0 /\ One("none", LiveStages) = 0
      /\ "spawning" \in Stages /\ "spawning" \in BusyStages
      /\ "none" \notin AwakeStages
  BY Zenon DEF One, IdleStages, LiveStages, BusyStages, AwakeStages, Stages
<1>3. num_th' = num_th + One("spawning", LiveStages) - One(pc[t], LiveStages)
  BY <1>1, <1>2 DEF TypeOK
<1>4. num_idle' + num_notify' = num_idle + num_notify
        + One("spawning", IdleStages) - One(pc[t], IdleStages)
  BY <1>1, <1>2 DEF TypeOK
<1>5. num_th' <= thread_cap
  BY <1>1, CapAssumption DEF Counting, ThreadsCounted, TypeOK
<1>6. NoStrandedTask'
  BY <1>1, <1>2, MoveFacts, Zenon DEF NoStrandedTask
<1>. QED BY <1>1, <1>2, <1>3, <1>4, <1>5, <1>6, MoveCounting, Zenon DEF Counting

\* The OS refuses a thread: it stays counted in num_th, as a failure.
LEMMA SpawnFailsCounting ==
  ASSUME Counting, TypeOK', NEW t \in Threads, SpawnThreadFails(t)
  PROVE  Counting'
<1>. TypeOK
  BY Zenon DEF Counting
<1>1. /\ pc' = [pc EXCEPT ![t] = "none"] /\ pc[t] = "spawning"
      /\ failures' = failures + 1 /\ UNCHANGED <<shared, handle>>
      /\ "none" \in Stages
  BY Zenon DEF SpawnThreadFails, Stages
<1>2. /\ One("spawning", IdleStages) = 0 /\ One("spawning", LiveStages) = 1
      /\ One("none", IdleStages) = 0 /\ One("none", LiveStages) = 0
      /\ One("spawning", AwakeStages) = 0 /\ One("none", AwakeStages) = 0
  BY Zenon DEF One, IdleStages, LiveStages, AwakeStages, Stages
<1>3. \A S : Size(pc, S) \in Nat
            /\ Size(pc', S) = Size(pc, S) + One("none", S) - One("spawning", S)
  BY <1>1, MoveFacts, CardAt
<1>4. /\ Size(pc', LiveStages) = Size(pc, LiveStages) - 1
      /\ Size(pc', IdleStages) = Size(pc, IdleStages)
      /\ Size(pc', AwakeStages) = Size(pc, AwakeStages)
      /\ Size(pc, LiveStages) \in Nat
  BY <1>2, <1>3
<1>5. ThreadsCounted'
  <2>1. num_th = Size(pc, LiveStages) + failures /\ num_th <= thread_cap
    BY Zenon DEF Counting, ThreadsCounted, Live, In, Size
  <2>2. num_th' = Size(pc', LiveStages) + failures' /\ num_th' <= thread_cap
    BY <1>1, <1>4, <2>1, FailAssumption DEF TypeOK, shared
  <2>. QED BY <2>2, Zenon DEF ThreadsCounted, Live, In, At, Size
<1>6. CountersExact' /\ NoLostWakeup'
  BY <1>1, <1>4, Zenon DEF Counting, CountersExact, NoLostWakeup, Idle, Awake, In, At, Size,
       shared
<1>7. NobodySleepsThroughShutdown'
  BY <1>1, MoveFacts, Zenon DEF Counting, NobodySleepsThroughShutdown, shared
<1>8. ShutdownIsDrop' /\ DrainsInShutdown' /\ NoStrandedTask'
  BY <1>1, FailAssumption DEF Counting, ShutdownIsDrop, DrainsInShutdown, NoStrandedTask,
       shared, TypeOK
<1>. QED BY <1>5, <1>6, <1>7, <1>8, Zenon DEF Counting

\* The drop requests shutdown and wakes every waiting thread.
LEMMA DropCounting ==
  ASSUME Counting, TypeOK', DropPool
  PROVE  Counting'
<1>. TypeOK
  BY Zenon DEF Counting
<1>1. /\ Live' = Live
      /\ Busy' = Busy
      /\ In({"waiting"})' = {}
  BY Zenon DEF DropPool, Live, Busy, In, At, LiveStages, BusyStages, Stages, TypeOK
<1>2. ThreadsCounted'
  BY <1>1, Zenon DEF Counting, ThreadsCounted, DropPool
<1>3. shutdown' /\ handle' # "live"
  BY Zenon DEF DropPool
<1>4. NoStrandedTask'
  <2>1. ASSUME queue' # <<>>, failures' = 0, Busy = {}
        PROVE  Live # {}
    <3>1. ~shutdown => num_notify > 0
      BY <2>1, Zenon DEF Counting, NoStrandedTask, DropPool
    <3>2. CASE ~shutdown
      <4>1. Size(pc, AwakeStages) \in Nat
            /\ (Size(pc, AwakeStages) = 0 <=> Awake = {})
        BY CardAt, Zenon DEF Awake, In
      <4>2. num_notify <= Size(pc, AwakeStages)
        BY <3>2, Zenon DEF Counting, NoLostWakeup, Awake, In, Size
      <4>3. Awake # {}
        BY <3>1, <3>2, <4>1, <4>2 DEF TypeOK
      <4>. QED BY <4>3, Zenon DEF Awake, Live, In, At, AwakeStages, LiveStages, Stages
    <3>3. CASE shutdown
      BY <2>1, <3>3, Zenon DEF Counting, NoStrandedTask, DropPool
    <3>. QED BY <3>2, <3>3, Zenon
  <2>. QED BY <1>1, <1>3, <2>1, Zenon DEF NoStrandedTask
<1>. QED
  BY <1>1, <1>2, <1>3, <1>4, Zenon DEF Counting, ShutdownIsDrop, DrainsInShutdown,
       CountersExact, NoLostWakeup, NobodySleepsThroughShutdown

\* Every step keeps the counters exact.
LEMMA NextCounting ==
  ASSUME Counting, [Next]_vars
  PROVE  Counting'
<1>. TypeOK /\ TypeOK'
  BY TypeStep, Zenon DEF Counting
<1>1. ASSUME NEW k \in Tasks, Schedule(k) PROVE Counting'
  <2>1. CASE ScheduleRefused(k)
    BY <2>1, StillCounting, Zenon DEF ScheduleRefused, shared, Counting, NoStrandedTask
  <2>. QED
    BY <1>1, <2>1, AtCapCounting, SpawnCounting, NotifyCounting, Zenon DEF Schedule
<1>2. ASSUME NEW t \in Threads, SpawnThread(t) \/ RunTask(t)
      PROVE  Counting'
  <2>. DEFINE v == IF pc[t] = "spawning" THEN "starting" ELSE "ran"
  <2>1. /\ pc[t] \in {"spawning", "running"} /\ pc' = [pc EXCEPT ![t] = v]
        /\ UNCHANGED <<shared, handle, failures>>
    BY <1>2, Zenon DEF SpawnThread, RunTask
  <2>2. v \in Stages /\ v \in BusyStages /\ v \notin IdleStages /\ v \in LiveStages
    BY Zenon DEF Stages, BusyStages, IdleStages, LiveStages
  <2>3. pc[t] \in BusyStages /\ pc[t] \notin IdleStages /\ pc[t] \in LiveStages
        /\ pc[t] \notin AwakeStages
    BY <2>1, Zenon DEF Stages, BusyStages, IdleStages, LiveStages, AwakeStages
  <2>4. v # "waiting" /\ v # "draining"
    OBVIOUS
  <2>. HIDE DEF v
  <2>. QED BY <2>1, <2>2, <2>3, <2>4, QuietMoveCounting, Zenon
<1>3. ASSUME NEW t \in Threads, SpawnThreadFails(t) PROVE Counting'
  BY <1>3, SpawnFailsCounting, Zenon
<1>4. ASSUME NEW t \in Threads, ThreadStart(t) PROVE Counting'
  BY <1>4, BusyLoopCounting, Zenon DEF ThreadStart
<1>5. ASSUME NEW t \in Threads, Relock(t) PROVE Counting'
  <2>1. CASE ~shutdown
    BY <1>5, <2>1, BusyLoopCounting, Zenon DEF Relock
  <2>2. CASE shutdown
    <3>1. t \in Live
      BY <1>5, Zenon DEF Relock, Live, In, At, LiveStages, Stages
    <3>2. num_idle + 1 \in Nat /\ Drain(t, num_idle + 1)
      BY <1>5, <2>2 DEF Relock, BecomeIdle, TypeOK
    <3>. QED BY <1>5, <2>2, <3>1, <3>2, DrainCounting, Zenon DEF Relock
  <2>. QED BY <2>1, <2>2, Zenon
<1>6. ASSUME NEW t \in Threads, SpuriousWakeup(t) \/ KeepAliveElapsed(t)
      PROVE  Counting'
  <2>. DEFINE v == pc'[t]
  <2>1. /\ v \in {"woken", "timedout"} /\ pc' = [pc EXCEPT ![t] = v]
        /\ pc[t] = "waiting" /\ UNCHANGED <<shared, handle, failures>>
    BY <1>6, Zenon DEF SpuriousWakeup, KeepAliveElapsed, TypeOK
  <2>2. v \in Stages /\ v \notin BusyStages /\ v \in IdleStages /\ v \in LiveStages
    BY <2>1, Zenon DEF Stages, BusyStages, IdleStages, LiveStages
  <2>3. pc[t] \notin BusyStages /\ pc[t] \in IdleStages /\ pc[t] \in LiveStages
        /\ pc[t] \notin AwakeStages
    BY <2>1, Zenon DEF Stages, BusyStages, IdleStages, LiveStages, AwakeStages
  <2>4. v # "waiting" /\ v # "draining"
    BY <2>1, Zenon
  <2>. HIDE DEF v
  <2>. QED BY <2>1, <2>2, <2>3, <2>4, QuietMoveCounting, Zenon
<1>7. ASSUME NEW t \in Threads, WakeNotified(t) PROVE Counting'
  <2>1. pc[t] \in AwakeStages /\ t \in Live
    BY <1>7, Zenon DEF WakeNotified, Awake, Live, In, At, AwakeStages, LiveStages, Stages
  <2>2. CASE ~shutdown
    BY <1>7, <2>1, <2>2, BusyLoopCounting, Zenon DEF WakeNotified
  <2>3. CASE shutdown
    BY <1>7, <2>1, <2>3, DrainCounting, Zenon DEF WakeNotified, TypeOK
  <2>. QED BY <2>2, <2>3, Zenon
<1>8. ASSUME NEW t \in Threads, WakeUnnotified(t) PROVE Counting'
  <2>1. pc[t] \in AwakeStages /\ t \in Live
    BY <1>8, Zenon DEF WakeUnnotified, Awake, Live, In, At, AwakeStages, LiveStages, Stages
  <2>2. CASE shutdown
    BY <1>8, <2>1, <2>2, DrainCounting, Zenon DEF WakeUnnotified, TypeOK
  <2>3. CASE ~shutdown /\ pc[t] = "timedout"
    BY <1>8, <2>3, TimeoutExitCounting, Zenon DEF WakeUnnotified
  <2>4. CASE ~shutdown /\ pc[t] = "woken"
    <3>1. /\ pc' = [pc EXCEPT ![t] = "waiting"] /\ num_notify = 0
          /\ UNCHANGED <<shared, handle, failures>>
      BY <1>8, <2>4, Zenon DEF WakeUnnotified, shared
    <3>2. /\ "waiting" \in Stages /\ "waiting" \notin BusyStages
          /\ "waiting" \in IdleStages /\ "waiting" \in LiveStages
          /\ "woken" \notin BusyStages /\ "woken" \in IdleStages
          /\ "woken" \in LiveStages
      BY Zenon DEF Stages, BusyStages, IdleStages, LiveStages
    <3>. QED BY <2>4, <3>1, <3>2, QuietMoveCounting, Zenon
  <2>. QED BY <1>8, <2>2, <2>3, <2>4, Zenon DEF WakeUnnotified
<1>9. ASSUME NEW t \in Threads, TaskShutDown(t) PROVE Counting'
  <2>1. t \in Live /\ shutdown
    BY <1>9, Zenon DEF TaskShutDown, Live, In, At, LiveStages, Stages, Counting,
         DrainsInShutdown
  <2>. QED BY <1>9, <2>1, DrainCounting, Zenon DEF TaskShutDown, TypeOK
<1>10. ASSUME NEW t \in Threads, DropShutdownTx(t) PROVE Counting'
  <2>1. /\ pc' = [pc EXCEPT ![t] = "none"] /\ pc[t] = "exited"
        /\ UNCHANGED <<shared, handle, failures>>
    BY <1>10, Zenon DEF DropShutdownTx
  <2>2. /\ "none" \in Stages
        /\ \A x \in {"none", "exited"} :
             x \notin BusyStages \cup IdleStages \cup LiveStages \cup AwakeStages
    BY Zenon DEF Stages, BusyStages, IdleStages, LiveStages, AwakeStages
  <2>. QED BY <2>1, <2>2, QuietMoveCounting, Zenon
<1>11. CASE DropPool
  BY <1>11, DropCounting, Zenon
<1>12. CASE DropWaitReturns \/ Finished \/ UNCHANGED vars
  BY <1>12, StillCounting, Zenon DEF DropWaitReturns, Finished, vars, shared, Counting,
       NoStrandedTask
<1>. QED
  BY <1>1, <1>2, <1>3, <1>4, <1>5, <1>6, <1>7, <1>8, <1>9, <1>10, <1>11, <1>12, Zenon
       DEF Next, Run2

\* The counting invariant holds in every reachable state.
THEOREM CountingInvariant == Spec => []Counting
<1>1. Counting /\ [Next]_vars => Counting'
  BY NextCounting, Zenon
<1>. QED BY <1>1, InitCounting, PTL DEF Spec

\* The counters never underflow and count every thread, no notification is lost
\* to a timeout or a spurious wakeup, and the pool respects its cap.
THEOREM CountersCorrect == Spec => []CountersSound
BY CountingInvariant, PTL DEF Counting, CountersSound

\* A queued task always has a thread on its way to it.
THEOREM TasksNotStranded == Spec => []NoStrandedTask
BY CountingInvariant, PTL DEF Counting

\* The drop never waits for a thread that is asleep.
THEOREM ShutdownWakesEverybody == Spec => []NobodySleepsThroughShutdown
BY CountingInvariant, PTL DEF Counting
-----------------------------------------------------------------------------
(***************************************************************************)
(* The pool implements TaskService.                                        *)
(***************************************************************************)
\* The stages in which a thread has a task that it took from the queue.
Holding == {"running", "draining"}

\* Where the tasks are.  A queued task was accepted and is queued once; a
\* thread's task is nobody else's and no longer queued; it runs, or it was
\* accepted and is being shut down.
TasksPlaced ==
  /\ \A i \in 1..Len(queue) : status[queue[i]] = "accepted"
  /\ \A i, j \in 1..Len(queue) : queue[i] = queue[j] => i = j
  /\ \A t \in Threads : pc[t] \in Holding =>
       /\ task[t] \in Tasks
       /\ status[task[t]] = IF pc[t] = "running" THEN "running" ELSE "accepted"
       /\ \A i \in 1..Len(queue) : queue[i] # task[t]
  /\ \A t, u \in Threads :
       pc[t] \in Holding /\ pc[u] \in Holding /\ task[t] = task[u] => t = u

\* The queue's front and what is left when it is taken.
LEMMA FrontOfQueue ==
  ASSUME TypeOK, queue # <<>>
  PROVE  /\ Len(queue) \in Nat /\ 1 \in 1..Len(queue) /\ Head(queue) = queue[1]
         /\ Head(queue) \in Tasks
         /\ \A i \in 1..Len(Tail(queue)) :
              i + 1 \in 1..Len(queue) /\ i + 1 # 1 /\ Tail(queue)[i] = queue[i + 1]
BY DEF TypeOK

\* A step in which no thread takes a task or lets one go.
LEMMA QuietPlaced ==
  ASSUME TasksPlaced, UNCHANGED <<queue, task, status>>,
         \A t \in Threads : pc'[t] \in Holding => pc'[t] = pc[t]
  PROVE  TasksPlaced'
BY Zenon DEF TasksPlaced

\* A task is shut down unqueued.
LEMMA RefusedPlaced ==
  ASSUME TypeOK, TasksPlaced, UNCHANGED <<queue, task, pc>>, NEW k \in Tasks,
         status[k] = "new", status' = [status EXCEPT ![k] = "cancelled"]
  PROVE  TasksPlaced'
<1>1. \A m \in Tasks : status[m] # "new" => status'[m] = status[m]
  BY Zenon DEF TypeOK
<1>2. \A i \in 1..Len(queue) : queue[i] \in Tasks
  BY DEF TypeOK
<1>. QED BY <1>1, <1>2 DEF TasksPlaced

\* A task is queued.
LEMMA AcceptedPlaced ==
  ASSUME TypeOK, TasksPlaced, NEW k \in Tasks, Enqueue(k), UNCHANGED task,
         \A t \in Threads : pc'[t] \in Holding => pc'[t] = pc[t]
  PROVE  TasksPlaced'
<1>1. \A m \in Tasks : status[m] # "new" => status'[m] = status[m]
  BY Zenon DEF TypeOK, Enqueue
<1>2. \A i \in 1..Len(queue) : queue[i] \in Tasks /\ queue[i] # k
  BY DEF TypeOK, TasksPlaced, Enqueue
<1>3. /\ Len(queue) \in Nat /\ Len(queue') = Len(queue) + 1
      /\ \A i \in 1..Len(queue) : queue'[i] = queue[i]
      /\ queue'[Len(queue) + 1] = k /\ status'[k] = "accepted"
  BY DEF TypeOK, Enqueue
<1>4. \A i \in 1..Len(queue') : i \in 1..Len(queue) \/ i = Len(queue) + 1
  BY <1>3
<1>5. \A i \in 1..Len(queue') : status'[queue'[i]] = "accepted"
  BY <1>1, <1>2, <1>3, <1>4 DEF TasksPlaced
<1>6. \A i, j \in 1..Len(queue') : queue'[i] = queue'[j] => i = j
  BY <1>2, <1>3, <1>4 DEF TasksPlaced
<1>7. ASSUME NEW t \in Threads, pc'[t] \in Holding
      PROVE  /\ task'[t] \in Tasks
             /\ status'[task'[t]] = IF pc'[t] = "running" THEN "running" ELSE "accepted"
             /\ \A i \in 1..Len(queue') : queue'[i] # task'[t]
  <2>1. /\ pc'[t] = pc[t] /\ task'[t] = task[t] /\ task[t] \in Tasks /\ task[t] # k
        /\ status[task[t]] = IF pc[t] = "running" THEN "running" ELSE "accepted"
    BY <1>7, Zenon DEF TasksPlaced, Enqueue
  <2>. QED BY <1>1, <1>3, <1>4, <1>7, <2>1 DEF TasksPlaced
<1>. QED BY <1>5, <1>6, <1>7, Zenon DEF TasksPlaced

\* A thread is past its task, which is settled, or had none.
LEMMA LetGoPlaced ==
  ASSUME TypeOK, TasksPlaced, UNCHANGED queue, NEW t \in Threads, pc'[t] \notin Holding,
         \A u \in Threads \ {t} : task'[u] = task[u] /\ pc'[u] = pc[u],
         \A k \in Tasks : status'[k] # status[k] => pc[t] \in Holding /\ k = task[t]
  PROVE  TasksPlaced'
<1>1. \A i \in 1..Len(queue) : queue[i] \in Tasks
  BY DEF TypeOK
<1>2. \A i \in 1..Len(queue) : status'[queue[i]] = status[queue[i]]
  BY <1>1 DEF TasksPlaced
<1>3. \A u \in Threads : pc'[u] \in Holding => status'[task[u]] = status[task[u]]
  BY Zenon DEF TasksPlaced
<1>. QED BY <1>2, <1>3 DEF TasksPlaced

\* A thread takes the task at the front, to run it or to shut it down.
LEMMA TakenPlaced ==
  ASSUME TypeOK, TasksPlaced, queue # <<>>, queue' = Tail(queue), NEW t \in Threads,
         \A u \in Threads \ {t} : task'[u] = task[u] /\ pc'[u] = pc[u],
         pc'[t] \in Holding, task'[t] = Head(queue),
         status'[Head(queue)] = IF pc'[t] = "running" THEN "running" ELSE "accepted",
         \A k \in Tasks : status'[k] # status[k] =>
           k = Head(queue) \/ (pc[t] \in Holding /\ k = task[t])
  PROVE  TasksPlaced'
<1>1. /\ Head(queue) = queue[1] /\ Head(queue) \in Tasks /\ 1 \in 1..Len(queue)
      /\ \A i \in 1..Len(queue') : i + 1 \in 1..Len(queue) /\ i + 1 # 1
                                   /\ queue'[i] = queue[i + 1]
  BY FrontOfQueue, Zenon
<1>2. \A i \in 1..Len(queue) : queue[i] \in Tasks
  BY DEF TypeOK
<1>3. \A i \in 1..Len(queue') : queue'[i] # Head(queue) /\ status'[queue'[i]] = "accepted"
  BY <1>1, <1>2 DEF TasksPlaced
<1>4. ASSUME NEW i \in 1..Len(queue'), NEW j \in 1..Len(queue'), queue'[i] = queue'[j]
      PROVE  i = j
  <2>1. i + 1 = j + 1
    BY <1>1, <1>4 DEF TasksPlaced
  <2>. QED BY <2>1
<1>5. ASSUME NEW u \in Threads \ {t}, pc'[u] \in Holding
      PROVE  /\ task'[u] \in Tasks /\ task'[u] # Head(queue)
             /\ status'[task'[u]] = IF pc'[u] = "running" THEN "running" ELSE "accepted"
             /\ \A i \in 1..Len(queue') : queue'[i] # task'[u]
  <2>1. task[u] \in Tasks /\ task[u] # Head(queue) /\ task'[u] = task[u] /\ pc'[u] = pc[u]
    BY <1>1, <1>5 DEF TasksPlaced
  <2>2. status'[task[u]] = status[task[u]]
    BY <1>5, <2>1, Zenon DEF TasksPlaced
  <2>. QED BY <1>1, <1>5, <2>1, <2>2 DEF TasksPlaced
<1>6. ASSUME NEW u \in Threads, NEW w \in Threads, pc'[u] \in Holding, pc'[w] \in Holding,
             task'[u] = task'[w]
      PROVE  u = w
  <2>1. CASE u # t /\ w # t
    BY <1>6, <2>1, Zenon DEF TasksPlaced
  <2>2. CASE u = t \/ w = t
    BY <1>5, <1>6, <2>2, Zenon
  <2>. QED BY <2>1, <2>2, Zenon
<1>7. ASSUME NEW u \in Threads, pc'[u] \in Holding
      PROVE  /\ task'[u] \in Tasks
             /\ status'[task'[u]] = IF pc'[u] = "running" THEN "running" ELSE "accepted"
             /\ \A i \in 1..Len(queue') : queue'[i] # task'[u]
  BY <1>1, <1>3, <1>5, <1>7
<1>. QED BY <1>3, <1>4, <1>6, <1>7, Zenon DEF TasksPlaced

\* The drain loop takes the next task or leaves the pool.
LEMMA DrainPlaced ==
  ASSUME TypeOK, TasksPlaced, NEW t \in Threads, NEW idle, Drain(t, idle),
         \A k \in Tasks : status'[k] # status[k] => pc[t] \in Holding /\ k = task[t]
  PROVE  TasksPlaced'
<1>1. \A u \in Threads \ {t} : task'[u] = task[u] /\ pc'[u] = pc[u]
  BY Zenon DEF Drain, Exit, TypeOK
<1>2. CASE queue # <<>>
  <2>1. queue' = Tail(queue) /\ pc'[t] = "draining" /\ task'[t] = Head(queue)
    BY <1>2, Zenon DEF Drain, TypeOK
  <2>2. /\ Head(queue) \in Tasks /\ status[Head(queue)] = "accepted"
        /\ pc[t] \in Holding => Head(queue) # task[t]
    BY <1>2, FrontOfQueue DEF TasksPlaced
  <2>. QED BY <1>1, <1>2, <2>1, <2>2, TakenPlaced, Zenon DEF Holding
<1>3. CASE queue = <<>>
  <2>1. queue' = queue /\ pc'[t] = "exited"
    BY <1>3, Zenon DEF Drain, Exit, TypeOK
  <2>. QED BY <1>1, <2>1, LetGoPlaced, Zenon DEF Holding
<1>. QED BY <1>2, <1>3, Zenon

\* A thread that becomes idle lets go of its task, or takes one to shut it down.
LEMMA BecomeIdlePlaced ==
  ASSUME TypeOK, TasksPlaced, NEW t \in Threads, BecomeIdle(t), UNCHANGED status
  PROVE  TasksPlaced'
<1>1. CASE ~shutdown
  <2>1. /\ queue' = queue /\ pc'[t] = "waiting"
        /\ \A u \in Threads \ {t} : task'[u] = task[u] /\ pc'[u] = pc[u]
    BY <1>1, Zenon DEF BecomeIdle, TypeOK
  <2>. QED BY <2>1, LetGoPlaced, Zenon DEF Holding
<1>2. CASE shutdown
  BY <1>2, DrainPlaced, Zenon DEF BecomeIdle
<1>. QED BY <1>1, <1>2, Zenon

\* A turn of the busy loop moves one task at most.
LEMMA BusyLoopPlaced ==
  ASSUME TypeOK, TasksPlaced, NEW t \in Threads, BusyLoop(t)
  PROVE  TasksPlaced'
<1>1. CASE queue # <<>>
  <2>1. /\ queue' = Tail(queue) /\ pc'[t] = "running" /\ task'[t] = Head(queue)
        /\ \A u \in Threads \ {t} : task'[u] = task[u] /\ pc'[u] = pc[u]
        /\ status' = [status EXCEPT ![Head(queue)] = "running"]
    BY <1>1, Zenon DEF BusyLoop, TypeOK
  <2>2. /\ status'[Head(queue)] = "running"
        /\ \A k \in Tasks : status'[k] # status[k] => k = Head(queue)
    BY <1>1, <2>1, FrontOfQueue, Zenon DEF TypeOK
  <2>. QED BY <1>1, <2>1, <2>2, TakenPlaced, Zenon DEF Holding
<1>2. CASE queue = <<>>
  BY <1>2, BecomeIdlePlaced, Zenon DEF BusyLoop
<1>. QED BY <1>1, <1>2, Zenon

\* Every step keeps the tasks in their places.
LEMMA StepPlaced ==
  ASSUME TypeOK, TasksPlaced, [Next]_vars
  PROVE  TasksPlaced'
<1>1. ASSUME NEW k \in Tasks, ScheduleRefused(k) PROVE TasksPlaced'
  BY <1>1, RefusedPlaced, Zenon DEF ScheduleRefused, shared
<1>2. ASSUME NEW k \in Tasks, ScheduleAtCap(k) PROVE TasksPlaced'
  BY <1>2, AcceptedPlaced, Zenon DEF ScheduleAtCap
<1>3. ASSUME NEW k \in Tasks, NEW t \in Threads, ScheduleSpawn(k, t) PROVE TasksPlaced'
  <2>1. \A u \in Threads : pc'[u] \in Holding => pc'[u] = pc[u]
    BY <1>3, Zenon DEF ScheduleSpawn, Holding, TypeOK
  <2>. QED BY <1>3, <2>1, AcceptedPlaced, Zenon DEF ScheduleSpawn
<1>4. ASSUME NEW k \in Tasks, ScheduleNotify(k) PROVE TasksPlaced'
  <2>1. \A u \in Threads : pc'[u] \in Holding => pc'[u] = pc[u]
    BY <1>4, Zenon DEF ScheduleNotify, NotifyOne, In, At, Holding, TypeOK
  <2>. QED BY <1>4, <2>1, AcceptedPlaced, Zenon DEF ScheduleNotify
<1>5. ASSUME NEW t \in Threads,
             SpawnThread(t) \/ SpawnThreadFails(t) \/ SpuriousWakeup(t)
               \/ KeepAliveElapsed(t) \/ DropShutdownTx(t)
      PROVE  TasksPlaced'
  <2>1. \A u \in Threads : pc'[u] \in Holding => pc'[u] = pc[u]
    BY <1>5, Zenon DEF SpawnThread, SpawnThreadFails, SpuriousWakeup, KeepAliveElapsed,
         DropShutdownTx, Holding, TypeOK
  <2>2. UNCHANGED <<queue, task, status>>
    BY <1>5, Zenon DEF SpawnThread, SpawnThreadFails, SpuriousWakeup, KeepAliveElapsed,
         DropShutdownTx, shared
  <2>. QED BY <2>1, <2>2, QuietPlaced, Zenon
<1>6. ASSUME NEW t \in Threads, ThreadStart(t) PROVE TasksPlaced'
  BY <1>6, BusyLoopPlaced, Zenon DEF ThreadStart
<1>7. ASSUME NEW t \in Threads, RunTask(t) PROVE TasksPlaced'
  <2>1. /\ queue' = queue /\ pc[t] = "running" /\ pc'[t] = "ran"
        /\ \A u \in Threads \ {t} : task'[u] = task[u] /\ pc'[u] = pc[u]
        /\ \A k \in Tasks : status'[k] # status[k] => k = task[t]
    BY <1>7, Zenon DEF RunTask, shared, TypeOK
  <2>. QED BY <2>1, LetGoPlaced, Zenon DEF Holding
<1>8. ASSUME NEW t \in Threads, Relock(t) PROVE TasksPlaced'
  BY <1>8, BusyLoopPlaced, BecomeIdlePlaced, Zenon DEF Relock
<1>9. ASSUME NEW t \in Threads, WakeNotified(t) PROVE TasksPlaced'
  BY <1>9, BusyLoopPlaced, DrainPlaced, Zenon DEF WakeNotified
<1>10. ASSUME NEW t \in Threads, WakeUnnotified(t) PROVE TasksPlaced'
  <2>1. CASE shutdown
    BY <1>10, <2>1, DrainPlaced, Zenon DEF WakeUnnotified
  <2>2. CASE ~shutdown
    <3>1. /\ queue' = queue /\ status' = status /\ pc'[t] \in {"exited", "waiting"}
          /\ \A u \in Threads \ {t} : task'[u] = task[u] /\ pc'[u] = pc[u]
      BY <1>10, <2>2, Zenon DEF WakeUnnotified, Exit, TypeOK
    <3>. QED BY <3>1, LetGoPlaced, Zenon DEF Holding
  <2>. QED BY <2>1, <2>2, Zenon
<1>11. ASSUME NEW t \in Threads, TaskShutDown(t) PROVE TasksPlaced'
  <2>1. \A k \in Tasks : status'[k] # status[k] => pc[t] \in Holding /\ k = task[t]
    BY <1>11, Zenon DEF TaskShutDown, Holding, TypeOK
  <2>. QED BY <1>11, <2>1, DrainPlaced, Zenon DEF TaskShutDown
<1>12. CASE DropPool
  <2>1. \A u \in Threads : pc'[u] \in Holding => pc'[u] = pc[u]
    BY <1>12, Zenon DEF DropPool, Holding
  <2>. QED BY <1>12, <2>1, QuietPlaced, Zenon DEF DropPool
<1>13. CASE DropWaitReturns \/ Finished \/ UNCHANGED vars
  BY <1>13, QuietPlaced, Zenon DEF DropWaitReturns, Finished, vars, shared
<1>. QED
  BY <1>1, <1>2, <1>3, <1>4, <1>5, <1>6, <1>7, <1>8, <1>9, <1>10, <1>11, <1>12, <1>13, Zenon
       DEF Next, Schedule, Run2

\* No task is anywhere yet.
LEMMA InitPlaced == Init => TasksPlaced
BY DEF Init, TasksPlaced, Holding

\* The front of the queue is begun.
LEMMA BusyLoopServes ==
  ASSUME TypeOK, TasksPlaced, NEW t, BusyLoop(t), UNCHANGED shutdown
  PROVE  Service!Next \/ UNCHANGED Service!tsVars
<1>1. CASE queue # <<>>
  <2>1. Head(queue) \in Tasks /\ status[Head(queue)] = "accepted"
    BY <1>1, FrontOfQueue DEF TasksPlaced
  <2>2. Service!Begin(Head(queue))
    BY <1>1, <2>1, Zenon DEF BusyLoop, Service!Begin, Service!Move
  <2>. QED BY <2>1, <2>2, Zenon DEF Service!Next
<1>2. CASE queue = <<>>
  BY <1>2, Zenon DEF BusyLoop, Service!tsVars
<1>. QED BY <1>1, <1>2, Zenon

\* Every step of the pool is a step of the service, or none.
LEMMA StepServes ==
  ASSUME Counting, TasksPlaced, [Next]_vars
  PROVE  [Service!Next]_(Service!tsVars)
<1>. TypeOK
  BY Zenon DEF Counting
<1>1. ASSUME NEW k \in Tasks, ScheduleRefused(k) PROVE Service!Next
  <2>1. Service!Refuse(k)
    BY <1>1, Zenon DEF ScheduleRefused, shared, Service!Refuse, Service!Move
  <2>. QED BY <2>1, Zenon DEF Service!Next
<1>2. ASSUME NEW k \in Tasks, Enqueue(k), UNCHANGED shutdown PROVE Service!Next
  <2>1. Service!Accept(k)
    BY <1>2, Zenon DEF Enqueue, Service!Accept, Service!Move
  <2>. QED BY <2>1, Zenon DEF Service!Next
<1>3. ASSUME NEW k \in Tasks, Schedule(k) PROVE Service!Next
  BY <1>1, <1>2, <1>3, Zenon DEF Schedule, ScheduleAtCap, ScheduleSpawn, ScheduleNotify
<1>4. ASSUME NEW t \in Threads,
             SpawnThread(t) \/ SpawnThreadFails(t) \/ SpuriousWakeup(t)
               \/ KeepAliveElapsed(t) \/ DropShutdownTx(t) \/ WakeUnnotified(t)
      PROVE  UNCHANGED Service!tsVars
  BY <1>4 DEF SpawnThread, SpawnThreadFails, SpuriousWakeup, KeepAliveElapsed,
       DropShutdownTx, WakeUnnotified, shared, Service!tsVars
<1>5. ASSUME NEW t \in Threads, ThreadStart(t) \/ Relock(t) \/ WakeNotified(t)
      PROVE  [Service!Next]_(Service!tsVars)
  <2>1. CASE BusyLoop(t)
    BY <1>5, <2>1, BusyLoopServes, Zenon DEF ThreadStart, Relock, WakeNotified
  <2>2. CASE ~BusyLoop(t)
    BY <1>5, <2>2 DEF ThreadStart, Relock, WakeNotified, Service!tsVars
  <2>. QED BY <2>1, <2>2, Zenon
<1>6. ASSUME NEW t \in Threads, RunTask(t) PROVE Service!Next
  <2>1. task[t] \in Tasks /\ status[task[t]] = "running"
    BY <1>6, Zenon DEF RunTask, TasksPlaced, Holding
  <2>2. Service!Finish(task[t])
    BY <1>6, <2>1, Zenon DEF RunTask, shared, Service!Finish, Service!Move
  <2>. QED BY <2>1, <2>2, Zenon DEF Service!Next
<1>7. ASSUME NEW t \in Threads, TaskShutDown(t) PROVE Service!Next
  <2>1. task[t] \in Tasks /\ status[task[t]] = "accepted" /\ shutdown
    BY <1>7, Zenon DEF TaskShutDown, TasksPlaced, Holding, Counting, DrainsInShutdown
  <2>2. Service!GiveUp(task[t])
    BY <1>7, <2>1, Zenon DEF TaskShutDown, Service!GiveUp, Service!Move
  <2>. QED BY <2>1, <2>2, Zenon DEF Service!Next
<1>8. CASE DropPool
  <2>1. Service!Close
    BY <1>8, Zenon DEF DropPool, Counting, ShutdownIsDrop, Service!Close
  <2>. QED BY <2>1, Zenon DEF Service!Next
<1>9. CASE DropWaitReturns \/ Finished \/ UNCHANGED vars
  BY <1>9 DEF DropWaitReturns, Finished, vars, shared, Service!tsVars
<1>. QED
  BY <1>3, <1>4, <1>5, <1>6, <1>7, <1>8, <1>9, Zenon DEF Next, Run2

\* Whatever the threads, the counters and the shutdown do, each task is accepted
\* or refused, run once or shut down, as the service promises its callers.
THEOREM PoolImplementsTaskService == Spec => ImplementsTaskService
<1>1. Init => Service!Init
  BY Zenon DEF Init, Service!Init
<1>2. TasksPlaced /\ Counting /\ [Next]_vars => TasksPlaced'
  BY StepPlaced, Zenon DEF Counting
<1>3. TasksPlaced /\ Counting /\ [Next]_vars => [Service!Next]_(Service!tsVars)
  BY StepServes, Zenon
<1>. QED
  BY <1>1, <1>2, <1>3, InitPlaced, CountingInvariant, PTL DEF Spec, ImplementsTaskService,
       Service!Spec
=============================================================================
