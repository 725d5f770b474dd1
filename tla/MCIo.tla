-------------------------------- MODULE MCIo ---------------------------------
(***************************************************************************)
(* The I/O driver, the readiness queue, the timers, signals, files, I/O adapters *)
(* and the thread pool, one component per behaviour.                       *)
(***************************************************************************)
EXTENDS Integers, Sequences

Seek(from, off) == [from |-> from, off |-> off]
Anywhere == {Seek("start", 1), Seek("current", 1), Seek("end", 0)}
Bytes == {<<<<1, 10, 2>>, <<3, 10>>>>, <<<<>>, <<10, 10, 255>>>>}
Lines == {<<<<1, 13, 10, 2>>, <<10, 10, 3, 13>>>>, <<<<1, 255, 10>>, <<2, 10>>>>, <<<<>>, <<13, 10>>>>}

\* The component this behaviour is of, and its variables, in the order it declares them.
VARIABLES
  part, v1, v2, v3, v4, v5, v6, v7, v8, v9, v10, v11, v12, v13, v14, v15, v16, v17, v18,
  v19, v20, v21, v22, v23, v24

\* Two nodes, each set by a thread of its own.
\* Three threads that poll, one with a timeout.
Readiness == INSTANCE ReadinessQueue WITH
  Nodes <- {"a", "b"}, End <- "end", Sleep <- "sleep", Closed <- "closed", Null <- "null",
  Setters <- {"s1", "s2"}, Updaters <- {},
  NodeOf <- [t \in {"s1", "s2"} |-> IF t = "s1" THEN "a" ELSE "b"], Poller <- "poll",
  Tokens <- {1}, Opts <- {"edge"}, Attached <- {"a", "b"}, MaxSets <- 1, MaxUpdates <- 0,
  MaxPolls <- 2, MaxRoom <- 2, PollThreads <- {"t1", "t2", "t3"}, Timed <- {"t1"},
  head <- v1, tail <- v2, next <- v3, st <- v4, token <- v5, queue <- v6,
  update_lock <- v7, ref <- v8, freed <- v9, pipe <- v10, pc <- v11, obj <- v12,
  prev <- v13, calls <- v14, upd <- v15, after <- v16, wait <- v17, room <- v18,
  until <- v19, nx <- v20, closing <- v21, latest <- v22, owed <- v23, want <- v24,
  locked <- v1, waiters <- v2, mutex <- v3, sleeping <- v4, poll_pc <- v5, curr <- v6,
  inc <- v7, timeout <- v8, polls <- v9
\* One node, set by a thread while two others change its registration.
Reregistration == INSTANCE ReadinessQueue WITH
  Nodes <- {"a"}, End <- "end", Sleep <- "sleep", Closed <- "closed", Null <- "null",
  Setters <- {"s1"}, Updaters <- {"u1", "u2"},
  NodeOf <- [t \in {"s1", "u1", "u2"} |-> "a"], Poller <- "poll", Tokens <- {1, 2},
  Opts <- {"oneshot"}, Attached <- {}, MaxSets <- 1, MaxUpdates <- 1, MaxPolls <- 1,
  MaxRoom <- 1, PollThreads <- {}, Timed <- {},
  head <- v1, tail <- v2, next <- v3, st <- v4, token <- v5, queue <- v6,
  update_lock <- v7, ref <- v8, freed <- v9, pipe <- v10, pc <- v11, obj <- v12,
  prev <- v13, calls <- v14, upd <- v15, after <- v16, wait <- v17, room <- v18,
  until <- v19, nx <- v20, closing <- v21, latest <- v22, owed <- v23, want <- v24,
  locked <- v1, waiters <- v2, mutex <- v3, sleeping <- v4, poll_pc <- v5, curr <- v6,
  inc <- v7, timeout <- v8, polls <- v9
\* A reader of a socket, and of the one that takes over its slot.
\* Two threads on two pages of the slab.
\* A list of four nodes.
Driver == INSTANCE IoDriver WITH
  Tasks <- {"rd"}, GEN <- 2, MaxSockets <- 2, MaxEdges <- 2, Threads <- {"t1", "t2"},
  INITIAL_PAGE_SIZE <- 1, MAX_PAGES <- 2, GENERATIONS <- 7, NULL <- 99, MaxAlloc <- 3,
  Nodes <- {1, 2, 3, 4}, Nil <- 0,
  kernel <- v1, edge <- v2, armed <- v3, word <- v4, gen <- v5, waker <- v6, pc <- v7,
  cached <- v8, seen <- v9, woken <- v10, clearing <- v11, drv <- v12, ev <- v13,
  took <- v14, gone <- v15, sockets <- v16, edges <- v17, mutex <- v1, local <- v2,
  remote <- v3, next <- v4, generation <- v5, paged <- v6, slab_pc <- v7, page <- v8,
  addr <- v9, slab_seen <- v10, out <- v11, allocs <- v12, issued <- v13, reused <- v14,
  head <- v1, tail <- v2, prev <- v3, list_next <- v4, seq <- v5, returned <- v6
\* Three threads on one page.
Page == INSTANCE IoDriver WITH
  Tasks <- {}, GEN <- 2, MaxSockets <- 2, MaxEdges <- 2, Threads <- {"t1", "t2", "t3"},
  INITIAL_PAGE_SIZE <- 2, MAX_PAGES <- 1, GENERATIONS <- 7, NULL <- 99, MaxAlloc <- 2,
  Nodes <- {}, Nil <- 0,
  kernel <- v1, edge <- v2, armed <- v3, word <- v4, gen <- v5, waker <- v6, pc <- v7,
  cached <- v8, seen <- v9, woken <- v10, clearing <- v11, drv <- v12, ev <- v13,
  took <- v14, gone <- v15, sockets <- v16, edges <- v17, mutex <- v1, local <- v2,
  remote <- v3, next <- v4, generation <- v5, paged <- v6, slab_pc <- v7, page <- v8,
  addr <- v9, slab_seen <- v10, out <- v11, allocs <- v12, issued <- v13, reused <- v14,
  head <- v1, tail <- v2, prev <- v3, list_next <- v4, seq <- v5, returned <- v6
\* One delay that is reset.
Reset == INSTANCE Timer WITH
  LEVEL_MULT <- 2, NUM_LEVELS <- 2, Tasks <- {"x"}, Deadlines <- {0, 1, 3}, MaxTime <- 3,
  MaxResets <- 2, Nobody <- "nobody", Keys <- {}, MaxOps <- 4,
  now <- v1, wheel <- v2, elapsed <- v3, process <- v4, shut <- v5, gone <- v6,
  token <- v7, state <- v8, when_internal <- v9, queued <- v10, waker <- v11,
  deadline <- v12, resets <- v13, pc <- v14, seen <- v15, woken <- v16, dpc <- v17,
  list <- v18, held <- v19, expiration <- v20, until <- v21, dq_now <- v1, dq_wheel <- v2,
  expired <- v3, when <- v4, is_expired <- v5, delay <- v6, poll_state <- v7,
  panicked <- v8, delivered <- v9, ops <- v10
\* Two delays with one deadline.
Delays == INSTANCE Timer WITH
  LEVEL_MULT <- 2, NUM_LEVELS <- 2, Tasks <- {"x", "y"}, Deadlines <- {2}, MaxTime <- 2,
  MaxResets <- 0, Nobody <- "nobody", Keys <- {}, MaxOps <- 4,
  now <- v1, wheel <- v2, elapsed <- v3, process <- v4, shut <- v5, gone <- v6,
  token <- v7, state <- v8, when_internal <- v9, queued <- v10, waker <- v11,
  deadline <- v12, resets <- v13, pc <- v14, seen <- v15, woken <- v16, dpc <- v17,
  list <- v18, held <- v19, expiration <- v20, until <- v21, dq_now <- v1, dq_wheel <- v2,
  expired <- v3, when <- v4, is_expired <- v5, delay <- v6, poll_state <- v7,
  panicked <- v8, delivered <- v9, ops <- v10
\* A delay due now or beyond the wheel.
Far == INSTANCE Timer WITH
  LEVEL_MULT <- 2, NUM_LEVELS <- 2, Tasks <- {"x"}, Deadlines <- {0, 5}, MaxTime <- 0,
  MaxResets <- 1, Nobody <- "nobody", Keys <- {}, MaxOps <- 4,
  now <- v1, wheel <- v2, elapsed <- v3, process <- v4, shut <- v5, gone <- v6,
  token <- v7, state <- v8, when_internal <- v9, queued <- v10, waker <- v11,
  deadline <- v12, resets <- v13, pc <- v14, seen <- v15, woken <- v16, dpc <- v17,
  list <- v18, held <- v19, expiration <- v20, until <- v21, dq_now <- v1, dq_wheel <- v2,
  expired <- v3, when <- v4, is_expired <- v5, delay <- v6, poll_state <- v7,
  panicked <- v8, delivered <- v9, ops <- v10
\* Three keys.
DelayQueue == INSTANCE Timer WITH
  LEVEL_MULT <- 2, NUM_LEVELS <- 3, Tasks <- {"x"}, Deadlines <- {2}, MaxTime <- 5,
  MaxResets <- 2, Nobody <- {}, Keys <- {0, 1, 2}, MaxOps <- 4,
  now <- v1, wheel <- v2, elapsed <- v3, process <- v4, shut <- v5, gone <- v6,
  token <- v7, state <- v8, when_internal <- v9, queued <- v10, waker <- v11,
  deadline <- v12, resets <- v13, pc <- v14, seen <- v15, woken <- v16, dpc <- v17,
  list <- v18, held <- v19, expiration <- v20, until <- v21, dq_now <- v1, dq_wheel <- v2,
  expired <- v3, when <- v4, is_expired <- v5, delay <- v6, poll_state <- v7,
  panicked <- v8, delivered <- v9, ops <- v10
\* Two threads that register, unregister and raise two signals.
\* Two streams of one signal.
Hook == INSTANCE Signals WITH
  Threads <- {1, 2}, Signals <- {"s", "u"}, Chained <- {"s"}, MaxActions <- 2,
  MaxRaises <- 2, Streams <- {1, 2}, KindOf <- [s \in {1, 2} |-> "i"], PIPE <- 1,
  MaxSignals <- 2, MaxPolls <- 1, Drops <- TRUE,
  table <- v1, lock <- v2, next <- v3, os <- v4, pc <- v5, copy <- v6, want <- v7,
  mask <- v8, frame <- v9, live <- v10, raises <- v11, once <- v1, pending <- v2,
  recipients <- v3, driver_lock <- v4, pipe <- v5, handlers <- v6, shared <- v7,
  cache <- v8, chan <- v9, permit <- v10, closed <- v11, driver_pc <- v12, left <- v13,
  polls <- v14, signals <- v15, got <- v16, owed <- v17
\* A stream each of two signals.
Kinds == INSTANCE Signals WITH
  Threads <- {}, Signals <- {}, Chained <- {"s"}, MaxActions <- 2, MaxRaises <- 2,
  Streams <- {1, 2}, KindOf <- [s \in {1, 2} |-> IF s = 1 THEN "i" ELSE "h"], PIPE <- 1,
  MaxSignals <- 1, MaxPolls <- 1, Drops <- TRUE,
  table <- v1, lock <- v2, next <- v3, os <- v4, pc <- v5, copy <- v6, want <- v7,
  mask <- v8, frame <- v9, live <- v10, raises <- v11, once <- v1, pending <- v2,
  recipients <- v3, driver_lock <- v4, pipe <- v5, handlers <- v6, shared <- v7,
  cache <- v8, chan <- v9, permit <- v10, closed <- v11, driver_pc <- v12, left <- v13,
  polls <- v14, signals <- v15, got <- v16, owed <- v17
\* A file whose operations are dropped half way.
File == INSTANCE FsFile WITH
  Initial <- <<1, 2, 3>>, Reads <- {1}, Writes <- {<<7, 8>>}, Seeks <- Anywhere,
  Sizes <- {1, 4}, MAX_BUF <- 2, Fails <- {}, Syncs <- FALSE, Cancels <- TRUE, MaxOps <- 3,
  Kind <- {}, Input <- {},
  content <- v1, cur <- v2, state <- v3, buf <- v4, job <- v5, lwe <- v6, op <- v7,
  ops <- v8, lpos <- v9, holders <- v10, failed <- v11, told <- v12, panicked <- v13,
  got <- v14, rest <- v1, written <- v2, flushed <- v3, accepted <- v4, std_state <- v5,
  std_buf <- v6, std_job <- v7, need_flush <- v8, std_op <- v9, std_ops <- v10,
  delivered <- v11, lost <- v12, std_told <- v13, clean <- v14
\* A file that fails to read and to write.
Failing == INSTANCE FsFile WITH
  Initial <- <<1, 2, 3>>, Reads <- {1}, Writes <- {<<7, 8>>}, Seeks <- Anywhere,
  Sizes <- {4}, MAX_BUF <- 2, Fails <- {"write", "read"}, Syncs <- TRUE, Cancels <- FALSE,
  MaxOps <- 4, Kind <- {}, Input <- {},
  content <- v1, cur <- v2, state <- v3, buf <- v4, job <- v5, lwe <- v6, op <- v7,
  ops <- v8, lpos <- v9, holders <- v10, failed <- v11, told <- v12, panicked <- v13,
  got <- v14, rest <- v1, written <- v2, flushed <- v3, accepted <- v4, std_state <- v5,
  std_buf <- v6, std_job <- v7, need_flush <- v8, std_op <- v9, std_ops <- v10,
  delivered <- v11, lost <- v12, std_told <- v13, clean <- v14
\* Seeks from where a file is.
Sought == INSTANCE FsFile WITH
  Initial <- <<1, 2, 3>>, Reads <- {}, Writes <- {<<7, 8>>},
  Seeks <- {Seek("current", 0), Seek("current", 0 - 2)}, Sizes <- {}, MAX_BUF <- 2,
  Fails <- {}, Syncs <- FALSE, Cancels <- TRUE, MaxOps <- 3, Kind <- {}, Input <- {},
  content <- v1, cur <- v2, state <- v3, buf <- v4, job <- v5, lwe <- v6, op <- v7,
  ops <- v8, lpos <- v9, holders <- v10, failed <- v11, told <- v12, panicked <- v13,
  got <- v14, rest <- v1, written <- v2, flushed <- v3, accepted <- v4, std_state <- v5,
  std_buf <- v6, std_job <- v7, need_flush <- v8, std_op <- v9, std_ops <- v10,
  delivered <- v11, lost <- v12, std_told <- v13, clean <- v14
\* A blocking reader.
Stdin == INSTANCE FsFile WITH
  Initial <- {}, Reads <- {}, Writes <- {}, Seeks <- {}, Sizes <- {1, 3}, MAX_BUF <- 2,
  Fails <- TRUE, Syncs <- TRUE, Cancels <- TRUE, MaxOps <- 5, Kind <- "read",
  Input <- <<1, 2, 3, 4, 5>>,
  content <- v1, cur <- v2, state <- v3, buf <- v4, job <- v5, lwe <- v6, op <- v7,
  ops <- v8, lpos <- v9, holders <- v10, failed <- v11, told <- v12, panicked <- v13,
  got <- v14, rest <- v1, written <- v2, flushed <- v3, accepted <- v4, std_state <- v5,
  std_buf <- v6, std_job <- v7, need_flush <- v8, std_op <- v9, std_ops <- v10,
  delivered <- v11, lost <- v12, std_told <- v13, clean <- v14
\* A blocking writer.
Stdout == INSTANCE FsFile WITH
  Initial <- {}, Reads <- {}, Writes <- {}, Seeks <- {}, Sizes <- {1, 3}, MAX_BUF <- 2,
  Fails <- TRUE, Syncs <- TRUE, Cancels <- TRUE, MaxOps <- 4, Kind <- "write",
  Input <- <<1, 2, 3, 4, 5>>,
  content <- v1, cur <- v2, state <- v3, buf <- v4, job <- v5, lwe <- v6, op <- v7,
  ops <- v8, lpos <- v9, holders <- v10, failed <- v11, told <- v12, panicked <- v13,
  got <- v14, rest <- v1, written <- v2, flushed <- v3, accepted <- v4, std_state <- v5,
  std_buf <- v6, std_job <- v7, need_flush <- v8, std_op <- v9, std_ops <- v10,
  delivered <- v11, lost <- v12, std_told <- v13, clean <- v14
\* A buffered reader of a limited, chained one.
\* A buffered writer, and copy into it.
\* The two halves of a stream.
Buffered == INSTANCE IoAdapters WITH
  Stack <- "outer", Mode <- "plain", Inputs <- Bytes, Limits <- {4}, Sizes <- {0, 1, 3},
  CAP <- 2, MaxOps <- 3, COPY <- 2, Input <- <<1, 2, 3>>, MaxPolls <- 2,
  input <- v1, io <- v2, fut <- v3, own <- v4, taken <- v5, last <- v6, segs <- v7,
  ops <- v8, buf <- v1, written <- v2, sunk <- v3, flushed <- v4, shut <- v5,
  write_fut <- v6, src <- v7, accepted <- v8, write_last <- v9, write_ops <- v10,
  locked <- v1, pc <- v2, woken <- v3, ready <- v4, waits <- v5, result <- v6, polls <- v7,
  done <- v8, whole <- v9
\* A limited, chained reader of two buffered ones.
Limited == INSTANCE IoAdapters WITH
  Stack <- "inner", Mode <- "plain", Inputs <- Bytes, Limits <- {4}, Sizes <- {0, 1, 3},
  CAP <- 2, MaxOps <- 3, COPY <- 2, Input <- {}, MaxPolls <- 2,
  input <- v1, io <- v2, fut <- v3, own <- v4, taken <- v5, last <- v6, segs <- v7,
  ops <- v8, buf <- v1, written <- v2, sunk <- v3, flushed <- v4, shut <- v5,
  write_fut <- v6, src <- v7, accepted <- v8, write_last <- v9, write_ops <- v10,
  locked <- v1, pc <- v2, woken <- v3, ready <- v4, waits <- v5, result <- v6, polls <- v7,
  done <- v8, whole <- v9
\* A reader taken line by line.
AsLines == INSTANCE IoAdapters WITH
  Stack <- "outer", Mode <- "lines", Inputs <- Lines, Limits <- {5, 20},
  Sizes <- {0, 1, 3}, CAP <- 2, MaxOps <- 6, COPY <- 2, Input <- {}, MaxPolls <- 2,
  input <- v1, io <- v2, fut <- v3, own <- v4, taken <- v5, last <- v6, segs <- v7,
  ops <- v8, buf <- v1, written <- v2, sunk <- v3, flushed <- v4, shut <- v5,
  write_fut <- v6, src <- v7, accepted <- v8, write_last <- v9, write_ops <- v10,
  locked <- v1, pc <- v2, woken <- v3, ready <- v4, waits <- v5, result <- v6, polls <- v7,
  done <- v8, whole <- v9
\* A reader split at a delimiter.
AsSegments == INSTANCE IoAdapters WITH
  Stack <- "inner", Mode <- "split", Inputs <- Lines, Limits <- {5, 20},
  Sizes <- {0, 1, 3}, CAP <- 2, MaxOps <- 6, COPY <- 2, Input <- {}, MaxPolls <- 2,
  input <- v1, io <- v2, fut <- v3, own <- v4, taken <- v5, last <- v6, segs <- v7,
  ops <- v8, buf <- v1, written <- v2, sunk <- v3, flushed <- v4, shut <- v5,
  write_fut <- v6, src <- v7, accepted <- v8, write_last <- v9, write_ops <- v10,
  locked <- v1, pc <- v2, woken <- v3, ready <- v4, waits <- v5, result <- v6, polls <- v7,
  done <- v8, whole <- v9
\* A thread pool with two clients, one of which joins; a job may panic.
Workers == INSTANCE ThreadPool WITH
  Threads <- {1, 2, 3}, num_threads <- 2, Clients <- {11, 12},
  JobsOf <- [c \in {11, 12} |-> IF c = 11 THEN <<1>> ELSE <<3>>], Joining <- {11},
  Sizes <- {}, MaxPanics <- 1,
  queued_count <- v1, active_count <- v2, max_thread_count <- v3, panic_count <- v4,
  join_generation <- v5, jobs <- v6, receiver <- v7, empty_trigger <- v8, th <- v9,
  cl <- v10, done <- v11, future <- v12, sizes <- v13
\* A pool that grows.
Growing == INSTANCE ThreadPool WITH
  Threads <- {1, 2, 3}, num_threads <- 1, Clients <- {11},
  JobsOf <- [c \in {11} |-> <<1, 2>>], Joining <- {11}, Sizes <- {2}, MaxPanics <- 1,
  queued_count <- v1, active_count <- v2, max_thread_count <- v3, panic_count <- v4,
  join_generation <- v5, jobs <- v6, receiver <- v7, empty_trigger <- v8, th <- v9,
  cl <- v10, done <- v11, future <- v12, sizes <- v13
\* A pool that shrinks.
Shrinking == INSTANCE ThreadPool WITH
  Threads <- {1, 2, 3}, num_threads <- 2, Clients <- {11},
  JobsOf <- [c \in {11} |-> <<1, 2>>], Joining <- {11}, Sizes <- {1}, MaxPanics <- 0,
  queued_count <- v1, active_count <- v2, max_thread_count <- v3, panic_count <- v4,
  join_generation <- v5, jobs <- v6, receiver <- v7, empty_trigger <- v8, th <- v9,
  cl <- v10, done <- v11, future <- v12, sizes <- v13

\* The variables a component has no use for.
From22 == <<v22, v23, v24>>
Idle22 == v22 = 0 /\ v23 = 0 /\ v24 = 0
From18 == <<v18, v19, v20, v21, From22>>
Idle18 == v18 = 0 /\ v19 = 0 /\ v20 = 0 /\ v21 = 0 /\ Idle22
From15 == <<v15, v16, v17, From18>>
Idle15 == v15 = 0 /\ v16 = 0 /\ v17 = 0 /\ Idle18
From14 == <<v14, From15>>
Idle14 == v14 = 0 /\ Idle15
From12 == <<v12, v13, From14>>
Idle12 == v12 = 0 /\ v13 = 0 /\ Idle14
From11 == <<v11, From12>>
Idle11 == v11 = 0 /\ Idle12
From10 == <<v10, From11>>
Idle10 == v10 = 0 /\ Idle11
From9 == <<v9, From10>>
Idle9 == v9 = 0 /\ Idle10
From7 == <<v7, v8, From9>>
Idle7 == v7 = 0 /\ v8 = 0 /\ Idle9

FamilyInit ==
  \/ part = "readiness" /\ Readiness!Init
  \/ part = "poll" /\ Readiness!PollInit /\ Idle10
  \/ part = "registration" /\ Reregistration!Init
  \/ part = "driver" /\ Driver!Init /\ Idle18
  \/ part = "slab" /\ Driver!SlabInit /\ Idle15
  \/ part = "linked_list" /\ Driver!ListInit /\ Idle7
  \/ part = "page" /\ Page!SlabInit /\ Idle15
  \/ part = "reset" /\ Reset!Init /\ Idle22
  \/ part = "delays" /\ Delays!Init /\ Idle22
  \/ part = "far" /\ Far!Init /\ Idle22
  \/ part = "delayqueue" /\ DelayQueue!DqInit /\ Idle11
  \/ part = "signals" /\ Hook!Init /\ Idle12
  \/ part = "one_signal" /\ Hook!DriverInit /\ Idle18
  \/ part = "two_signals" /\ Kinds!DriverInit /\ Idle18
  \/ part = "file" /\ File!Init /\ Idle15
  \/ part = "failing" /\ Failing!Init /\ Idle15
  \/ part = "sought" /\ Sought!Init /\ Idle15
  \/ part = "stdin" /\ Stdin!StdInit /\ Idle15
  \/ part = "stdout" /\ Stdout!StdInit /\ Idle15
  \/ part = "buffered" /\ Buffered!Init /\ Idle9
  \/ part = "writer" /\ Buffered!WriteInit /\ Idle11
  \/ part = "split" /\ Buffered!SplitInit /\ Idle10
  \/ part = "limited" /\ Limited!Init /\ Idle9
  \/ part = "lines" /\ AsLines!Init /\ Idle9
  \/ part = "segments" /\ AsSegments!Init /\ Idle9
  \/ part = "workers" /\ Workers!Init /\ Idle14
  \/ part = "growing" /\ Growing!Init /\ Idle14
  \/ part = "shrinking" /\ Shrinking!Init /\ Idle14

ReadinessStep == part = "readiness" /\ Readiness!Next /\ UNCHANGED <<part>>
PollStep == part = "poll" /\ Readiness!PollNext /\ UNCHANGED <<part, From10>>
RegistrationStep == part = "registration" /\ Reregistration!Next /\ UNCHANGED <<part>>
DriverStep == part = "driver" /\ Driver!Next /\ UNCHANGED <<part, From18>>
SlabStep == part = "slab" /\ Driver!SlabNext /\ UNCHANGED <<part, From15>>
LinkedListStep == part = "linked_list" /\ Driver!ListNext /\ UNCHANGED <<part, From7>>
PageStep == part = "page" /\ Page!SlabNext /\ UNCHANGED <<part, From15>>
ResetStep == part = "reset" /\ Reset!Next /\ UNCHANGED <<part, From22>>
DelaysStep == part = "delays" /\ Delays!Next /\ UNCHANGED <<part, From22>>
FarStep == part = "far" /\ Far!Next /\ UNCHANGED <<part, From22>>
DelayqueueStep == part = "delayqueue" /\ DelayQueue!DqNext /\ UNCHANGED <<part, From11>>
SignalsStep == part = "signals" /\ Hook!Next /\ UNCHANGED <<part, From12>>
OneSignalStep == part = "one_signal" /\ Hook!DriverNext /\ UNCHANGED <<part, From18>>
TwoSignalsStep == part = "two_signals" /\ Kinds!DriverNext /\ UNCHANGED <<part, From18>>
FileStep == part = "file" /\ File!Next /\ UNCHANGED <<part, From15>>
FailingStep == part = "failing" /\ Failing!Next /\ UNCHANGED <<part, From15>>
SoughtStep == part = "sought" /\ Sought!Next /\ UNCHANGED <<part, From15>>
StdinStep == part = "stdin" /\ Stdin!StdNext /\ UNCHANGED <<part, From15>>
StdoutStep == part = "stdout" /\ Stdout!StdNext /\ UNCHANGED <<part, From15>>
BufferedStep == part = "buffered" /\ Buffered!Next /\ UNCHANGED <<part, From9>>
WriterStep == part = "writer" /\ Buffered!WriteNext /\ UNCHANGED <<part, From11>>
SplitStep == part = "split" /\ Buffered!SplitNext /\ UNCHANGED <<part, From10>>
LimitedStep == part = "limited" /\ Limited!Next /\ UNCHANGED <<part, From9>>
LinesStep == part = "lines" /\ AsLines!Next /\ UNCHANGED <<part, From9>>
SegmentsStep == part = "segments" /\ AsSegments!Next /\ UNCHANGED <<part, From9>>
WorkersStep == part = "workers" /\ Workers!Next /\ UNCHANGED <<part, From14>>
GrowingStep == part = "growing" /\ Growing!Next /\ UNCHANGED <<part, From14>>
ShrinkingStep == part = "shrinking" /\ Shrinking!Next /\ UNCHANGED <<part, From14>>
FamilyNext ==
  \/ ReadinessStep \/ PollStep \/ RegistrationStep \/ DriverStep \/ SlabStep
  \/ LinkedListStep \/ PageStep \/ ResetStep \/ DelaysStep \/ FarStep \/ DelayqueueStep
  \/ SignalsStep \/ OneSignalStep \/ TwoSignalsStep \/ FileStep \/ FailingStep
  \/ SoughtStep \/ StdinStep \/ StdoutStep \/ BufferedStep \/ WriterStep \/ SplitStep
  \/ LimitedStep \/ LinesStep \/ SegmentsStep \/ WorkersStep \/ GrowingStep
  \/ ShrinkingStep
familyVars == <<part, v1, v2, v3, v4, v5, v6, From7>>
FamilySpec == FamilyInit /\ [][FamilyNext]_familyVars
-----------------------------------------------------------------------------
\* A readiness that was set is queued, delivered or held by its owner, nodes outlive their users,
\* and a poll does not sleep on a queued node; of the threads that poll one holds the lock, and none
\* sleeps while it is free (ReadinessQueue).
ReadinessSound ==
  /\ part = "readiness" => Readiness!ReadinessSound
  /\ part = "registration" => Reregistration!ReadinessSound
  /\ part = "poll" => Readiness!PollLockSound
\* A task of a socket does not sleep on an edge the kernel reported, nor on one of the slot's
\* former socket (IoDriver).
IoSound ==
  /\ part = "driver" => Driver!IoSound
\* A slot has one owner, and a stale address never finds its successor; the links of the
\* intrusive list agree in both directions (IoDriver).
SlabSound ==
  /\ part = "slab" => Driver!SlabSound
  /\ part = "page" => Page!SlabSound
  /\ part = "linked_list" => Driver!LinkedListSound
\* No delay is early, lost or left asleep once the wheel has passed it (Timer).
TimersSound ==
  /\ part = "reset" => Reset!TimerSound
  /\ part = "delays" => Delays!TimerSound
  /\ part = "far" => Far!TimerSound
  /\ part = "delayqueue" => DelayQueue!DelayQueueSound
\* Every job runs once, the counters are those of the threads, and a joiner is woken when the
\* pool is idle (ThreadPool).
ThreadPoolSound ==
  /\ part = "workers" => Workers!ThreadPoolSound
  /\ part = "growing" => Growing!ThreadPoolSound
  /\ part = "shrinking" => Shrinking!ThreadPoolSound
=============================================================================
