------------------------------- MODULE MCSync --------------------------------
(***************************************************************************)
(* The synchronization primitives, one component per behaviour; the others *)
(* stay in an initial state.  A Sender and a Receiver of a oneshot that    *)
(* change their wakers; three futures and two notifiers; a thread that     *)
(* broadcasts on a watch channel to a receiver and its clone; three tasks  *)
(* at a barrier for two.                                                   *)
(***************************************************************************)
EXTENDS AtomicWaker, Oneshot, Notify, Integers, Sequences

CONSTANTS Nil, Closed

\* The component this behaviour is of, and its variables, in the order it declares them.
VARIABLES
  part, v1, v2, v3, v4, v5, v6, v7, v8, v9, v10, v11, v12, v13, v14, v15, v16, v17, v18,
  v19, v20, v21

\* A task that wants one permit and one that wants both, as a reader and a writer.
Semaphore == INSTANCE Semaphore WITH
  Owners <- {"p1", "p2"}, Stub <- "stub", Closer <- "closer", Nil <- "nil", Permits <- 2,
  Need <- [p \in {"p1", "p2"} |-> IF p = "p1" THEN 1 ELSE 2],
  MaxPolls <- [p \in {"p1", "p2"} |-> IF p = "p1" THEN 2 ELSE 1],
  tail <- v1, avail <- v2, closed <- v3, head <- v4, next <- v5, lockN <- v6, lockC <- v7,
  todo <- v8, queued <- v9, wclosed <- v10, dropped <- v11, waker <- v12, asleep <- v13,
  freed <- v14, kind <- v15, have <- v16, pc <- v17, seen <- v18, polls <- v19,
  forgotten <- v20, lk <- v21
\* Two senders over blocks of two values, and the channels of one thread.
List == INSTANCE Channels WITH
  Senders <- {"s1", "s2"}, Capacity <- 1, MaxSend <- 3,
  Blocks <- {"b1", "b2", "b3", "b4", "b5", "b6"}, Nil <- "nil", BLOCK_CAP <- 2,
  REUSE_TRIES <- 1, MaxPush <- 5, Waiters <- {"w1"}, MaxMsg <- 2,
  bounded <- v1, queue <- v2, listClosed <- v3, avail <- v4, waitq <- v5, semClosed <- v6,
  permit <- v7, txs <- v8, stx <- v9, sasleep <- v10, rxClosed <- v11, rrx <- v12,
  rxWaker <- v13, rasleep <- v14, sent <- v15, extra <- v16, mem <- v1, blockTail <- v2,
  tailPosition <- v3, head <- v4, index <- v5, freeHead <- v6, snd <- v7, rcv <- v8,
  txCount <- v9, claimed <- v10, out <- v11, buffer <- v1, hasReceiver <- v2,
  blocked <- v3, live <- v4, local_rx <- v5, local_sent <- v6, received <- v7,
  ovalue <- v8, otask <- v9, otx <- v10, orx <- v11, slot <- v12, wt <- v13,
  notified <- v14
\* Three senders on a channel of one message, and on an unbounded one.
Mpsc == INSTANCE Channels WITH
  Senders <- {"s1", "s2", "s3"}, Capacity <- 1, MaxSend <- 3, Blocks <- {}, BLOCK_CAP <- 2,
  REUSE_TRIES <- 1, MaxPush <- 5, Waiters <- {}, MaxMsg <- 2,
  bounded <- v1, queue <- v2, listClosed <- v3, avail <- v4, waitq <- v5, semClosed <- v6,
  permit <- v7, txs <- v8, stx <- v9, sasleep <- v10, rxClosed <- v11, rrx <- v12,
  rxWaker <- v13, rasleep <- v14, sent <- v15, extra <- v16, mem <- v1, blockTail <- v2,
  tailPosition <- v3, head <- v4, index <- v5, freeHead <- v6, snd <- v7, rcv <- v8,
  txCount <- v9, claimed <- v10, out <- v11, buffer <- v1, hasReceiver <- v2,
  blocked <- v3, live <- v4, local_rx <- v5, local_sent <- v6, received <- v7,
  ovalue <- v8, otask <- v9, otx <- v10, orx <- v11, slot <- v12, wt <- v13,
  notified <- v14
\* One sender and two receivers, one of them late, on one slot.
Broadcast == INSTANCE Broadcast WITH
  Senders <- {"s1"}, Receivers <- {"r1", "r2"}, Late <- {"r2"}, Capacity <- 1, MaxSend <- 3,
  pos <- v1, rxCnt <- v2, rem <- v3, lock <- v4, wpos <- v5, wval <- v6, numTx <- v7,
  stack <- v8, queued <- v9, rxWaker <- v10, sd <- v11, sp <- v12, sr <- v13, prev <- v14,
  walk <- v15, rv <- v16, nxt <- v17, until <- v18, asleep <- v19, got <- v20

\* The variables a component has no use for.
From21 == <<v21>>
Idle21 == v21 = 0
From17 == <<v17, v18, v19, v20, From21>>
Idle17 == v17 = 0 /\ v18 = 0 /\ v19 = 0 /\ v20 = 0 /\ Idle21
From15 == <<v15, v16, From17>>
Idle15 == v15 = 0 /\ v16 = 0 /\ Idle17
From12 == <<v12, v13, v14, From15>>
Idle12 == v12 = 0 /\ v13 = 0 /\ v14 = 0 /\ Idle15
From1 == <<v1, v2, v3, v4, v5, v6, v7, v8, v9, v10, v11, From12>>
Idle1 == v1 = 0 /\ v2 = 0 /\ v3 = 0 /\ v4 = 0 /\ v5 = 0 /\ v6 = 0 /\ v7 = 0 /\ v8 = 0 /\
          v9 = 0 /\ v10 = 0 /\ v11 = 0 /\ Idle12
waitVars == <<oneshotVars, notifyVars, watchVars, barrierVars>>
named == <<vars, waitVars>>

FamilyInit ==
  /\ Init /\ OneshotInit /\ NotifyInit /\ WatchInit /\ BarrierInit
  /\ \/ part \in {"waker", "oneshot", "notify", "watch", "barrier"} /\ Idle1
     \/ part = "semaphore" /\ Semaphore!Init
     \/ part = "list" /\ List!ListInit /\ Idle12
     \/ part = "mpsc" /\ Mpsc!Init /\ Idle17
     \/ part = "local" /\ List!LocalInit /\ Idle15
     \/ part = "broadcast" /\ Broadcast!Init /\ Idle21

WakerStep == part = "waker" /\ Next /\ UNCHANGED <<part, waitVars, From1>>
OneshotStep ==
  /\ part = "oneshot" /\ OneshotNext
  /\ UNCHANGED <<part, vars, notifyVars, watchVars, barrierVars, From1>>
NotifyStep ==
  /\ part = "notify" /\ NotifyNext
  /\ UNCHANGED <<part, vars, oneshotVars, watchVars, barrierVars, From1>>
WatchStep ==
  /\ part = "watch" /\ WatchNext
  /\ UNCHANGED <<part, vars, oneshotVars, notifyVars, barrierVars, From1>>
BarrierStep ==
  /\ part = "barrier" /\ BarrierNext
  /\ UNCHANGED <<part, vars, oneshotVars, notifyVars, watchVars, From1>>
SemaphoreStep == part = "semaphore" /\ Semaphore!Next /\ UNCHANGED <<part, named>>
ListStep == part = "list" /\ List!ListNext /\ UNCHANGED <<part, named, From12>>
MpscStep == part = "mpsc" /\ Mpsc!Next /\ UNCHANGED <<part, named, From17>>
LocalStep == part = "local" /\ List!LocalNext /\ UNCHANGED <<part, named, From15>>
BroadcastStep == part = "broadcast" /\ Broadcast!Next /\ UNCHANGED <<part, named, From21>>
FamilyNext ==
  \/ WakerStep \/ OneshotStep \/ SemaphoreStep \/ ListStep \/ MpscStep \/ LocalStep
  \/ NotifyStep \/ WatchStep \/ BarrierStep \/ BroadcastStep
familyVars == <<part, named, From1>>
FamilySpec == FamilyInit /\ [][FamilyNext]_familyVars
-----------------------------------------------------------------------------
\* Waiter nodes outlive their users, permits are conserved, nobody sleeps on a permit (Semaphore).
SemaphoreSound ==
  /\ part = "semaphore" => Semaphore!SemaphoreSound
\* Blocks are not used after they are freed or reused and values come out in order; permits and
\* messages add up, nobody sleeps on what is there, None means drained; local channels lose
\* neither messages nor wakeups (Channels).
ChannelsSound ==
  /\ part = "list" => List!ListSound
  /\ part = "mpsc" => Mpsc!MpscSound
  /\ part = "local" => List!LocalSound
=============================================================================
