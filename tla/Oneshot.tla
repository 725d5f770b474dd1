------------------------------ MODULE Oneshot ------------------------------
(***************************************************************************)
(* The one-shot channel (src/krse/sync/oneshot.rs), one step per atomic    *)
(* operation on the state word and per access to the three unsynchronized  *)
(* cells value, rx_task and tx_task.                                       *)
(***************************************************************************)
EXTENDS Naturals

CONSTANTS
  RxWakers,  \* wakers the Receiver is polled with
  TxWakers,  \* wakers poll_closed is called with
  NoWaker    \* an uninitialized or dropped waker

VARIABLES
  rxSet, sent, rxClosed, txSet,  \* RX_TASK_SET, VALUE_SENT, CLOSED, TX_TASK_SET
  valueCell,     \* the value cell is full
  rxTask, txTask,
  s, sw,         \* where the Sender is; the waker of its poll_closed
  r, rw,         \* where the Receiver is; the waker of its poll
  leaving,       \* the Receiver is being dropped
  sendResult,    \* "none", "dropped", "sending", "ok", "err" or "panic"
  recvResult,    \* "none", "value" or "closed"
  sleepers,      \* wakers whose task got Pending and was not woken since
  late           \* history: send was called after close had returned

\* Wakers of the two tasks differ.
ASSUME OneshotAssumption ==
  NoWaker \notin RxWakers \cup TxWakers /\ RxWakers \cap TxWakers = {}

oneshotFlags == <<rxSet, sent, rxClosed, txSet>>
sender == <<s, sw, sendResult, late>>
receiver == <<r, rw, leaving, recvResult>>
oneshotVars == <<oneshotFlags, valueCell, rxTask, txTask, sender, receiver, sleepers>>

OneshotInit ==
  /\ rxSet = FALSE /\ sent = FALSE /\ rxClosed = FALSE /\ txSet = FALSE
  /\ valueCell = FALSE /\ rxTask = NoWaker /\ txTask = NoWaker
  /\ s = "idle" /\ sw = NoWaker /\ r = "idle" /\ rw = NoWaker /\ leaving = FALSE
  /\ sendResult = "none" /\ recvResult = "none" /\ sleepers = {} /\ late = FALSE
-----------------------------------------------------------------------------
(* Sender                                                                  *)

\* send writes the value ...
Send ==
  /\ s = "idle" /\ valueCell' = TRUE /\ s' = "complete" /\ sendResult' = "sending"
  /\ late' = (rxClosed /\ r # "wakeTx")
  /\ UNCHANGED <<oneshotFlags, rxTask, txTask, sw, receiver, sleepers>>

SenderDrop ==
  /\ s = "idle" /\ s' = "complete" /\ sendResult' = "dropped"
  /\ UNCHANGED <<oneshotFlags, valueCell, rxTask, txTask, sw, late, receiver, sleepers>>

\* ... and complete sets VALUE_SENT and looks at what was set before.
Complete ==
  /\ s = "complete" /\ sent' = TRUE
  /\ s' = IF rxClosed THEN (IF sendResult = "sending" THEN "takeBack" ELSE "gone")
                    ELSE IF rxSet THEN "wakeRx" ELSE "gone"
  /\ sendResult' = IF sendResult = "sending" /\ ~rxClosed THEN "ok" ELSE sendResult
  /\ UNCHANGED <<rxSet, rxClosed, txSet, valueCell, rxTask, txTask, sw, late, receiver,
                 sleepers>>

WakeReceiver ==
  /\ s = "wakeRx" /\ s' = "gone" /\ sleepers' = sleepers \ {rxTask}
  /\ UNCHANGED <<oneshotFlags, valueCell, rxTask, txTask, sw, sendResult, late, receiver>>

\* The channel is closed: send returns the value, take().unwrap().
TakeBack ==
  /\ s = "takeBack" /\ s' = "gone" /\ valueCell' = FALSE
  /\ sendResult' = IF valueCell THEN "err" ELSE "panic"
  /\ UNCHANGED <<oneshotFlags, rxTask, txTask, sw, late, receiver, sleepers>>

\* poll_closed loads the state; only the Sender writes tx_task.
PollClosed(k) ==
  /\ s = "idle" /\ ~rxClosed /\ sw' = k
  /\ s' = IF ~txSet THEN "setTx" ELSE IF txTask # k THEN "unsetTx" ELSE "idle"
  /\ sleepers' = (sleepers \ TxWakers) \cup (IF txSet /\ txTask = k THEN {k} ELSE {})
  /\ UNCHANGED <<oneshotFlags, valueCell, rxTask, txTask, sendResult, late, receiver>>

UnsetTx ==
  /\ s = "unsetTx" /\ txSet' = FALSE /\ s' = IF rxClosed THEN "resetTx" ELSE "dropTx"
  /\ UNCHANGED <<rxSet, sent, rxClosed, valueCell, rxTask, txTask, sw, sendResult, late,
                 receiver, sleepers>>

ResetTx ==
  /\ s = "resetTx" /\ txSet' = TRUE /\ s' = "idle"
  /\ UNCHANGED <<rxSet, sent, rxClosed, valueCell, rxTask, txTask, sw, sendResult, late,
                 receiver, sleepers>>

DropTx ==
  /\ s = "dropTx" /\ txTask' = NoWaker /\ s' = "setTx"
  /\ UNCHANGED <<oneshotFlags, valueCell, rxTask, sw, sendResult, late, receiver, sleepers>>

SetTx ==
  /\ s = "setTx" /\ txTask' = sw /\ s' = "flagTx"
  /\ UNCHANGED <<oneshotFlags, valueCell, rxTask, sw, sendResult, late, receiver, sleepers>>

FlagTx ==
  /\ s = "flagTx" /\ txSet' = TRUE /\ s' = "idle"
  /\ sleepers' = IF rxClosed THEN sleepers ELSE sleepers \cup {sw}
  /\ UNCHANGED <<rxSet, sent, rxClosed, valueCell, rxTask, txTask, sw, sendResult, late,
                 receiver>>
-----------------------------------------------------------------------------
(* Receiver                                                                *)

\* An error leaves inner in place: the Receiver may be polled again.
RecvClosed == recvResult' = "closed" /\ r' = "idle"

\* poll_recv loads the state; only the Receiver writes rx_task.
PollRx(k) ==
  /\ r = "idle" /\ rw' = k
  /\ IF sent THEN r' = "consume" /\ UNCHANGED recvResult
     ELSE IF rxClosed THEN RecvClosed
     ELSE /\ r' = IF ~rxSet THEN "setRx"
                  ELSE IF rxTask # k THEN "unsetRx" ELSE "idle"
          /\ UNCHANGED recvResult
  /\ sleepers' = (sleepers \ RxWakers) \cup (IF r' = "idle" /\ ~rxClosed THEN {k} ELSE {})
  /\ UNCHANGED <<oneshotFlags, valueCell, rxTask, txTask, sender, leaving>>

\* Mutant: the waker is replaced although the Sender may be using it.
M_UnsetRxBlind ==
  /\ r = "unsetRx" /\ rxSet' = FALSE /\ r' = "dropRx"
  /\ UNCHANGED <<sent, rxClosed, txSet, valueCell, rxTask, txTask, sender, rw, leaving,
                 recvResult, sleepers>>

UnsetRx ==
  /\ r = "unsetRx" /\ rxSet' = FALSE /\ r' = IF sent THEN "resetRx" ELSE "dropRx"
  /\ UNCHANGED <<sent, rxClosed, txSet, valueCell, rxTask, txTask, sender, rw, leaving,
                 recvResult, sleepers>>

ResetRx ==
  /\ r = "resetRx" /\ rxSet' = TRUE /\ r' = "consume"
  /\ UNCHANGED <<sent, rxClosed, txSet, valueCell, rxTask, txTask, sender, rw, leaving,
                 recvResult, sleepers>>

DropRx ==
  /\ r = "dropRx" /\ rxTask' = NoWaker /\ r' = "setRx"
  /\ UNCHANGED <<oneshotFlags, valueCell, txTask, sender, rw, leaving, recvResult, sleepers>>

SetRx ==
  /\ r = "setRx" /\ rxTask' = rw /\ r' = "flagRx"
  /\ UNCHANGED <<oneshotFlags, valueCell, txTask, sender, rw, leaving, recvResult, sleepers>>

FlagRx ==
  /\ r = "flagRx" /\ rxSet' = TRUE /\ r' = IF sent THEN "consume" ELSE "idle"
  /\ sleepers' = IF sent THEN sleepers ELSE sleepers \cup {rw}
  /\ UNCHANGED <<sent, rxClosed, txSet, valueCell, rxTask, txTask, sender, rw, leaving,
                 recvResult>>

\* consume_value; with a value the Receiver gives up inner.
Consume ==
  /\ r = "consume" /\ valueCell' = FALSE
  /\ IF valueCell THEN recvResult' = "value" /\ r' = "gone" ELSE RecvClosed
  /\ UNCHANGED <<oneshotFlags, rxTask, txTask, sender, rw, leaving, sleepers>>

\* try_recv gives inner up in both cases, and keeps it when the channel is empty.
TryRecv ==
  /\ r = "idle" /\ (sent \/ rxClosed)
  /\ IF sent THEN r' = "tryConsume" /\ UNCHANGED recvResult
             ELSE r' = "gone" /\ recvResult' = "closed"
  /\ UNCHANGED <<oneshotFlags, valueCell, rxTask, txTask, sender, rw, leaving, sleepers>>

TryConsume ==
  /\ r = "tryConsume" /\ valueCell' = FALSE /\ r' = "gone"
  /\ recvResult' = IF valueCell THEN "value" ELSE "closed"
  /\ UNCHANGED <<oneshotFlags, rxTask, txTask, sender, rw, leaving, sleepers>>

\* close, and drop, which closes too.
Close(drop) ==
  /\ r = "idle" /\ rxClosed' = TRUE /\ leaving' = drop
  /\ r' = IF txSet /\ ~sent THEN "wakeTx" ELSE IF drop THEN "gone" ELSE "idle"
  /\ sleepers' = sleepers \ RxWakers
  /\ UNCHANGED <<rxSet, sent, txSet, valueCell, rxTask, txTask, sender, rw, recvResult>>

WakeTx ==
  /\ r = "wakeTx" /\ r' = IF leaving THEN "gone" ELSE "idle"
  /\ sleepers' = sleepers \ {txTask}
  /\ UNCHANGED <<oneshotFlags, valueCell, rxTask, txTask, sender, rw, leaving, recvResult>>
-----------------------------------------------------------------------------
\* Drop of Inner, with the last of the two handles.
DropInner ==
  /\ s = "gone" /\ r = "gone" /\ (rxSet \/ txSet)
  /\ rxSet' = FALSE /\ rxTask' = (IF rxSet THEN NoWaker ELSE rxTask)
  /\ txSet' = FALSE /\ txTask' = (IF txSet THEN NoWaker ELSE txTask)
  /\ UNCHANGED <<sent, rxClosed, valueCell, sender, receiver, sleepers>>

SenderStep ==
  Complete \/ WakeReceiver \/ TakeBack \/ UnsetTx \/ ResetTx \/ DropTx \/ SetTx \/ FlagTx
ReceiverStep ==
  UnsetRx \/ ResetRx \/ DropRx \/ SetRx \/ FlagRx \/ Consume \/ TryConsume \/ WakeTx

OneshotNext ==
  \/ Send \/ SenderDrop \/ SenderStep \/ ReceiverStep \/ DropInner \/ TryRecv
  \/ \E k \in TxWakers : PollClosed(k)
  \/ \E k \in RxWakers : PollRx(k)
  \/ \E drop \in BOOLEAN : Close(drop)

OneshotSpec == OneshotInit /\ [][OneshotNext]_oneshotVars

-----------------------------------------------------------------------------
OneshotTypeOK ==
  /\ rxSet \in BOOLEAN /\ sent \in BOOLEAN /\ rxClosed \in BOOLEAN /\ txSet \in BOOLEAN
  /\ valueCell \in BOOLEAN /\ leaving \in BOOLEAN /\ late \in BOOLEAN
  /\ rxTask \in RxWakers \cup {NoWaker} /\ txTask \in TxWakers \cup {NoWaker}
  /\ s \in {"idle", "complete", "wakeRx", "takeBack", "unsetTx", "resetTx", "dropTx",
            "setTx", "flagTx", "gone"}
  /\ r \in {"idle", "unsetRx", "resetRx", "dropRx", "setRx", "flagRx", "consume",
            "tryConsume", "wakeTx", "gone"}
  /\ sw \in TxWakers \cup {NoWaker} /\ rw \in RxWakers \cup {NoWaker}
  /\ sendResult \in {"none", "dropped", "sending", "ok", "err", "panic"}
  /\ recvResult \in {"none", "value", "closed"}
  /\ sleepers \subseteq RxWakers \cup TxWakers

(* The waker cells are MaybeUninit and unsynchronized: one side wakes what *)
(* the other has initialized and is not replacing at that moment.          *)
WakersExclusive ==
  /\ ~sent /\ s # "complete" => sendResult = "none"
  /\ s = "wakeRx" => rxTask # NoWaker /\ r \notin {"dropRx", "setRx"}
  /\ r = "wakeTx" => txTask # NoWaker /\ s \notin {"dropTx", "setTx"}

(* Every waker that was written is dropped, once: when both handles are    *)
(* gone the flags Inner::drop goes by say exactly which cells are full.    *)
WakersAccounted ==
  s = "gone" /\ r = "gone" =>
    (rxSet <=> rxTask # NoWaker) /\ (txSet <=> txTask # NoWaker)

(* The two waker cells are neither raced, leaked nor dropped twice.        *)
WakersSound == OneshotTypeOK /\ WakersExclusive /\ WakersAccounted

(* A task that was told Pending is woken: the Receiver's once the value is *)
(* sent or the Sender dropped, the Sender's once the channel is closed.    *)
WakeupsHeard ==
  /\ sent /\ r = "idle" /\ sleepers \cap RxWakers # {} => s = "wakeRx"
  /\ rxClosed /\ s = "idle" /\ sleepers \cap TxWakers # {} => r = "wakeTx"

(* The Receiver is told "closed" only if it closed the channel itself or   *)
(* the Sender was dropped without sending.                                 *)
ClosedIsTrue == recvResult = "closed" /\ ~rxClosed => sendResult = "dropped"

(* Wakers, wakeups and results of one channel together.                    *)
OneshotSound == WakersSound /\ WakeupsHeard /\ ClosedIsTrue

(* "Any send operation which happens after calling close is guaranteed to  *)
(* fail": the value is not received.                                       *)
SendAfterCloseFails == late => recvResult # "value"
=============================================================================
