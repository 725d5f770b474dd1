------------------------------ MODULE Channels -------------------------------
(* The channels between tasks: the multi-producer channel, the list of blocks*)
(* that holds its messages, and the channels of one thread.                 *)
EXTENDS Integers, Sequences, FiniteSets, SequencesExt

(***************************************************************************)
(* The multi-producer channel (src/krse/sync/mpsc/chan.rs, bounded.rs and  *)
(* unbounded.rs) over a list of slots (modelled further down) and a       *)
(* semaphore (Semaphore), whose operations are single steps here.          *)
(***************************************************************************)

CONSTANTS
  Senders,
  Capacity,   \* of the bounded channel
  MaxSend     \* bound: messages sent

VARIABLES
  bounded,              \* the flavour
  queue,                \* slots claimed and not popped: the sender, and the ready flag
  listClosed,           \* TX_CLOSED
  avail, waitq, semClosed,  \* the semaphore; unbounded: avail counts messages in flight
  permit,               \* Sender -> "none", "acquired", "waiting", "granted" or "closed"
  txs, stx, sasleep,    \* handles; where a sender is; senders that got Pending
  rxClosed, rrx, rxWaker, rasleep,  \* the receiver
  sent, extra           \* history: messages pushed; permits nobody had acquired

vars == <<bounded, queue, listClosed, avail, waitq, semClosed, permit, txs, stx, sasleep,
          rxClosed, rrx, rxWaker, rasleep, sent, extra>>
sem == <<avail, waitq, semClosed, extra>>
rx == <<rxClosed, rrx, rxWaker, rasleep>>

Init ==
  /\ bounded \in BOOLEAN
  /\ queue = <<>> /\ listClosed = FALSE /\ waitq = <<>> /\ semClosed = FALSE
  /\ avail = IF bounded THEN Capacity ELSE 0
  /\ permit = [s \in Senders |-> "none"] /\ sasleep = {}
  /\ \E s \in Senders : txs = {s}
  /\ stx = [s \in Senders |-> "idle"]
  /\ rxClosed = FALSE /\ rrx = "idle" /\ rxWaker = FALSE /\ rasleep = FALSE
  /\ sent = 0 /\ extra = 0

\* semaphore.is_idle of the two flavours.
is_idle == avail = IF bounded THEN Capacity ELSE 0

\* rx_waker.wake().
WakeRx == rxWaker' = FALSE /\ rasleep' = (rasleep /\ ~rxWaker)
-----------------------------------------------------------------------------
(* The semaphore of a bounded channel                                      *)

\* add_permits(1): the first waiter gets it.  A waiter that was dropped is skipped.
AddPermit(w, p) ==
  IF w = <<>> THEN /\ avail' = avail + 1 /\ waitq' = w /\ permit' = p /\ UNCHANGED sasleep
  ELSE /\ waitq' = Tail(w) /\ permit' = [p EXCEPT ![Head(w)] = "granted"]
       /\ sasleep' = sasleep \ {Head(w)} /\ UNCHANGED avail

\* poll_acquire for a permit that is not acquired.
PollReady(s) ==
  /\ bounded /\ s \in txs /\ stx[s] = "idle" /\ permit[s] # "acquired"
  /\ IF permit[s] = "closed" \/ (permit[s] = "none" /\ semClosed)
     THEN UNCHANGED <<avail, waitq, permit, sasleep>>
     ELSE IF permit[s] = "granted"
     THEN permit' = [permit EXCEPT ![s] = "acquired"] /\ UNCHANGED <<avail, waitq, sasleep>>
     ELSE IF permit[s] = "none" /\ avail > 0
     THEN /\ permit' = [permit EXCEPT ![s] = "acquired"] /\ avail' = avail - 1
          /\ UNCHANGED <<waitq, sasleep>>
     ELSE /\ permit' = [permit EXCEPT ![s] = "waiting"] /\ sasleep' = sasleep \cup {s}
          /\ waitq' = IF permit[s] = "none" THEN Append(waitq, s) ELSE waitq
          /\ UNCHANGED avail
  /\ UNCHANGED <<bounded, queue, listClosed, semClosed, txs, stx, rx, sent, extra>>

\* try_acquire of the two flavours, then the slot is claimed by push.
TrySend(s) ==
  /\ s \in txs /\ stx[s] = "idle" /\ sent < MaxSend
  /\ IF bounded
     THEN /\ \/ permit[s] \in {"acquired", "granted"} /\ UNCHANGED avail
             \/ permit[s] = "none" /\ ~semClosed /\ avail > 0 /\ avail' = avail - 1
          /\ permit' = [permit EXCEPT ![s] = "acquired"]
     ELSE ~semClosed /\ avail' = avail + 1 /\ UNCHANGED permit
  /\ stx' = [stx EXCEPT ![s] = "push"]
  /\ UNCHANGED <<bounded, queue, listClosed, waitq, semClosed, txs, sasleep, rx, sent, extra>>

ClaimSlot(s) ==
  /\ stx[s] = "push" /\ queue' = Append(queue, [from |-> s, ready |-> FALSE])
  /\ sent' = sent + 1 /\ stx' = [stx EXCEPT ![s] = "ready"]
  /\ UNCHANGED <<bounded, listClosed, sem, permit, txs, sasleep, rx>>

SetReady(s) ==
  /\ stx[s] = "ready" /\ stx' = [stx EXCEPT ![s] = "wake"]
  /\ queue' = [i \in DOMAIN queue |-> IF queue[i].from = s THEN [queue[i] EXCEPT !.ready = TRUE]
                                      ELSE queue[i]]
  /\ UNCHANGED <<bounded, listClosed, sem, permit, txs, sasleep, rx, sent>>

\* rx_waker.wake(), and forget: the permit comes back when the value is read.
WakeForget(s) ==
  /\ stx[s] = "wake" /\ WakeRx /\ stx' = [stx EXCEPT ![s] = "idle"]
  /\ permit' = [permit EXCEPT ![s] = "none"]
  /\ UNCHANGED <<bounded, queue, listClosed, sem, txs, sasleep, rxClosed, rrx, sent>>

CloneTx(s) ==
  /\ txs # {} /\ s \notin txs /\ stx[s] = "idle" /\ txs' = txs \cup {s}
  /\ UNCHANGED <<bounded, queue, listClosed, sem, permit, stx, sasleep, rx, sent>>

\* Drop of a handle.  release of a waiting permit takes what the waiter was given:
\* a closed waiter has none left to acquire, as if all had been given to it.
DropTx(s) ==
  /\ s \in txs /\ stx[s] = "idle" /\ txs' = txs \ {s}
  /\ LET p == [permit EXCEPT ![s] = "none"]
         w == SelectSeq(waitq, LAMBDA x : x # s)
     IN  IF permit[s] \in {"acquired", "granted", "closed"}
         THEN AddPermit(w, p)
         ELSE waitq' = w /\ permit' = p /\ sasleep' = sasleep \ {s} /\ UNCHANGED avail
  /\ extra' = IF permit[s] = "closed" THEN extra + 1 ELSE extra
  /\ stx' = [stx EXCEPT ![s] = IF txs = {s} THEN "close" ELSE "gone"]
  /\ UNCHANGED <<bounded, queue, listClosed, semClosed, rx, sent>>

CloseList(s) ==
  /\ stx[s] = "close" /\ listClosed' = TRUE /\ stx' = [stx EXCEPT ![s] = "closeWake"]
  /\ UNCHANGED <<bounded, queue, sem, permit, txs, sasleep, rx, sent>>

CloseWake(s) ==
  /\ stx[s] = "closeWake" /\ WakeRx /\ stx' = [stx EXCEPT ![s] = "gone"]
  /\ UNCHANGED <<bounded, queue, listClosed, sem, permit, txs, sasleep, rxClosed, rrx, sent>>
-----------------------------------------------------------------------------
(* The receiver                                                            *)

Popped == queue # <<>> /\ Head(queue).ready
tx == <<txs, stx, sent, extra>>

\* add_permit of the two flavours.
TakeValue ==
  /\ Popped /\ queue' = Tail(queue)
  /\ IF bounded THEN AddPermit(waitq, permit)
     ELSE avail' = avail - 1 /\ UNCHANGED <<waitq, permit, sasleep>>

\* recv looks, registers its waker and looks again.
RecvLook ==
  /\ rrx \in {"idle", "again"}
  /\ IF Popped THEN TakeValue /\ rrx' = "idle" /\ UNCHANGED rasleep
     ELSE /\ rrx' = IF listClosed THEN "end" ELSE IF rrx = "idle" THEN "register"
                    ELSE IF rxClosed /\ is_idle THEN "end" ELSE "idle"
          /\ rasleep' = (rrx' = "idle" /\ rxWaker)
          /\ UNCHANGED <<queue, avail, waitq, permit, sasleep>>
  /\ UNCHANGED <<bounded, listClosed, semClosed, rxClosed, rxWaker, tx>>

RecvRegister ==
  /\ rrx = "register" /\ rxWaker' = TRUE /\ rrx' = "again"
  /\ UNCHANGED <<bounded, queue, listClosed, sem, permit, sasleep, tx, rxClosed, rasleep>>

\* close of the semaphore: every waiter is closed and woken.
CloseRx(l) ==
  /\ semClosed' = TRUE /\ rxClosed' = TRUE
  /\ permit' = [s \in Senders |-> IF s \in Range(waitq) THEN "closed" ELSE permit[s]]
  /\ sasleep' = sasleep \ Range(waitq) /\ waitq' = <<>>
  /\ rrx' = l /\ UNCHANGED <<bounded, queue, listClosed, avail, tx, rxWaker, rasleep>>

Close == rrx = "idle" /\ ~rxClosed /\ CloseRx("idle")
DropRx == rrx \in {"idle", "end"} /\ CloseRx("drain")

\* Rx::drop pops what is there.
Drain ==
  /\ rrx = "drain"
  /\ IF Popped THEN TakeValue /\ UNCHANGED rrx
     ELSE rrx' = "dropped" /\ UNCHANGED <<queue, avail, waitq, permit, sasleep>>
  /\ UNCHANGED <<bounded, listClosed, semClosed, rxClosed, rxWaker, rasleep, tx>>

Sender(s) ==
  \/ PollReady(s) \/ TrySend(s) \/ ClaimSlot(s) \/ SetReady(s) \/ WakeForget(s)
  \/ CloneTx(s) \/ DropTx(s) \/ CloseList(s) \/ CloseWake(s)
Receiver == RecvLook \/ RecvRegister \/ Close \/ DropRx \/ Drain
Next == Receiver \/ \E s \in Senders : Sender(s)
Spec == Init /\ [][Next]_vars
-----------------------------------------------------------------------------
InFlight == Len(queue) + Cardinality({s \in Senders : stx[s] = "push"})
Holding == Cardinality({s \in Senders : permit[s] \in {"acquired", "granted"}
                                        /\ stx[s] \notin {"ready", "wake"}})

\* Permits and messages in flight add up, and neither the receiver nor a sender sleeps on
\* something that is there for it already.
ChanSound ==
  /\ avail >= 0
  /\ bounded => avail - extra + Len(queue) + Holding = Capacity
  /\ ~bounded => avail = InFlight
  /\ rasleep /\ rrx = "idle" => rxWaker \/ \E s \in Senders : stx[s] \in {"wake", "closeWake"}
  /\ rasleep /\ rrx = "idle" /\ (Popped \/ listClosed) =>
        \E s \in Senders : stx[s] \in {"wake", "closeWake"}
  /\ \A s \in sasleep : permit[s] = "waiting" /\ avail = 0 /\ ~semClosed

\* recv gives None only when no message is left or on its way - unless a closed waiter's
\* drop has added a permit that nobody had (extra).
EndMeansDrained ==
  rrx = "end" /\ extra = 0 => queue = <<>> /\ \A s \in Senders : stx[s] \notin {"push", "ready"}
MpscSound == ChanSound /\ EndMeansDrained

\* "assert!(self.inner.semaphore.is_idle())" (Rx::recv): a list whose senders are all gone
\* has every permit back.
AssertIdle == rrx = "end" /\ listClosed => is_idle

-----------------------------------------------------------------------------
(***************************************************************************)
(* The lock-free list of blocks under the multi-producer channel           *)
(* (src/krse/sync/mpsc/list.rs and block.rs): senders claim slots, walk,   *)
(* grow and release blocks; the receiver pops, and gives blocks back to    *)
(* the senders' end or frees them.  One step per atomic operation.         *)
(***************************************************************************)

CONSTANTS
  Blocks, Nil,
  BLOCK_CAP,    \* values per block
  REUSE_TRIES,  \* how far reclaim_block walks to reuse a block
  MaxPush       \* bound: values pushed

VARIABLES
  mem,       \* Block -> its fields, and whether it is unused, live or freed
  blockTail, tailPosition,  \* Tx
  head, index, freeHead,    \* Rx
  snd,       \* Sender -> where it is and its local variables
  rcv,       \* the same for the receiver
  txCount,   \* handles that were not dropped
  claimed,   \* history: the sender that claimed each slot
  out        \* history: the values popped

listVars == <<mem, blockTail, tailPosition, head, index, freeHead, snd, rcv, txCount,
              claimed, out>>

Slots == 0 .. BLOCK_CAP - 1
start_index(i) == i - (i % BLOCK_CAP)
offset(i) == i % BLOCK_CAP
Unused == [use |-> "unused", start |-> 0, next |-> Nil, ready |-> {}, values |-> <<>>,
           released |-> FALSE, txClosed |-> FALSE, observed |-> 0]
NewBlock(i) == [Unused EXCEPT !.use = "live", !.start = i, !.values = [o \in Slots |-> Nil]]
is_final(b) == mem[b].ready = Slots

First == CHOOSE b \in Blocks : TRUE
ListInit ==
  /\ mem = [b \in Blocks |-> IF b = First THEN NewBlock(0) ELSE Unused]
  /\ blockTail = First /\ tailPosition = 0 /\ head = First /\ index = 0 /\ freeHead = First
  /\ snd = [s \in Senders |-> [at |-> "idle", slot |-> 0, block |-> Nil, next |-> Nil,
                               own |-> Nil, curr |-> Nil, updating |-> FALSE, tail |-> 0,
                               closing |-> FALSE, pushed |-> 0]]
  /\ rcv = [at |-> "idle", block |-> Nil, curr |-> Nil, tries |-> 0, last |-> "none"]
  /\ txCount = Cardinality(Senders) /\ claimed = <<>> /\ out = <<>>

list_rx == <<head, index, freeHead, rcv, out>>
S(s) == snd[s]
-----------------------------------------------------------------------------
(* Tx: push and close                                                      *)

Claim(s, closing) ==
  /\ snd' = [snd EXCEPT ![s].at = "load", ![s].slot = tailPosition, ![s].closing = closing]
  /\ tailPosition' = tailPosition + 1

Push(s) ==
  /\ S(s).at = "idle" /\ tailPosition < MaxPush
  /\ Claim(s, FALSE)
  /\ claimed' = Append(claimed, <<s, S(s).pushed>>)
  /\ UNCHANGED <<mem, blockTail, list_rx, txCount>>

\* A handle is dropped; the last one closes the list.
ListDropTx(s) ==
  /\ S(s).at = "idle" /\ txCount' = txCount - 1
  /\ IF txCount = 1 THEN Claim(s, TRUE)
     ELSE snd' = [snd EXCEPT ![s].at = "gone"] /\ UNCHANGED tailPosition
  /\ UNCHANGED <<mem, blockTail, list_rx, claimed>>

\* find_block: is it this sender's job to advance block_tail?
LoadTail(s) ==
  /\ S(s).at = "load"
  /\ snd' = [snd EXCEPT ![s].at = "walk", ![s].block = blockTail,
               ![s].updating = (start_index(S(s).slot) - mem[blockTail].start) \div BLOCK_CAP
                                  > offset(S(s).slot)]
  /\ UNCHANGED <<mem, blockTail, tailPosition, list_rx, txCount, claimed>>

Walk(s) ==
  /\ S(s).at = "walk"
  /\ LET b == S(s).block IN
     snd' = IF mem[b].start = start_index(S(s).slot) THEN [snd EXCEPT ![s].at = "write"]
            ELSE IF mem[b].next = Nil THEN [snd EXCEPT ![s].at = "grow"]
            ELSE [snd EXCEPT ![s].at = "final", ![s].next = mem[b].next]
  /\ UNCHANGED <<mem, blockTail, tailPosition, list_rx, txCount, claimed>>

\* Block::grow: link a new block, or find the next one and link it further on.
Grow(s) ==
  /\ S(s).at = "grow"
  /\ LET b == S(s).block
         n == CHOOSE x \in Blocks : mem[x].use = "unused"
     IN  IF mem[b].next = Nil
         THEN /\ mem' = [mem EXCEPT ![n] = NewBlock(mem[b].start + BLOCK_CAP), ![b].next = n]
              /\ snd' = [snd EXCEPT ![s].at = "final", ![s].next = n]
         ELSE /\ mem' = [mem EXCEPT ![n] = NewBlock(mem[b].start + BLOCK_CAP)]
              /\ snd' = [snd EXCEPT ![s].at = "append", ![s].next = mem[b].next,
                                    ![s].own = n, ![s].curr = mem[b].next]
  /\ UNCHANGED <<blockTail, tailPosition, list_rx, txCount, claimed>>

\* try_push of block x after c.
TryPush(x, c) ==
  mem' = IF mem[c].next = Nil
         THEN [mem EXCEPT ![x].start = mem[c].start + BLOCK_CAP, ![c].next = x]
         ELSE [mem EXCEPT ![x].start = mem[c].start + BLOCK_CAP]

AppendGrown(s) ==
  /\ S(s).at = "append" /\ TryPush(S(s).own, S(s).curr)
  /\ snd' = IF mem[S(s).curr].next = Nil
            THEN [snd EXCEPT ![s].at = "final", ![s].own = Nil, ![s].curr = Nil]
            ELSE [snd EXCEPT ![s].curr = mem[S(s).curr].next]
  /\ UNCHANGED <<blockTail, tailPosition, list_rx, txCount, claimed>>

\* block_tail may pass final blocks only.
CheckFinal(s) ==
  /\ S(s).at = "final"
  /\ snd' = IF S(s).updating /\ is_final(S(s).block) THEN [snd EXCEPT ![s].at = "advance"]
            ELSE [snd EXCEPT ![s].at = "walk", ![s].updating = FALSE,
                             ![s].block = S(s).next, ![s].next = Nil]
  /\ UNCHANGED <<mem, blockTail, tailPosition, list_rx, txCount, claimed>>

AdvanceTail(s) ==
  /\ S(s).at = "advance"
  /\ IF blockTail = S(s).block
     THEN blockTail' = S(s).next /\ snd' = [snd EXCEPT ![s].at = "observe"]
     ELSE /\ snd' = [snd EXCEPT ![s].at = "walk", ![s].updating = FALSE,
                                ![s].block = S(s).next, ![s].next = Nil]
          /\ UNCHANGED blockTail
  /\ UNCHANGED <<mem, tailPosition, list_rx, txCount, claimed>>

Observe(s) ==
  /\ S(s).at = "observe"
  /\ snd' = [snd EXCEPT ![s].at = "release", ![s].tail = tailPosition]
  /\ UNCHANGED <<mem, blockTail, tailPosition, list_rx, txCount, claimed>>

tx_release(s) ==
  /\ S(s).at = "release"
  /\ mem' = [mem EXCEPT ![S(s).block].observed = S(s).tail, ![S(s).block].released = TRUE]
  /\ snd' = [snd EXCEPT ![s].at = "walk", ![s].block = S(s).next, ![s].next = Nil,
                        ![s].tail = 0]
  /\ UNCHANGED <<blockTail, tailPosition, list_rx, txCount, claimed>>

\* Block::write and set_ready; for the last handle tx_close.
Write(s) ==
  /\ S(s).at = "write"
  /\ LET b == S(s).block
         o == offset(S(s).slot)
     IN  mem' = IF S(s).closing THEN [mem EXCEPT ![b].txClosed = TRUE]
                ELSE [mem EXCEPT ![b].values[o] = <<s, S(s).pushed>>, ![b].ready = @ \cup {o}]
  /\ snd' = [snd EXCEPT ![s].at = IF S(s).closing THEN "gone" ELSE "idle", ![s].block = Nil,
                        ![s].slot = 0, ![s].updating = FALSE,
                        ![s].pushed = IF S(s).closing THEN @ ELSE @ + 1]
  /\ UNCHANGED <<blockTail, tailPosition, list_rx, txCount, claimed>>
-----------------------------------------------------------------------------
(* Rx: pop                                                                 *)

list_tx == <<blockTail, tailPosition, snd, txCount, claimed>>
R(l) == rcv.at = l

Pop ==
  /\ R("idle") /\ rcv.last # "closed" /\ rcv' = [rcv EXCEPT !.at = "head"]
  /\ UNCHANGED <<mem, list_tx, head, index, freeHead, out>>

try_advancing_head ==
  /\ R("head")
  /\ IF mem[head].start = start_index(index)
     THEN rcv' = [rcv EXCEPT !.at = "reclaim"] /\ UNCHANGED head
     ELSE IF mem[head].next = Nil
     THEN rcv' = [rcv EXCEPT !.at = "idle", !.last = "none"] /\ UNCHANGED head
     ELSE head' = mem[head].next /\ UNCHANGED rcv
  /\ UNCHANGED <<mem, list_tx, index, freeHead, out>>

\* Mutant: a released block goes at once, whoever still walks over it.
M_ReclaimableReleased(b) == mem[b].released

\* A block may go once it was released and everything up to its observed tail was read.
Reclaimable(b) == mem[b].released /\ mem[b].observed <= index

reclaim_blocks ==
  /\ R("reclaim")
  /\ IF freeHead = head \/ ~Reclaimable(freeHead)
     THEN rcv' = [rcv EXCEPT !.at = "read"] /\ UNCHANGED <<mem, freeHead>>
     ELSE /\ freeHead' = mem[freeHead].next
          /\ mem' = [mem EXCEPT ![freeHead] = [@ EXCEPT !.start = 0, !.next = Nil,
                       !.ready = {}, !.released = FALSE, !.txClosed = FALSE]]
          /\ rcv' = [rcv EXCEPT !.at = "reuse", !.block = freeHead, !.curr = Nil, !.tries = REUSE_TRIES]
  /\ UNCHANGED <<list_tx, head, index, out>>

\* reclaim_block: a few tries to append it, starting from block_tail.
Reuse ==
  /\ R("reuse")
  /\ IF rcv.curr = Nil THEN rcv' = [rcv EXCEPT !.curr = blockTail] /\ UNCHANGED mem
     ELSE IF rcv.tries = 0
     THEN /\ mem' = [mem EXCEPT ![rcv.block].use = "freed"]
          /\ rcv' = [rcv EXCEPT !.at = "reclaim", !.block = Nil, !.curr = Nil]
     ELSE /\ TryPush(rcv.block, rcv.curr)
          /\ rcv' = IF mem[rcv.curr].next = Nil
                    THEN [rcv EXCEPT !.at = "reclaim", !.block = Nil, !.curr = Nil, !.tries = 0]
                    ELSE [rcv EXCEPT !.curr = mem[rcv.curr].next, !.tries = @ - 1]
  /\ UNCHANGED <<list_tx, head, index, freeHead, out>>

Read ==
  /\ R("read")
  /\ IF offset(index) \in mem[head].ready
     THEN /\ out' = Append(out, mem[head].values[offset(index)]) /\ index' = index + 1
          /\ rcv' = [rcv EXCEPT !.at = "idle", !.last = "value"]
     ELSE /\ rcv' = [rcv EXCEPT !.at = "idle",
                                !.last = IF mem[head].txClosed THEN "closed" ELSE "none"]
          /\ UNCHANGED <<index, out>>
  /\ UNCHANGED <<mem, list_tx, head, freeHead>>

\* The blocks that free_blocks walks.
RECURSIVE After(_)
After(b) == IF b = Nil THEN {} ELSE {b} \cup After(mem[b].next)

\* Chan::drop, once every handle is gone and the queue was drained.
free_blocks ==
  /\ R("idle") /\ rcv.last = "closed" /\ \A s \in Senders : S(s).at = "gone"
  /\ mem' = [b \in Blocks |-> IF b \in After(freeHead) THEN [Unused EXCEPT !.use = "freed"]
                              ELSE mem[b]]
  /\ rcv' = [rcv EXCEPT !.at = "dropped"]
  /\ UNCHANGED <<list_tx, head, index, freeHead, out>>

Tx(s) ==
  \/ Push(s) \/ ListDropTx(s) \/ LoadTail(s) \/ Walk(s) \/ Grow(s) \/ AppendGrown(s)
  \/ CheckFinal(s) \/ AdvanceTail(s) \/ Observe(s) \/ tx_release(s) \/ Write(s)
Rx == Pop \/ try_advancing_head \/ reclaim_blocks \/ Reuse \/ Read \/ free_blocks
ListNext == Rx \/ \E s \in Senders : Tx(s)
ListSpec == ListInit /\ [][ListNext]_listVars
-----------------------------------------------------------------------------
\* A block that a thread is about to touch has not been freed, nor reused for slots
\* beyond the one the sender looks for.
BlocksSafe ==
  /\ \A s \in Senders : S(s).at \in {"walk", "grow", "append", "final", "advance",
                                     "observe", "release", "write"} =>
       /\ mem[S(s).block].use = "live" /\ S(s).block # rcv.block
       /\ mem[S(s).block].start <= start_index(S(s).slot)
       /\ S(s).at = "write" /\ ~S(s).closing =>
             mem[S(s).block].start = start_index(S(s).slot)
             /\ offset(S(s).slot) \notin mem[S(s).block].ready
  /\ rcv.at # "dropped" => \A b \in {blockTail, head, freeHead} : mem[b].use = "live"
  /\ \A b \in Blocks : mem[b].use = "live" /\ mem[b].next # Nil =>
       /\ mem[mem[b].next].use = "live"
       /\ mem[mem[b].next].start = mem[b].start + BLOCK_CAP
  /\ rcv.at = "dropped" => \A b \in Blocks : mem[b].use # "live"

\* Values come out in the order of their slots, none twice; closed means all were read.
Fifo ==
  /\ Len(out) <= Len(claimed) /\ out = SubSeq(claimed, 1, Len(out))
  /\ rcv.last = "closed" => txCount = 0 /\ out = claimed
ListSound == BlocksSafe /\ Fifo

-----------------------------------------------------------------------------
(***************************************************************************)
(* The channels of one thread (src/krse/sync/local): mpsc, oneshot and     *)
(* Condition, on LocalWaker (src/krse/task/task.rs).  A waker may be       *)
(* called while its task runs; the task is then polled again.              *)
(***************************************************************************)

CONSTANTS Waiters, MaxMsg  \* bound: messages sent on the mpsc channel

VARIABLES
  buffer, hasReceiver, blocked,   \* mpsc Shared; blocked: a waker is registered
  live, local_rx, local_sent, received,       \* Sender handles; the receiver's task; histories
  ovalue, otask, otx, orx,        \* oneshot: value, waker, the two halves
  slot, wt, notified              \* Condition: Slab entry and task of a waiter; history
mpscVars == <<buffer, hasReceiver, blocked, live, local_rx, local_sent, received>>
oneVars == <<ovalue, otask, otx, orx>>
condVars == <<slot, wt, notified>>
localVars == <<mpscVars, oneVars, condVars>>

LocalInit ==
  /\ buffer = <<>> /\ hasReceiver = TRUE /\ blocked = FALSE /\ live = Senders
  /\ local_rx = "run" /\ local_sent = 0 /\ received = 0
  /\ ovalue = FALSE /\ otask = FALSE /\ otx = "live" /\ orx = "run"
  /\ slot = [w \in Waiters |-> "empty"] /\ wt = [w \in Waiters |-> "run"] /\ notified = {}

\* LocalWaker::wake takes the waker; the task runs again.
Wake(registered, task) == IF registered /\ task = "asleep" THEN "run" ELSE task
-----------------------------------------------------------------------------
send(s) ==
  /\ s \in live /\ local_sent < MaxMsg
  /\ IF hasReceiver
     THEN /\ local_sent' = local_sent + 1 /\ buffer' = Append(buffer, local_sent')
          /\ blocked' = FALSE /\ local_rx' = Wake(blocked, local_rx)
     ELSE UNCHANGED <<local_sent, buffer, blocked, local_rx>>
  /\ UNCHANGED <<hasReceiver, live, received, oneVars, condVars>>

close(s) ==
  /\ s \in live /\ hasReceiver' = FALSE
  /\ UNCHANGED <<buffer, blocked, live, local_rx, local_sent, received, oneVars, condVars>>

\* Clone of a live Sender, or Receiver::sender.
clone(s) ==
  /\ s \notin live /\ (live # {} \/ local_rx \in {"run", "asleep"}) /\ live' = live \cup {s}
  /\ UNCHANGED <<buffer, hasReceiver, blocked, local_rx, local_sent, received, oneVars, condVars>>

\* strong_count is the senders and, while it lives, the receiver.
Count == Cardinality(live) + (IF local_rx = "gone" THEN 0 ELSE 1)
DropSender(s) ==
  /\ s \in live /\ live' = live \ {s}
  /\ IF hasReceiver /\ Count = 2 THEN blocked' = FALSE /\ local_rx' = Wake(blocked, local_rx)
     ELSE UNCHANGED <<blocked, local_rx>>
  /\ UNCHANGED <<buffer, hasReceiver, local_sent, received, oneVars, condVars>>

poll_next ==
  /\ local_rx = "run"
  /\ IF buffer # <<>>
     THEN received' = (IF Head(buffer) = received + 1 THEN received + 1 ELSE 0) /\ buffer' = Tail(buffer) /\ UNCHANGED <<blocked, local_rx>>
     ELSE /\ UNCHANGED <<buffer, received>>
          /\ IF Count = 1 THEN local_rx' = "end" /\ UNCHANGED blocked ELSE local_rx' = "asleep" /\ blocked' = TRUE
  /\ UNCHANGED <<hasReceiver, live, local_sent, oneVars, condVars>>

DropReceiver ==
  /\ local_rx # "gone" /\ local_rx' = "gone" /\ buffer' = <<>> /\ hasReceiver' = FALSE
  /\ UNCHANGED <<blocked, live, local_sent, received, oneVars, condVars>>
-----------------------------------------------------------------------------
\* oneshot: send consumes the sender, whose drop wakes once more.
OneSend ==
  /\ otx = "live" /\ otx' = "gone"
  /\ ovalue' = (orx \in {"run", "asleep"}) /\ otask' = (otask /\ orx = "gone")
  /\ orx' = Wake(otask, orx)
  /\ UNCHANGED <<mpscVars, condVars>>
OneDropTx ==
  /\ otx = "live" /\ otx' = "gone" /\ orx' = Wake(otask, orx)
  /\ otask' = (otask /\ orx = "gone") /\ UNCHANGED <<ovalue, mpscVars, condVars>>
OnePoll ==
  /\ orx = "run"
  /\ CASE ovalue -> orx' = "value" /\ ovalue' = FALSE /\ UNCHANGED otask
       [] ~ovalue /\ otx = "gone" -> orx' = "canceled" /\ UNCHANGED <<ovalue, otask>>
       [] OTHER -> orx' = "asleep" /\ otask' = TRUE /\ UNCHANGED ovalue
  /\ UNCHANGED <<otx, mpscVars, condVars>>
OneDropRx == orx \in {"run", "asleep"} /\ orx' = "gone" /\ UNCHANGED <<ovalue, otask, otx, mpscVars, condVars>>
-----------------------------------------------------------------------------
\* Condition: notify (and the drop of the Condition) wakes every waiter that was polled;
\* a waiter whose waker is gone when it is polled again is done.
notify ==
  /\ notified' = notified \cup {w \in Waiters : slot[w] = "waker"}
  /\ slot' = [w \in Waiters |-> IF slot[w] = "waker" THEN "taken" ELSE slot[w]]
  /\ wt' = [w \in Waiters |-> Wake(slot[w] = "waker", wt[w])]
  /\ UNCHANGED <<mpscVars, oneVars>>
PollWaiter(w) ==
  /\ wt[w] = "run"
  /\ CASE slot[w] \in {"empty", "waker"} -> wt' = [wt EXCEPT ![w] = "asleep"]
       [] OTHER -> wt' = [wt EXCEPT ![w] = "done"]
  /\ slot' = [slot EXCEPT ![w] = "waker"] /\ UNCHANGED <<notified, mpscVars, oneVars>>
Spurious(w) == wt[w] = "asleep" /\ wt' = [wt EXCEPT ![w] = "run"] /\ UNCHANGED <<slot, notified, mpscVars, oneVars>>

LocalNext ==
  \/ \E s \in Senders : send(s) \/ close(s) \/ clone(s) \/ DropSender(s)
  \/ poll_next \/ DropReceiver \/ OneSend \/ OneDropTx \/ OnePoll \/ OneDropRx \/ notify
  \/ \E w \in Waiters : PollWaiter(w) \/ Spurious(w)
LocalSpec == LocalInit /\ [][LocalNext]_localVars
-----------------------------------------------------------------------------
\* Messages arrive in order, the stream ends only when they have all arrived, and a
\* receiver sleeps only while a sender lives and the buffer is empty - unless close()
\* silenced the last drop.
LocalMpsc ==
  /\ received <= local_sent /\ (local_rx = "end" => received = local_sent /\ live = {})
  /\ local_rx = "asleep" => buffer = <<>> /\ blocked /\ (live # {} \/ ~hasReceiver)
\* A oneshot receiver sleeps only while the sender lives, and a value sent is received.
LocalOneshot ==
  /\ orx = "asleep" => otx = "live" /\ otask
  /\ orx = "canceled" => otx = "gone" /\ ~ovalue
\* A waiter is done exactly when a notify came after its first poll.
LocalCondition ==
  \A w \in Waiters : /\ wt[w] = "done" => w \in notified
                     /\ wt[w] = "asleep" /\ w \in notified => slot[w] = "waker"
\* None of the three loses a message or a wakeup.
LocalSound == LocalMpsc /\ LocalOneshot /\ LocalCondition
\* "Wake up receiver as its stream has ended" (Drop for Sender).
StreamEndIsHeard == local_rx = "asleep" => live # {}
=============================================================================
