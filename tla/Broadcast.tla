----------------------------- MODULE Broadcast ------------------------------
(***************************************************************************)
(* The broadcast channel (src/krse/sync/broadcast.rs): a ring of slots,    *)
(* each locked by an atomic word (odd: a sender; plus two for every        *)
(* reader), the tail under a mutex, a condition variable for senders that  *)
(* wait for readers, and a stack of waiting receivers.  A step is one      *)
(* operation on shared memory, or a critical section of the tail's mutex   *)
(* up to the wait on the condition variable.                               *)
(***************************************************************************)
EXTENDS Integers, Sequences, FiniteSets

CONSTANTS
  Senders, Receivers,   \* handles; the receivers in Late subscribe while the channel runs
  Late,
  Capacity,             \* slots, a power of two
  Nil, Closed,
  MaxSend               \* bound: messages, the closing one included

VARIABLES
  pos, rxCnt,           \* Tail
  rem, lock, wpos, wval,\* Slot: a value is the position it was sent at, Closed or Nil
  numTx,
  stack, queued, rxWaker, \* the wait stack; WaitNode.queued; WaitNode.waker
  sd, sp, sr, prev, walk, \* sender: where it is, its position, rem, prev, the stack it took
  rv, nxt, until,       \* receiver: where it is, Receiver::next, the end of its drop
  asleep, got           \* receivers asleep; history: the next position each still expects

tailVars == <<pos, rxCnt>>
slotVars == <<rem, lock, wpos, wval>>
waitVars == <<stack, queued, rxWaker>>
txVars == <<numTx, sd, sp, sr, prev, walk>>
rxVars == <<rv, nxt, until, asleep, got>>
vars == <<tailVars, slotVars, waitVars, txVars, rxVars>>
Slots == 0..(Capacity - 1)
idx(p) == p % Capacity

Init ==
  /\ pos = 0 /\ rxCnt = Cardinality(Receivers \ Late)
  /\ rem = [i \in Slots |-> 0] /\ lock = [i \in Slots |-> 0]
  /\ wpos = [i \in Slots |-> i - Capacity] /\ wval = [i \in Slots |-> Nil]
  /\ numTx = Cardinality(Senders)
  /\ stack = <<>> /\ queued = {} /\ rxWaker = {}
  /\ sd = [s \in Senders |-> "idle"] /\ sp = [s \in Senders |-> 0]
  /\ sr = [s \in Senders |-> 0] /\ prev = [s \in Senders |-> 0]
  /\ walk = [s \in Senders |-> <<>>]
  /\ rv = [r \in Receivers |-> IF r \in Late THEN "none" ELSE "idle"]
  /\ nxt = [r \in Receivers |-> 0] /\ until = [r \in Receivers |-> Nil]
  /\ asleep = {} /\ got = [r \in Receivers |-> 0]
-----------------------------------------------------------------------------
\* Sender.  Every step leaves the receivers' variables alone unless it wakes one.
Goto(s, l) == sd' = [sd EXCEPT ![s] = l]

\* send2 up to the first wait: reserve the position, take the slot's lock.
Reserve(s, value) ==
  IF rxCnt = 0 THEN Goto(s, IF value = Closed THEN "gone" ELSE "idle") /\ UNCHANGED <<pos, lock, sp, sr, prev>>
  ELSE /\ sp' = [sp EXCEPT ![s] = pos] /\ sr' = [sr EXCEPT ![s] = rxCnt] /\ pos' = pos + 1
       /\ prev' = [prev EXCEPT ![s] = lock[idx(pos)]]
       /\ lock' = [lock EXCEPT ![idx(pos)] = @ + 1]
       /\ Goto(s, IF lock[idx(pos)] \div 2 # 0 THEN "towait" ELSE "pos")

send(s) ==
  /\ sd[s] = "idle" /\ pos < MaxSend - 1
  /\ Reserve(s, "value") /\ UNCHANGED <<rxCnt, rem, wpos, wval, waitVars, numTx, walk, rxVars>>

\* Drop of a Sender: the last one sends the closing message.
DropSender(s) ==
  /\ sd[s] = "idle" /\ numTx' = numTx - 1
  /\ IF numTx = 1 THEN Reserve(s, Closed) ELSE Goto(s, "gone") /\ UNCHANGED <<pos, lock, sp, sr, prev>>
  /\ UNCHANGED <<rxCnt, rem, wpos, wval, waitVars, walk, rxVars>>

\* Condvar::wait: the mutex is released and the thread sleeps, in one step.
Wait(s) ==
  /\ sd[s] = "towait" /\ Goto(s, "wait")
  /\ UNCHANGED <<tailVars, slotVars, waitVars, numTx, sp, sr, prev, walk, rxVars>>

\* Woken by notify_one: look at the lock again.
Rewait(s) ==
  /\ sd[s] = "woken" /\ prev' = [prev EXCEPT ![s] = lock[idx(sp[s])]]
  /\ Goto(s, IF prev'[s] \div 2 # 0 THEN "towait" ELSE "pos")
  /\ UNCHANGED <<tailVars, slotVars, waitVars, numTx, sp, sr, walk, rxVars>>

WritePos(s) ==
  /\ sd[s] = "pos" /\ wpos' = [wpos EXCEPT ![idx(sp[s])] = sp[s]] /\ Goto(s, "val")
  /\ UNCHANGED <<tailVars, rem, lock, wval, waitVars, numTx, sp, sr, prev, walk, rxVars>>

WriteVal(s) ==
  /\ sd[s] = "val" /\ Goto(s, "rem")
  /\ wval' = [wval EXCEPT ![idx(sp[s])] = IF numTx = 0 THEN Closed ELSE sp[s]]
  /\ UNCHANGED <<tailVars, rem, lock, wpos, waitVars, numTx, sp, sr, prev, walk, rxVars>>

SetRem(s) ==
  /\ sd[s] = "rem" /\ rem' = [rem EXCEPT ![idx(sp[s])] = sr[s]] /\ Goto(s, "unlock")
  /\ UNCHANGED <<tailVars, lock, wpos, wval, waitVars, numTx, sp, sr, prev, walk, rxVars>>

Unlock(s) ==
  /\ sd[s] = "unlock" /\ lock' = [lock EXCEPT ![idx(sp[s])] = 0] /\ Goto(s, "notify")
  /\ UNCHANGED <<tailVars, rem, wpos, wval, waitVars, numTx, sp, sr, prev, walk, rxVars>>

\* notify_rx: take the stack, then for every node unset queued and wake.
TakeStack(s) ==
  /\ sd[s] = "notify" /\ walk' = [walk EXCEPT ![s] = stack] /\ stack' = <<>> /\ Goto(s, "walk")
  /\ UNCHANGED <<tailVars, slotVars, queued, rxWaker, numTx, sp, sr, prev, rxVars>>

Unqueue(s) ==
  /\ sd[s] = "walk"
  /\ IF walk[s] = <<>>
     THEN Goto(s, IF numTx = 0 THEN "gone" ELSE "idle") /\ UNCHANGED queued
     ELSE queued' = queued \ {Head(walk[s])} /\ Goto(s, "wake")
  /\ UNCHANGED <<tailVars, slotVars, stack, rxWaker, numTx, sp, sr, prev, walk, rxVars>>

WakeRx(s) ==
  /\ sd[s] = "wake" /\ Goto(s, "walk") /\ walk' = [walk EXCEPT ![s] = Tail(@)]
  /\ LET r == Head(walk[s]) IN
     /\ rxWaker' = rxWaker \ {r}
     /\ asleep' = IF r \in rxWaker THEN asleep \ {r} ELSE asleep
     /\ rv' = IF r \in rxWaker /\ rv[r] = "sleep" THEN [rv EXCEPT ![r] = "idle"] ELSE rv
  /\ UNCHANGED <<tailVars, slotVars, stack, queued, numTx, sp, sr, prev, nxt, until, got>>
-----------------------------------------------------------------------------
\* Receiver.  rv names the step; "2" marks the second try_recv of poll_recv.
To(r, l) == rv' = [rv EXCEPT ![r] = l]
Slot(r) == idx(nxt[r])
Dropping(r) == until[r] # Nil

subscribe(r) ==
  /\ rv[r] = "none" /\ numTx > 0
  /\ rxCnt' = rxCnt + 1 /\ nxt' = [nxt EXCEPT ![r] = pos] /\ got' = [got EXCEPT ![r] = pos]
  /\ To(r, "idle")
  /\ UNCHANGED <<pos, slotVars, waitVars, txVars, until, asleep>>

\* What recv_ref's Empty means to its caller.
OnEmpty(r, second) == IF second THEN "sleep" ELSE "register"

\* try_rx_lock: fails while the word is odd; a drop spins.
try_rx_lock(r, second) ==
  /\ rv[r] = IF second THEN "again" ELSE "idle"
  /\ Dropping(r) => nxt[r] # until[r]
  /\ IF lock[Slot(r)] % 2 = 1
     THEN ~Dropping(r) /\ To(r, OnEmpty(r, second)) /\ asleep' = (IF second /\ r \in rxWaker THEN asleep \cup {r} ELSE asleep)
          /\ UNCHANGED lock
     ELSE /\ lock' = [lock EXCEPT ![Slot(r)] = @ + 2] /\ UNCHANGED asleep
          /\ To(r, IF second THEN "read2" ELSE "read")
  /\ UNCHANGED <<tailVars, rem, wpos, wval, waitVars, txVars, nxt, until, got>>

\* The position in the slot is the one expected: take the value.
ReadMatch(r) ==
  /\ rv[r] \in {"read", "read2"} /\ wpos[Slot(r)] = nxt[r]
  /\ got' = [got EXCEPT ![r] = IF Dropping(r) THEN @ ELSE IF wval[Slot(r)] = @ THEN @ + 1 ELSE
                               IF wval[Slot(r)] = Closed /\ nxt[r] = @ THEN @ + 1 ELSE -1]
  /\ nxt' = [nxt EXCEPT ![r] = @ + 1] /\ To(r, "dec")
  /\ UNCHANGED <<tailVars, slotVars, waitVars, txVars, until, asleep>>

\* Wake a sender that waits, any of them: notify_one.
notify_one ==
  IF \E s \in Senders : sd[s] = "wait" THEN \E s \in Senders : sd[s] = "wait" /\ Goto(s, "woken") ELSE UNCHANGED sd
unlockSlot(i) ==
  /\ lock' = [lock EXCEPT ![i] = @ - 2]
  /\ IF lock[i] % 2 = 1 THEN notify_one ELSE UNCHANGED sd

\* Another position: empty, or the receiver lags.
ReadOther(r) ==
  /\ rv[r] \in {"read", "read2"} /\ wpos[Slot(r)] # nxt[r]
  /\ unlockSlot(Slot(r))
  /\ LET second == rv[r] = "read2"
         empty == wpos[Slot(r)] + Capacity = nxt[r]
     IN /\ To(r, IF ~empty THEN "lagged" ELSE IF Dropping(r) THEN "panic" ELSE OnEmpty(r, second))
        /\ asleep' = IF empty /\ second /\ r \in rxWaker THEN asleep \cup {r} ELSE asleep
  /\ UNCHANGED <<tailVars, rem, wpos, wval, waitVars, numTx, sp, sr, prev, walk, nxt, until, got>>

\* Lagged(missed): the cursor moves to the oldest value.
Lag(r) ==
  /\ rv[r] = "lagged" /\ nxt' = [nxt EXCEPT ![r] = pos - Capacity] /\ To(r, "idle")
  /\ got' = [got EXCEPT ![r] = IF Dropping(r) \/ @ = -1 THEN @ ELSE @ + (nxt'[r] - nxt[r])]
  /\ UNCHANGED <<tailVars, slotVars, waitVars, txVars, until, asleep>>


\* rx_unlock: the last receiver of a value drops it; then the lock.
DecRem(r) ==
  /\ rv[r] = "dec" /\ To(r, "unlock")
  /\ LET i == idx(nxt[r] - 1) IN
     /\ rem' = [rem EXCEPT ![i] = @ - 1]
     /\ wval' = IF rem[i] = 1 THEN [wval EXCEPT ![i] = Nil] ELSE wval
  /\ UNCHANGED <<tailVars, lock, wpos, waitVars, txVars, nxt, until, asleep, got>>

RxUnlock(r) ==
  /\ rv[r] = "unlock" /\ unlockSlot(idx(nxt[r] - 1)) /\ To(r, "idle")
  /\ UNCHANGED <<tailVars, rem, wpos, wval, waitVars, numTx, sp, sr, prev, walk, nxt, until, asleep, got>>

\* register_waker: the waker, then the flag, then the stack.
Register(r) ==
  /\ rv[r] = "register" /\ rxWaker' = rxWaker \cup {r} /\ To(r, "flag")
  /\ UNCHANGED <<tailVars, slotVars, stack, queued, txVars, nxt, until, asleep, got>>

Flag(r) ==
  /\ rv[r] = "flag" /\ queued' = queued \cup {r} /\ To(r, IF r \in queued THEN "again" ELSE "push")
  /\ UNCHANGED <<tailVars, slotVars, stack, rxWaker, txVars, nxt, until, asleep, got>>

Push(r) ==
  /\ rv[r] = "push" /\ stack' = <<r>> \o stack /\ To(r, "again")
  /\ UNCHANGED <<tailVars, slotVars, queued, rxWaker, txVars, nxt, until, asleep, got>>

\* The second try found nothing but the waker was called meanwhile: poll again.
Repoll(r) ==
  /\ rv[r] = "sleep" /\ r \notin asleep /\ To(r, "idle")
  /\ UNCHANGED <<tailVars, slotVars, waitVars, txVars, nxt, until, asleep, got>>

\* Drop of a Receiver: it no longer counts, and reads what was sent before.
DropReceiver(r) ==
  /\ rv[r] \in {"idle", "sleep"} /\ ~Dropping(r)
  /\ rxCnt' = rxCnt - 1 /\ until' = [until EXCEPT ![r] = pos] /\ To(r, "idle")
  /\ asleep' = asleep \ {r}
  /\ UNCHANGED <<pos, slotVars, waitVars, txVars, nxt, got>>

Next ==
  \/ \E s \in Senders : \/ send(s) \/ DropSender(s) \/ Wait(s) \/ Rewait(s) \/ WritePos(s) \/ WriteVal(s)
                        \/ SetRem(s) \/ Unlock(s) \/ TakeStack(s) \/ Unqueue(s) \/ WakeRx(s)
  \/ \E r \in Receivers : \/ subscribe(r) \/ \E b \in BOOLEAN : try_rx_lock(r, b)
                          \/ ReadMatch(r) \/ ReadOther(r) \/ Lag(r) \/ DecRem(r) \/ RxUnlock(r)
                          \/ Register(r) \/ Flag(r) \/ Push(r) \/ Repoll(r) \/ DropReceiver(r)
Spec == Init /\ [][Next]_vars
-----------------------------------------------------------------------------
Writing(s) == sd[s] \in {"pos", "val", "rem", "unlock"}
Reading(r) == rv[r] \in {"read", "read2", "dec", "unlock"}
Held(r) == IF rv[r] \in {"dec", "unlock"} THEN idx(nxt[r] - 1) ELSE Slot(r)

\* "Used to lock the `write` field" (Slot::lock): a sender that writes a slot is alone.
WriteExclusive ==
  \A s \in Senders : Writing(s) =>
    /\ \A t \in Senders \ {s} : ~(Writing(t) /\ idx(sp[t]) = idx(sp[s]))
    /\ \A r \in Receivers : ~(Reading(r) /\ Held(r) = idx(sp[s]))

\* A receiver whose drop read past the position it was to stop at.
Overshot == \E r \in Receivers : Dropping(r) /\ nxt[r] > until[r]

\* A receiver gets every position since it subscribed once and in order, a lag skips
\* exactly what it reports, and the value belongs to the position.
InOrder ==
  \A r \in Receivers : /\ got[r] # -1
                       /\ (~Dropping(r) /\ rv[r] \in {"idle", "sleep"}) => got[r] = nxt[r]

\* A value is counted for the receivers that have still to read it, and for no other.
ValueKept ==
  \A i \in Slots : lock[i] = 0 /\ wpos[i] >= 0 =>
    rem[i] = Cardinality({r \in Receivers : /\ rv[r] # "none" /\ nxt[r] <= wpos[i]
                                            /\ Dropping(r) => until[r] > wpos[i]})

\* A receiver that sleeps has nothing to read, or is about to be woken.
NoReceiverForgotten ==
  \A r \in asleep : \/ wpos[Slot(r)] < nxt[r]
                    \/ \E s \in Senders : sd[s] \notin {"idle", "gone"}


\* "Can't be empty" (Drop for Receiver): a drop reads values that were sent.
DropFindsValues == \A r \in Receivers : rv[r] # "panic"

\* "Notifies a sender that the slot is unlocked" (Shared::condvar): a sender does not
\* sleep on a slot that no reader holds.
SenderNotified ==
  \A s \in Senders : sd[s] = "wait" => lock[idx(sp[s])] \div 2 # 0
=============================================================================
