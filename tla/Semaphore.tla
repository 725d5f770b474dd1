----------------------------- MODULE Semaphore -----------------------------
(***************************************************************************)
(* The asynchronous counting semaphore (src/krse/sync/semaphore.rs): one   *)
(* step per atomic operation on the state word, on rx_lock, on a waiter's  *)
(* state word and on a next pointer.  An owner is a task with one Permit;  *)
(* its Waiter node has the owner's name.  The Closer is the thread that    *)
(* returns forgotten permits and closes the semaphore, as the receiver of  *)
(* a bounded channel does.                                                 *)
(***************************************************************************)
EXTENDS Integers, FiniteSets, FiniteSetsExt

CONSTANTS
  Owners, Stub, Closer, Nil,
  Permits,    \* the number the semaphore is created with
  Need,       \* Need[p]: the number of permits p asks for
  MaxPolls    \* bound: MaxPolls[p] is the number of acquisitions p may start

VARIABLES
  tail, avail, closed,  \* state: a tail pointer, or Nil and a number; CLOSED_FLAG
  head, next,           \* the waiter queue
  lockN, lockC,         \* rx_lock: permits to add, and the closed bit
  todo, queued, wclosed, dropped,  \* a waiter's state word
  waker, asleep,        \* a waiter's registered waker; its task waits for a wake
  freed,                \* waiter nodes whose memory was released
  kind, have,           \* PermitState: kind[p] is Waiting(Need[p]) or Acquired(have[p])
  pc, seen, polls,      \* where a thread is; the state word it loaded; acquisitions
  forgotten,            \* permits given up by forget, not yet added again
  lk                    \* the rx_lock holder: who, where, rem, closed, n, node, next

semState == <<tail, avail, closed>>
waiters == <<todo, queued, wclosed, dropped>>
wakers == <<waker, asleep>>
permits == <<kind, have>>
vars == <<semState, head, next, lockN, lockC, waiters, wakers, freed, permits,
             pc, seen, polls, forgotten, lk>>

NoHolder == [who |-> Nil, at |-> "out", rem |-> 0, closing |-> FALSE, n |-> 0,
             node |-> Nil, nx |-> Nil]
Threads == Owners \cup {Closer}
Nodes == Owners \cup {Stub}

\* acquire_permits leaves the stub pointer, not the number 0.
Number(num) == IF num = 0 THEN Stub ELSE Nil

Init ==
  /\ tail = Number(Permits) /\ avail = Permits /\ closed = FALSE
  /\ head = Stub /\ next = [x \in Nodes |-> Nil] /\ lockN = 0 /\ lockC = FALSE
  /\ todo = [p \in Nodes |-> 0] /\ queued = {} /\ wclosed = {} /\ dropped = {}
  /\ waker = {} /\ asleep = {} /\ freed = {}
  /\ kind = [p \in Owners |-> "acquired"] /\ have = [p \in Owners |-> 0]
  /\ pc = [t \in Threads |-> "idle"] /\ seen = [p \in Owners |-> <<Nil, 0, FALSE>>]
  /\ polls = [p \in Owners |-> 0] /\ forgotten = 0 /\ lk = NoHolder

Goto(t, l) == pc' = [pc EXCEPT ![t] = l]
-----------------------------------------------------------------------------
(* poll_acquire2                                                           *)

\* What the loop decides for the state word curr: return, compare-and-swap it
\* to take the permits, or wait for what curr cannot give.
Short(p, curr) == curr[2] < Need[p]

Return(p, k, n, l) ==
  /\ kind' = [kind EXCEPT ![p] = k] /\ have' = [have EXCEPT ![p] = n] /\ Goto(p, l)

\* The first load; try_acquire passes no waiter and gives up where poll_acquire waits.
PollAcquire(p) ==
  /\ pc[p] = "idle" /\ kind[p] = "acquired" /\ have[p] = 0 /\ polls[p] < MaxPolls[p]
  /\ polls' = [polls EXCEPT ![p] = @ + 1]
  /\ seen' = [seen EXCEPT ![p] = semState]
  /\ Goto(p, IF closed THEN "failed" ELSE IF Short(p, semState) THEN "wait" ELSE "take")
  /\ UNCHANGED <<semState, head, next, lockN, lockC, waiters, wakers, freed, permits,
                 forgotten, lk>>

TryAcquire(p) ==
  /\ pc[p] = "idle" /\ kind[p] = "acquired" /\ have[p] = 0 /\ polls[p] < MaxPolls[p]
  /\ ~closed /\ ~Short(p, semState)
  /\ polls' = [polls EXCEPT ![p] = @ + 1]
  /\ tail' = Number(avail - Need[p]) /\ avail' = avail - Need[p]
  /\ have' = [have EXCEPT ![p] = Need[p]]
  /\ UNCHANGED <<closed, head, next, lockN, lockC, waiters, wakers, freed, kind, pc,
                 seen, forgotten, lk>>

\* get_waiter registers the waker; to_queued sets QUEUED and the missing permits,
\* and finds out whether the node is still in the queue.
ToQueued(p) ==
  /\ pc[p] = "wait"
  /\ waker' = waker \cup {p}
  /\ todo' = [todo EXCEPT ![p] = Need[p] - seen[p][2]]
  /\ IF p \in queued
     THEN /\ Return(p, "waiting", 0, "idle") /\ asleep' = asleep \cup {p}
          /\ UNCHANGED <<next, queued>>
     ELSE /\ queued' = queued \cup {p} /\ next' = [next EXCEPT ![p] = Nil]
          /\ Goto(p, "push") /\ UNCHANGED <<permits, asleep>>
  /\ UNCHANGED <<semState, head, lockN, lockC, wclosed, dropped, freed, seen, polls,
                 forgotten, lk>>

\* The compare-and-swap.  A failed one looks at the actual value again, now with
\* the waiter in hand: set_permits_to_acquire, or revert_to_idle before returning.
Take(p) ==
  /\ pc[p] \in {"take", "takeBack"} /\ semState = seen[p]
  /\ tail' = Number(avail - Need[p]) /\ avail' = avail - Need[p]
  /\ Return(p, "acquired", Need[p], "idle")
  /\ IF pc[p] = "takeBack"
     THEN queued' = queued \ {p} /\ todo' = [todo EXCEPT ![p] = 0]
     ELSE UNCHANGED <<queued, todo>>
  /\ UNCHANGED <<closed, head, next, lockN, lockC, wclosed, dropped, wakers, freed,
                 seen, polls, forgotten, lk>>

Push(p) ==
  /\ pc[p] = "push" /\ semState = seen[p]
  /\ tail' = p /\ avail' = 0
  /\ Goto(p, "link")
  /\ UNCHANGED <<closed, head, next, lockN, lockC, waiters, wakers, freed, permits,
                 seen, polls, forgotten, lk>>

Retry(p) ==
  /\ pc[p] \in {"take", "takeBack", "push"} /\ semState # seen[p]
  /\ seen' = [seen EXCEPT ![p] = semState]
  /\ IF closed
     THEN Goto(p, "failed") /\ queued' = queued \ {p} /\ todo' = [todo EXCEPT ![p] = 0]
     ELSE IF ~Short(p, semState)
     THEN Goto(p, IF pc[p] = "take" THEN "take" ELSE "takeBack") /\ UNCHANGED <<queued, todo>>
     ELSE IF pc[p] = "take"
     THEN Goto(p, "wait") /\ UNCHANGED <<queued, todo>>
     ELSE Goto(p, "push") /\ todo' = [todo EXCEPT ![p] = Need[p] - avail] /\ UNCHANGED queued
  /\ UNCHANGED <<semState, head, next, lockN, lockC, wclosed, dropped, wakers, freed,
                 permits, polls, forgotten, lk>>

\* store_next on the node that was the tail.
Link(p) ==
  /\ pc[p] = "link"
  /\ next' = [next EXCEPT ![IF seen[p][1] = Nil THEN Stub ELSE seen[p][1]] = p]
  /\ Return(p, "waiting", 0, "idle") /\ asleep' = asleep \cup {p}
  /\ UNCHANGED <<semState, head, lockN, lockC, waiters, waker, freed, seen, polls,
                 forgotten, lk>>
-----------------------------------------------------------------------------
(* Permit: poll_acquire while Waiting, forget, release and drop            *)

\* permits_to_acquire fails on a closed waiter.
Granted(p) == p \notin wclosed /\ todo[p] = 0

PollWaiting(p) ==
  /\ pc[p] = "idle" /\ kind[p] = "waiting"
  /\ asleep' = asleep \ {p}
  /\ IF Granted(p) THEN Return(p, "acquired", Need[p], "idle") /\ UNCHANGED waker
     ELSE IF p \in wclosed THEN Goto(p, "failed") /\ UNCHANGED <<permits, waker>>
     ELSE Goto(p, "recheck") /\ waker' = waker \cup {p} /\ UNCHANGED permits
  /\ UNCHANGED <<semState, head, next, lockN, lockC, waiters, freed, seen, polls,
                 forgotten, lk>>

Recheck(p) ==
  /\ pc[p] = "recheck"
  /\ IF Granted(p) THEN Return(p, "acquired", Need[p], "idle") /\ UNCHANGED asleep
     ELSE IF p \in wclosed THEN Goto(p, "failed") /\ UNCHANGED <<permits, asleep>>
     ELSE Goto(p, "idle") /\ asleep' = asleep \cup {p} /\ UNCHANGED permits
  /\ UNCHANGED <<semState, head, next, lockN, lockC, waiters, waker, freed, seen, polls,
                 forgotten, lk>>

\* try_dec_permits_to_acquire: what the waiter was given already is the result.
Dec(p) == Need[p] - todo[p]

\* forget after the permits were spent (a message was sent).
Forget(p) ==
  /\ pc[p] = "idle" /\ kind[p] = "acquired" /\ have[p] > 0
  /\ have' = [have EXCEPT ![p] = 0] /\ forgotten' = forgotten + have[p]
  /\ UNCHANGED <<semState, head, next, lockN, lockC, waiters, wakers, freed, kind, pc,
                 seen, polls, lk>>

\* rx_lock.fetch_add(n << 1): the thread that finds the lock free works for all.
AddPermits(t, n, l) ==
  /\ lockN' = lockN + n
  /\ IF n > 0 /\ lockN = 0 /\ ~lockC
     THEN lk' = [NoHolder EXCEPT !.who = t, !.at = "top", !.rem = n] /\ Goto(t, "locked")
     ELSE UNCHANGED lk /\ Goto(t, l)

\* release when the owner lets go: its future is dropped, or its permit is.
Release(p) ==
  /\ pc[p] \in {"idle", "failed"}
  /\ LET n == IF kind[p] = "waiting" THEN Dec(p) ELSE have[p]
     IN  /\ AddPermits(p, n, "drop")
         /\ todo' = IF kind[p] = "waiting" THEN [todo EXCEPT ![p] = 0] ELSE todo
  /\ kind' = [kind EXCEPT ![p] = "acquired"] /\ have' = [have EXCEPT ![p] = 0]
  /\ asleep' = asleep \ {p}
  /\ UNCHANGED <<semState, head, next, lockC, queued, wclosed, dropped, waker, freed,
                 seen, polls, forgotten>>

\* Mutant: the node is freed whether or not it is queued.
M_DropPermitFrees(p) ==
  /\ pc[p] = "drop" /\ Goto(p, "gone")
  /\ dropped' = dropped \cup {p} /\ freed' = freed \cup {p}
  /\ UNCHANGED <<semState, head, next, lockN, lockC, todo, queued, wclosed, wakers, permits,
                 seen, polls, forgotten, lk>>

\* Drop for Permit: a queued node is left to the semaphore.
DropPermit(p) ==
  /\ pc[p] = "drop" /\ Goto(p, "gone")
  /\ dropped' = dropped \cup {p}
  /\ freed' = IF p \in queued THEN freed ELSE freed \cup {p}
  /\ UNCHANGED <<semState, head, next, lockN, lockC, todo, queued, wclosed, wakers, permits,
                 seen, polls, forgotten, lk>>

Add ==
  /\ pc[Closer] = "idle" /\ forgotten > 0 /\ forgotten' = forgotten - 1
  /\ AddPermits(Closer, 1, "idle")
  /\ UNCHANGED <<semState, head, next, lockC, waiters, wakers, freed, permits, seen, polls>>

Close ==
  /\ pc[Closer] = "idle" /\ ~lockC /\ ~closed
  /\ lockC' = TRUE
  /\ IF lockN = 0
     THEN lk' = [NoHolder EXCEPT !.who = Closer, !.at = "top", !.closing = TRUE]
          /\ Goto(Closer, "locked")
     ELSE UNCHANGED <<lk, pc>>
  /\ UNCHANGED <<semState, head, next, lockN, waiters, wakers, freed, permits, seen, polls,
                 forgotten>>
-----------------------------------------------------------------------------
(* add_permits_locked and add_permits_locked2, run by the holder of rx_lock *)

At(l) == lk.at = l
untouched == <<lockN, lockC, permits, seen, polls, forgotten>>

LockedTop ==
  /\ At("top")
  /\ closed' = (closed \/ lk.closing)
  /\ lk' = [lk EXCEPT !.at = "outer", !.n = lk.rem]
  /\ UNCHANGED <<tail, avail, head, next, waiters, wakers, freed, pc, untouched>>

\* n is usize::MAX while closing.
More == lk.closing \/ lk.n > 0

Outer ==
  /\ At("outer")
  /\ IF ~More THEN lk' = [lk EXCEPT !.at = "sub"] /\ UNCHANGED head
     ELSE IF head = Stub /\ next[Stub] = Nil
     THEN lk' = [lk EXCEPT !.at = "empty"] /\ UNCHANGED head
     ELSE /\ head' = IF head = Stub THEN next[Stub] ELSE head
          /\ lk' = [lk EXCEPT !.at = "assign", !.nx = next[head']]
  /\ UNCHANGED <<semState, next, waiters, wakers, freed, pc, untouched>>

\* The queue looked empty: hand the permits to the state word, unless a pusher
\* is between its compare-and-swap and its store_next.
Empty ==
  /\ At("empty")
  /\ IF tail \notin {Nil, Stub} THEN lk' = [lk EXCEPT !.at = "outer"] /\ UNCHANGED semState
     ELSE /\ lk' = [lk EXCEPT !.at = "sub", !.n = 0]
          /\ IF lk.closing THEN UNCHANGED semState
             ELSE tail' = Nil /\ avail' = avail + lk.n /\ UNCHANGED closed
  /\ UNCHANGED <<head, next, waiters, wakers, freed, pc, untouched>>

AssignPermits ==
  /\ At("assign")
  /\ LET give == IF lk.closing THEN todo[head] ELSE Min({todo[head], lk.n})
         done == todo[head] = give
     IN  /\ todo' = [todo EXCEPT ![head] = @ - give]
         /\ wclosed' = IF lk.closing THEN wclosed \cup {head} ELSE wclosed
         /\ IF done /\ give > 0
            THEN waker' = waker \ {head} /\ asleep' = asleep \ (waker \cap {head})
            ELSE UNCHANGED wakers
         /\ lk' = [lk EXCEPT !.n = IF lk.closing THEN @ ELSE @ - give,
                             !.at = IF ~done THEN "sub" ELSE IF lk.nx = Nil THEN "last"
                                    ELSE "remove", !.node = head]
         /\ head' = IF done /\ lk.nx # Nil THEN lk.nx ELSE head
  /\ UNCHANGED <<semState, next, queued, dropped, freed, pc, untouched>>

\* push_waiter: swap the tail, then link the node that was there before.
PushWaiter(x, l) ==
  /\ next' = [next EXCEPT ![x] = Nil]
  /\ tail' = x /\ closed' = lk.closing /\ UNCHANGED avail
  /\ lk' = [lk EXCEPT !.at = l, !.nx = tail]

Last ==
  /\ At("last")
  /\ lk' = [lk EXCEPT !.at = IF tail = head THEN "pushStub" ELSE "outer"]
  /\ UNCHANGED <<semState, head, next, waiters, wakers, freed, pc, untouched>>

PushStub ==
  /\ At("pushStub") /\ PushWaiter(Stub, "linkStub")
  /\ UNCHANGED <<head, waiters, wakers, freed, pc, untouched>>

LinkStub ==
  /\ At("linkStub") /\ next' = [next EXCEPT ![lk.nx] = Stub]
  /\ lk' = [lk EXCEPT !.at = "again"]
  /\ UNCHANGED <<semState, head, waiters, wakers, freed, pc, untouched>>

Again ==
  /\ At("again")
  /\ IF next[head] = Nil THEN lk' = [lk EXCEPT !.at = "outer"] /\ UNCHANGED head
     ELSE head' = next[head] /\ lk' = [lk EXCEPT !.at = "remove", !.node = head]
  /\ UNCHANGED <<semState, next, waiters, wakers, freed, pc, untouched>>

\* remove_queued: free a dropped node, push back one that asked again, or clear QUEUED.
RemoveQueued ==
  /\ At("remove")
  /\ IF lk.node \in dropped
     THEN /\ freed' = freed \cup {lk.node} /\ lk' = [lk EXCEPT !.at = "outer"]
          /\ UNCHANGED <<semState, next, queued>>
     ELSE IF todo[lk.node] > 0
     THEN PushWaiter(lk.node, "linkBack") /\ UNCHANGED <<freed, queued>>
     ELSE /\ queued' = queued \ {lk.node} /\ lk' = [lk EXCEPT !.at = "outer"]
          /\ UNCHANGED <<semState, next, freed>>
  /\ UNCHANGED <<head, todo, wclosed, dropped, wakers, pc, untouched>>

LinkBack ==
  /\ At("linkBack") /\ next' = [next EXCEPT ![lk.nx] = lk.node]
  /\ lk' = [lk EXCEPT !.at = "outer"]
  /\ UNCHANGED <<semState, head, waiters, wakers, freed, pc, untouched>>

\* rx_lock.fetch_sub: go on with what other threads left there meanwhile.
LockedSub ==
  /\ At("sub")
  /\ lockN' = lockN - lk.rem
  /\ lockC' = (lockC /\ ~lk.closing)
  /\ LET c == lockC /\ ~lk.closing
     IN  IF lockN - lk.rem > 0 \/ c
         THEN /\ lk' = [NoHolder EXCEPT !.who = lk.who, !.at = "top",
                                        !.rem = lockN - lk.rem, !.closing = c]
              /\ UNCHANGED pc
         ELSE lk' = NoHolder /\ Goto(lk.who, IF lk.who = Closer THEN "idle" ELSE "drop")
  /\ UNCHANGED <<semState, head, next, waiters, wakers, freed, permits, seen, polls,
                 forgotten>>

Holder ==
  \/ LockedTop \/ Outer \/ Empty \/ AssignPermits \/ Last \/ PushStub \/ LinkStub \/ Again
  \/ RemoveQueued \/ LinkBack \/ LockedSub

Owner(p) ==
  \/ PollAcquire(p) \/ TryAcquire(p) \/ ToQueued(p) \/ Take(p) \/ Push(p) \/ Retry(p)
  \/ Link(p) \/ PollWaiting(p) \/ Recheck(p) \/ Forget(p) \/ Release(p) \/ DropPermit(p)

Next == Holder \/ Add \/ Close \/ (\E p \in Owners : Owner(p))
Spec == Init /\ [][Next]_vars
-----------------------------------------------------------------------------
Live(x) == x \in Nodes \ freed
\* A node that the queue, a pusher about to link or the holder of rx_lock will touch has not
\* been freed (remove_queued, Drop for Permit), and the assertions of the holder hold.
MemorySafe ==
  /\ Live(head) /\ tail \in Nodes => Live(tail)
  /\ \A p \in Owners : /\ pc[p] = "link" /\ seen[p][1] # Nil => Live(seen[p][1])
                       /\ p \notin dropped => Live(p)
  /\ lk.at = "assign" => head # Stub
  /\ lk.at \in {"remove", "linkBack"} => Live(lk.node)
  /\ lk.at \in {"linkStub", "linkBack"} => lk.nx # Nil /\ Live(lk.nx)
  /\ lk.at = "sub" /\ ~lk.closing => lk.n = 0

\* Where the permits are.
Held(p) ==
  IF pc[p] = "link" \/ kind[p] = "waiting" THEN Need[p] - todo[p] ELSE have[p]
\* Until the semaphore is closed no permit is lost or made up, whatever races with
\* release, forget and add_permits.
PermitsConserved ==
  ~closed => avail + forgotten + lockN - lk.rem + (IF lk.at = "top" THEN lk.rem ELSE lk.n)
               + MapThenSumSet(Held, Owners) = Permits

Quiet == lk = NoHolder /\ \A p \in Owners : pc[p] \in {"idle", "failed", "gone", "drop"}
\* When nobody is in the middle of an operation, a task that sleeps is in the queue, has its
\* waker there, and lacks permits that the semaphore does not have.
NoStrandedWaiter ==
  Quiet =>
    \A p \in asleep :
       /\ p \in queued /\ p \in waker
       /\ todo[p] > 0 /\ p \notin wclosed /\ ~closed
       /\ avail = 0
SemaphoreSound == MemorySafe /\ PermitsConserved /\ NoStrandedWaiter
=============================================================================
