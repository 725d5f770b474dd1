---------------------------- MODULE AtomicWaker ----------------------------
(***************************************************************************)
(* The AtomicWaker cell (src/krse/task/atomic_waker.rs), one step per      *)
(* atomic operation and per access to the unsynchronized waker field.      *)
(*                                                                         *)
(* It is used the way LocalSet, ScheduledIo, the timer entries and the     *)
(* channels use it: a consumer registers, looks for the event, and sleeps  *)
(* if there is none; a producer makes the event happen and calls wake.     *)
(***************************************************************************)
EXTENDS Naturals, FiniteSets

CONSTANTS
  Consumers,  \* tasks that call register; each is its own waker
  Producers,  \* threads that call wake
  None,       \* an empty cell
  MaxWakes    \* bound on the calls of wake by one producer

ASSUME WakerAssumption ==
  /\ Consumers \cap Producers = {} /\ None \notin Consumers /\ MaxWakes \in Nat

Threads == Consumers \cup Producers

VARIABLES
  registering, waking,  \* the two bits of state; WAITING is neither
  cell,     \* waker
  pc,
  w,        \* the waker a thread has taken out of the cell
  woken,    \* the task is scheduled
  event,    \* what the consumers wait for
  wakes     \* calls of wake so far

vars == <<registering, waking, cell, pc, w, woken, event, wakes>>
flags == <<registering, waking>>

Goto(t, l) == pc' = [pc EXCEPT ![t] = l]

Init ==
  /\ registering = FALSE /\ waking = FALSE /\ cell = None
  /\ pc = [t \in Threads |-> "idle"] /\ w = [t \in Threads |-> None]
  /\ woken = [c \in Consumers |-> FALSE] /\ event = FALSE
  /\ wakes = [p \in Producers |-> 0]
-----------------------------------------------------------------------------
(* do_register                                                             *)

\* compare_and_swap(WAITING, REGISTERING); a concurrent register is dropped.
Register(c) ==
  /\ pc[c] = "idle"
  /\ IF ~registering /\ ~waking THEN registering' = TRUE /\ Goto(c, "write")
     ELSE UNCHANGED registering
          /\ Goto(c, IF registering THEN "check" ELSE "wakeSelf")
  /\ UNCHANGED <<waking, cell, w, woken, event, wakes>>

WriteCell(c) ==
  /\ pc[c] = "write" /\ cell' = c /\ Goto(c, "release")
  /\ UNCHANGED <<flags, w, woken, event, wakes>>

\* Mutant: only the REGISTERING bit is cleared, and WAKING stays behind.
M_ReleaseOwnBit(c) ==
  /\ pc[c] = "release" /\ registering' = FALSE /\ Goto(c, "check")
  /\ UNCHANGED <<waking, cell, w, woken, event, wakes>>

\* compare_exchange(REGISTERING, WAITING)
Release(c) ==
  /\ pc[c] = "release"
  /\ registering' = waking
  /\ Goto(c, IF waking THEN "retake" ELSE "check")
  /\ UNCHANGED <<waking, cell, w, woken, event, wakes>>

\* wake came in between: take the waker back ...
Retake(c) ==
  /\ pc[c] = "retake"
  /\ w' = [w EXCEPT ![c] = cell] /\ cell' = None /\ Goto(c, "swap")
  /\ UNCHANGED <<flags, woken, event, wakes>>

\* ... swap(WAITING) ...
Swap(c) ==
  /\ pc[c] = "swap" /\ registering' = FALSE /\ waking' = FALSE
  /\ Goto(c, "wakeOut")
  /\ UNCHANGED <<cell, w, woken, event, wakes>>

\* Waker::wake on what thread t has taken.
Wake(t) == woken' = [c \in Consumers |-> woken[c] \/ w[t] = c]

\* ... and wake it.
WakeOut(c) ==
  /\ pc[c] = "wakeOut" /\ Wake(c) /\ w' = [w EXCEPT ![c] = None]
  /\ Goto(c, "check")
  /\ UNCHANGED <<flags, cell, event, wakes>>

\* The cell is being woken right now: wake the new waker instead of storing it.
WakeSelf(c) ==
  /\ pc[c] = "wakeSelf" /\ woken' = [woken EXCEPT ![c] = TRUE]
  /\ Goto(c, "check")
  /\ UNCHANGED <<flags, cell, w, event, wakes>>
-----------------------------------------------------------------------------
(* The consumer's poll around it.                                          *)

\* Registered, the consumer takes the event or goes to sleep.
Check(c) ==
  /\ pc[c] = "check" /\ event' = FALSE
  /\ Goto(c, IF event THEN "idle" ELSE "asleep")
  /\ UNCHANGED <<flags, cell, w, woken, wakes>>

\* The scheduler polls a woken task again.
Poll(c) ==
  /\ pc[c] = "asleep" /\ woken[c]
  /\ woken' = [woken EXCEPT ![c] = FALSE] /\ Goto(c, "idle")
  /\ UNCHANGED <<flags, cell, w, event, wakes>>
-----------------------------------------------------------------------------
(* wake, through take_waker                                                *)

Happen(p) ==
  /\ pc[p] = "idle" /\ wakes[p] < MaxWakes
  /\ event' = TRUE /\ wakes' = [wakes EXCEPT ![p] = @ + 1] /\ Goto(p, "or")
  /\ UNCHANGED <<flags, cell, w, woken>>

\* Mutant: the REGISTERING bit does not keep a waking thread off the cell.
M_FetchOrBarges(p) ==
  /\ pc[p] = "or" /\ waking' = TRUE
  /\ Goto(p, IF ~waking THEN "take" ELSE "idle")
  /\ UNCHANGED <<registering, cell, w, woken, event, wakes>>

\* fetch_or(WAKING); only the one that finds WAITING owns the cell.
FetchOr(p) ==
  /\ pc[p] = "or" /\ waking' = TRUE
  /\ Goto(p, IF ~registering /\ ~waking THEN "take" ELSE "idle")
  /\ UNCHANGED <<registering, cell, w, woken, event, wakes>>

TakeCell(p) ==
  /\ pc[p] = "take"
  /\ w' = [w EXCEPT ![p] = cell] /\ cell' = None /\ Goto(p, "clear")
  /\ UNCHANGED <<flags, woken, event, wakes>>

\* fetch_and(!WAKING)
Clear(p) ==
  /\ pc[p] = "clear" /\ waking' = FALSE /\ Goto(p, "wake")
  /\ UNCHANGED <<registering, cell, w, woken, event, wakes>>

WakeTask(p) ==
  /\ pc[p] = "wake" /\ Wake(p) /\ w' = [w EXCEPT ![p] = None]
  /\ Goto(p, "idle")
  /\ UNCHANGED <<flags, cell, event, wakes>>
-----------------------------------------------------------------------------
Consumer(c) ==
  \/ Register(c) \/ WriteCell(c) \/ Release(c) \/ Retake(c) \/ Swap(c)
  \/ WakeOut(c) \/ WakeSelf(c) \/ Check(c) \/ Poll(c)

WakeCall(p) == FetchOr(p) \/ TakeCell(p) \/ Clear(p) \/ WakeTask(p)

Next ==
  \/ \E c \in Consumers : Consumer(c)
  \/ \E p \in Producers : Happen(p) \/ WakeCall(p)

Spec == Init /\ [][Next]_vars

-----------------------------------------------------------------------------
ConsumerPC ==
  {"idle", "write", "release", "retake", "swap", "wakeOut", "wakeSelf", "check", "asleep"}
ProducerPC == {"idle", "or", "take", "clear", "wake"}

TypeOK ==
  /\ registering \in BOOLEAN /\ waking \in BOOLEAN /\ event \in BOOLEAN
  /\ cell \in Consumers \cup {None} /\ w \in [Threads -> Consumers \cup {None}]
  /\ pc \in [Threads -> ConsumerPC \cup ProducerPC]
  /\ \A c \in Consumers : pc[c] \in ConsumerPC
  /\ \A p \in Producers : pc[p] \in ProducerPC
  /\ woken \in [Consumers -> BOOLEAN] /\ wakes \in [Producers -> Nat]

\* Threads that may touch the waker field next, without further checks.
Owns(t) == pc[t] \in {"write", "retake", "take"}

(* The waker field is a CausalCell: no two threads access it at once,      *)
(* however many register and wake concurrently.                            *)
CellExclusive == \A s, t \in Threads : Owns(s) /\ Owns(t) => s = t

(* take().unwrap() in do_register finds the waker, and the state there is  *)
(* REGISTERING | WAKING as the debug_assert has it.                        *)
RetakeFinds ==
  \A c \in Consumers : pc[c] = "retake" => cell # None /\ registering /\ waking

\* The field behaves as if it had a lock, and do_register's assertions hold.
FieldSafe == TypeOK /\ CellExclusive /\ RetakeFinds

\* A thread that will still wake consumer c for the current event.
WillWake(t, c) ==
  \/ pc[t] = "or"
  \/ pc[t] = "take" /\ cell = c
  \/ pc[t] \in {"clear", "wake"} /\ w[t] = c

(* "Any calls to wake that happen after a call to register will wake the   *)
(* register caller's task": the only consumer never sleeps on an event     *)
(* unless it is scheduled or some wake call is about to schedule it.       *)
NoLostWakeup ==
  \A c \in Consumers :
    Consumers = {c} /\ pc[c] = "asleep" /\ event /\ ~woken[c]
      => \E p \in Producers : WillWake(p, c)
=============================================================================
