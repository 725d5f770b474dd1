----------------------------- MODULE ParkThread -----------------------------
(***************************************************************************)
(* ParkThread of src/krse/thread/park.rs: an atomic state, a mutex and a   *)
(* condition variable.  One thread parks, any number of threads unpark it. *)
(* A step is one atomic operation on the state, one acquisition of the     *)
(* mutex, or one move into or out of the condition variable.  unpark takes *)
(* the mutex only to let go of it at once, which is one step.              *)
(***************************************************************************)
EXTENDS TLAPS

CONSTANT Unparkers

VARIABLES
  state,     \* Inner.state
  locked,    \* the parking thread holds Inner.mutex
  pc,        \* where the parking thread is
  timed,     \* it is in park_timeout
  upc        \* where each unparking thread is

vars == <<state, locked, pc, timed, upc>>

(***************************************************************************)
(* pc   "out"; "fast" before the first exchange; "lock" before the mutex;  *)
(*      "announce" before EMPTY -> PARKED; "wait" about to wait;           *)
(*      "waiting" in the condition variable; "relock" woken, before the    *)
(*      mutex; "check" after it                                            *)
(* upc  "idle"; "lock" saw PARKED; "notify" has passed the mutex           *)
(***************************************************************************)
ParkerSteps ==
  {"out", "fast", "lock", "announce", "wait", "waiting", "relock", "check"}

Init ==
  /\ state = "EMPTY" /\ locked = FALSE
  /\ pc = "out" /\ timed = FALSE
  /\ upc = [u \in Unparkers |-> "idle"]

-----------------------------------------------------------------------------
Enter ==
  /\ pc = "out"
  /\ pc' = "fast" /\ timed' \in BOOLEAN
  /\ UNCHANGED <<state, locked, upc>>

FastPath ==
  /\ pc = "fast"
  /\ IF state = "NOTIFIED"
       THEN state' = "EMPTY" /\ pc' = "out"
       ELSE pc' = "lock" /\ UNCHANGED state
  /\ UNCHANGED <<locked, timed, upc>>

Lock ==
  /\ pc = "lock"
  /\ locked' = TRUE /\ pc' = "announce"
  /\ UNCHANGED <<state, timed, upc>>

\* Mutant: an unpark found under the mutex makes park start over.
M_AnnounceRetries ==
  /\ pc = "announce"
  /\ \/ /\ state = "EMPTY"
        /\ state' = "PARKED" /\ pc' = "wait"
        /\ UNCHANGED locked
     \/ /\ state = "NOTIFIED"
        /\ pc' = "lock" /\ locked' = FALSE
        /\ UNCHANGED state
  /\ UNCHANGED <<timed, upc>>

Announce ==
  /\ pc = "announce"
  /\ \/ /\ state = "EMPTY"
        /\ state' = "PARKED" /\ pc' = "wait"
        /\ UNCHANGED locked
     \/ /\ state = "NOTIFIED"
        /\ state' = "EMPTY" /\ pc' = "out" /\ locked' = FALSE
  /\ UNCHANGED <<timed, upc>>

\* condvar.wait: joins the waiters and releases the mutex in one step.
Wait ==
  /\ pc = "wait"
  /\ pc' = "waiting" /\ locked' = FALSE
  /\ UNCHANGED <<state, timed, upc>>

\* A spurious wakeup, or the end of wait_timeout.
WakeUp ==
  /\ pc = "waiting"
  /\ pc' = "relock"
  /\ UNCHANGED <<state, locked, timed, upc>>

Relock ==
  /\ pc = "relock"
  /\ locked' = TRUE /\ pc' = "check"
  /\ UNCHANGED <<state, timed, upc>>

\* Mutant: park returns on a spurious wakeup.
M_CheckSpurious ==
  /\ pc = "check"
  /\ state' = "EMPTY" /\ pc' = "out" /\ locked' = FALSE
  /\ UNCHANGED <<timed, upc>>

\* park goes back to sleep unless notified; park_timeout returns either way.
Check ==
  /\ pc = "check"
  /\ IF timed \/ state = "NOTIFIED"
       THEN state' = "EMPTY" /\ pc' = "out" /\ locked' = FALSE
       ELSE pc' = "wait" /\ UNCHANGED <<state, locked>>
  /\ UNCHANGED <<timed, upc>>

-----------------------------------------------------------------------------
Unpark(u) ==
  /\ upc[u] = "idle"
  /\ state' = "NOTIFIED"
  /\ upc' = [upc EXCEPT ![u] = IF state = "PARKED" THEN "lock" ELSE "idle"]
  /\ UNCHANGED <<locked, pc, timed>>

\* Mutant: unpark notifies without having passed the mutex.
M_PassMutexUnlocked(u) ==
  /\ upc[u] = "lock"
  /\ upc' = [upc EXCEPT ![u] = "notify"]
  /\ UNCHANGED <<state, locked, pc, timed>>

PassMutex(u) ==
  /\ upc[u] = "lock" /\ ~ locked
  /\ upc' = [upc EXCEPT ![u] = "notify"]
  /\ UNCHANGED <<state, locked, pc, timed>>

NotifyOne(u) ==
  /\ upc[u] = "notify"
  /\ pc' = IF pc = "waiting" THEN "relock" ELSE pc
  /\ upc' = [upc EXCEPT ![u] = "idle"]
  /\ UNCHANGED <<state, locked, timed>>

ParkStep ==
  FastPath \/ Lock \/ Announce \/ Wait \/ Relock \/ Check

UnparkStep(u) == PassMutex(u) \/ NotifyOne(u)

Next ==
  \/ Enter \/ ParkStep \/ WakeUp
  \/ \E u \in Unparkers : Unpark(u) \/ UnparkStep(u)

Spec == Init /\ [][Next]_vars

(***************************************************************************)
(* A thread inside park or unpark takes its next step; nobody has to park  *)
(* or unpark, and spurious wakeups and timeouts need not come.  Passing    *)
(* the mutex is strongly fair: a parker woken spuriously again and again   *)
(* takes it in between.                                                    *)
(***************************************************************************)
Fairness ==
  /\ WF_vars(ParkStep)
  /\ \A u \in Unparkers : SF_vars(PassMutex(u)) /\ WF_vars(NotifyOne(u))

FairSpec == Spec /\ Fairness

-----------------------------------------------------------------------------
(* Properties *)

TypeOK ==
  /\ state \in {"EMPTY", "PARKED", "NOTIFIED"}
  /\ locked \in BOOLEAN /\ timed \in BOOLEAN
  /\ pc \in ParkerSteps
  /\ upc \in [Unparkers -> {"idle", "lock", "notify"}]

(***************************************************************************)
(* A notification that comes between PARKED and the wait is not missed: as *)
(* long as the thread sleeps on a state that is NOTIFIED, some unpark has  *)
(* yet to call notify_one, and before the wait none has passed the mutex.  *)
(***************************************************************************)
NoMissedUnpark ==
  state = "NOTIFIED" =>
    /\ pc = "waiting" => \E u \in Unparkers : upc[u] \in {"lock", "notify"}
    /\ pc = "wait" => \E u \in Unparkers : upc[u] = "lock"

(***************************************************************************)
(* The panics of "inconsistent park state" and "park_timeout state" cannot *)
(* happen: nobody else puts the state to PARKED or takes it to EMPTY.      *)
(***************************************************************************)
ParkStateConsistent ==
  /\ state = "PARKED" => pc \in {"wait", "waiting", "relock", "check"}
  /\ state = "EMPTY" => pc \in {"out", "fast", "lock", "announce"}
  /\ locked <=> pc \in {"announce", "wait", "check"}

\* The mutex and the state together lose no unpark and reach none of the panics.
ParkSound == TypeOK /\ NoMissedUnpark /\ ParkStateConsistent

Token == INSTANCE Parker WITH
  token <- state = "NOTIFIED", inside <- pc # "out", timed <- timed

(***************************************************************************)
(* Every execution of park, park_timeout and unpark is one of the token's, *)
(* the model that the module comment documents: park returns only by       *)
(* consuming a token, and no unpark is forgotten or counted twice.         *)
(***************************************************************************)
ImplementsParker == Token!Spec

(***************************************************************************)
(* ... its progress included: a thread in park returns once it has been    *)
(* unparked, whatever spurious wakeups come in between.                    *)
(***************************************************************************)
ParkReturns == Token!FairSpec

(***************************************************************************)
(* Proofs, for any set of unparkers.                                       *)
(***************************************************************************)

\* The three parts are inductive together: that PARKED is the parker's own
\* makes an unpark during the sleep one that goes on to notify.
ParkInv == TypeOK /\ ParkStateConsistent /\ NoMissedUnpark

LEMMA InitParkInv == Init => ParkInv
  BY DEF Init, ParkInv, TypeOK, ParkStateConsistent, NoMissedUnpark, ParkerSteps

LEMMA StepParkInv == ParkInv /\ [Next]_vars => ParkInv'
<1> SUFFICES ASSUME ParkInv, [Next]_vars PROVE ParkInv'
  OBVIOUS
<1> USE DEF ParkInv, TypeOK, ParkStateConsistent, NoMissedUnpark, ParkerSteps
<1>1. CASE Enter
  BY <1>1 DEF Enter
<1>2. CASE FastPath
  BY <1>2 DEF FastPath
<1>3. CASE Lock
  BY <1>3 DEF Lock
<1>4. CASE Announce
  BY <1>4 DEF Announce
<1>5. CASE Wait
  BY <1>5 DEF Wait
<1>6. CASE WakeUp
  BY <1>6 DEF WakeUp
<1>7. CASE Relock
  BY <1>7 DEF Relock
<1>8. CASE Check
  BY <1>8 DEF Check
<1>9. ASSUME NEW u \in Unparkers, Unpark(u) PROVE ParkInv'
  <2>1. TypeOK' /\ ParkStateConsistent'
    BY <1>9 DEF Unpark
  <2>2. CASE state = "PARKED"
    <3>1. upc'[u] = "lock"
      BY <1>9, <2>2 DEF Unpark
    <3> QED BY <2>1, <3>1
  <2>3. CASE state # "PARKED"
    <3>1. upc' = upc
      BY <1>9, <2>3 DEF Unpark
    <3> QED BY <1>9, <2>1, <2>3, <3>1 DEF Unpark
  <2> QED BY <2>2, <2>3
<1>10. ASSUME NEW u \in Unparkers, PassMutex(u) PROVE ParkInv'
  BY <1>10 DEF PassMutex
<1>11. ASSUME NEW u \in Unparkers, NotifyOne(u) PROVE ParkInv'
  BY <1>11 DEF NotifyOne
<1>12. CASE UNCHANGED vars
  BY <1>12 DEF vars
<1> QED
  BY <1>1, <1>2, <1>3, <1>4, <1>5, <1>6, <1>7, <1>8, <1>9, <1>10, <1>11, <1>12
     DEF Next, ParkStep, UnparkStep

\* An unpark that finds the thread between PARKED and the end of its wait is
\* never missed, and no panic about an inconsistent state is reachable, whatever
\* the number of threads that unpark it.
THEOREM ParkIsSound == Spec => []ParkSound
<1>1. ParkInv => ParkSound
  BY DEF ParkInv, ParkSound
<1> QED
  BY InitParkInv, StepParkInv, <1>1, PTL DEF Spec

LEMMA TokenStep == ParkInv /\ [Next]_vars => [Token!Next]_(Token!vars)
<1> SUFFICES ASSUME ParkInv, [Next]_vars PROVE [Token!Next]_(Token!vars)
  OBVIOUS
<1> USE DEF ParkInv, TypeOK, ParkStateConsistent, Token!Next, Token!vars
<1>1. CASE Enter
  BY <1>1 DEF Enter, Token!Enter
<1>2. CASE FastPath
  BY <1>2 DEF FastPath, Token!Consume
<1>3. CASE Lock \/ Wait \/ WakeUp \/ Relock
  BY <1>3 DEF Lock, Wait, WakeUp, Relock
<1>4. CASE Announce
  BY <1>4 DEF Announce, Token!Consume
<1>5. CASE Check
  BY <1>5 DEF Check, Token!Consume, Token!TimeOut
<1>6. ASSUME NEW u \in Unparkers, Unpark(u) PROVE Token!Unpark
  BY <1>6 DEF Unpark, Token!Unpark
<1>7. ASSUME NEW u \in Unparkers, UnparkStep(u) PROVE UNCHANGED Token!vars
  BY <1>7 DEF UnparkStep, PassMutex, NotifyOne
<1>8. CASE UNCHANGED vars
  BY <1>8 DEF vars
<1> QED
  BY <1>1, <1>2, <1>3, <1>4, <1>5, <1>6, <1>7, <1>8 DEF Next, ParkStep

\* The atomic state, mutex and condition variable of ParkThread behave like
\* the one token that the documentation of Park describes.
THEOREM ParkThreadImplementsParker == Spec => ImplementsParker
<1>1. Init => Token!Init
  BY DEF Init, Token!Init
<1> QED
  BY <1>1, InitParkInv, StepParkInv, TokenStep, PTL DEF Spec, ImplementsParker, Token!Spec
=============================================================================
