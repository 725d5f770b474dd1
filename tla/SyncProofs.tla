----------------------------- MODULE SyncProofs -----------------------------
(***************************************************************************)
(* AtomicWaker, Notify, the watch channel, the one-shot channel and the    *)
(* barrier, for any sets of consumers, producers, futures, notifiers,      *)
(* broadcasters, receivers, wakers and tasks.                              *)
(***************************************************************************)
EXTENDS AtomicWaker, Oneshot, Notify, TLAPS

-----------------------------------------------------------------------------
(***************************************************************************)
(* AtomicWaker: the waker field is accessed by one thread at a time, the   *)
(* unwrap in do_register succeeds, and a single consumer loses no wakeup.  *)
(*                                                                         *)
(* The inductive invariant reads the two state bits as a lock: whoever     *)
(* moved the state away from WAITING holds it until WAITING is restored.   *)
(***************************************************************************)
HoldsC(c) == pc[c] \in {"write", "release", "retake", "swap"}
HoldsP(p) == pc[p] \in {"take", "clear"}
Holds(t) == pc[t] \in {"write", "release", "retake", "swap", "take", "clear"}

(* At most one thread holds the lock.                                      *)
OneHolder == \A z, t \in Threads : Holds(z) /\ Holds(t) => z = t

(* The bits tell which kind of thread holds it.                            *)
BitsTell ==
  /\ \A c \in Consumers : HoldsC(c) => registering
  /\ registering => \E c \in Consumers : HoldsC(c)
  /\ \A p \in Producers : HoldsP(p) => waking /\ ~registering
  /\ waking /\ ~registering => \E p \in Producers : HoldsP(p)
  /\ \A c \in Consumers : pc[c] \in {"retake", "swap"} => waking

(* What the holder knows of the field.                                     *)
FieldKnown ==
  /\ \A c \in Consumers : pc[c] \in {"release", "retake"} => cell = c
  /\ \A c \in Consumers : pc[c] \in {"swap", "wakeOut"} => w[c] = c
  /\ \A p \in Producers : pc[p] = "clear" => cell = None

(* The waker of a registered consumer is in the field, or in the hands of  *)
(* a producer, or has been woken.                                          *)
Armed ==
  \A c \in Consumers :
    Consumers = {c} /\ pc[c] \in {"check", "asleep"} =>
      \/ cell = c \/ woken[c]
      \/ \E p \in Producers : pc[p] \in {"clear", "wake"} /\ w[p] = c

LockInv == TypeOK /\ OneHolder /\ BitsTell /\ FieldKnown
Inv == LockInv /\ Armed /\ NoLostWakeup

\* An AtomicWaker that is new.
LEMMA InitInv == Init => Inv
<1> SUFFICES ASSUME Init PROVE Inv
  OBVIOUS
<1>1. TypeOK
  BY WakerAssumption, Zenon DEF Init, TypeOK, Threads, ConsumerPC, ProducerPC
<1>2. OneHolder /\ BitsTell /\ FieldKnown
  BY WakerAssumption, Zenon DEF Init, OneHolder, BitsTell, FieldKnown, Threads, Holds,
       HoldsC, HoldsP
<1>3. Armed /\ NoLostWakeup
  BY Zenon DEF Init, Armed, NoLostWakeup, Threads
<1> QED
  BY <1>1, <1>2, <1>3, Zenon DEF Inv, LockInv

\* The lock is kept by every step.
LEMMA LockStep == LockInv /\ [Next]_vars => LockInv'
<1> SUFFICES ASSUME LockInv, [Next]_vars PROVE LockInv'
  OBVIOUS
<1> USE WakerAssumption DEF LockInv, Threads, Goto, flags, TypeOK, OneHolder,
       BitsTell, FieldKnown, Holds, HoldsC, HoldsP, ConsumerPC, ProducerPC
<1>1. ASSUME NEW c \in Consumers, Register(c) PROVE LockInv'
  <2>1. TypeOK'
    <3>1. registering' \in BOOLEAN
      BY <1>1, Zenon DEF Register
    <3>2. \E l \in ConsumerPC : Goto(c, l)
      BY <1>1, Zenon DEF Register
    <3> QED BY <1>1, <3>1, <3>2 DEF Register
  <2>2. OneHolder'
    <3>1. CASE registering \/ waking
      BY <1>1, <3>1 DEF Register
    <3>2. CASE ~registering /\ ~waking
      <4>1. \A t \in Threads : ~Holds(t)
        BY <3>2, Zenon
      <4> QED BY <1>1, <4>1 DEF Register
    <3> QED BY <3>1, <3>2, Zenon
  <2>3. BitsTell'
    BY <1>1 DEF Register
  <2>4. FieldKnown'
    BY <1>1 DEF Register
  <2> QED BY <2>1, <2>2, <2>3, <2>4, Zenon
<1>2. ASSUME NEW c \in Consumers, WriteCell(c) PROVE LockInv'
  <2>1. TypeOK'
    BY <1>2, Zenon DEF WriteCell
  <2>2. OneHolder'
    BY <1>2, Zenon DEF WriteCell
  <2>3. BitsTell'
    BY <1>2, Zenon DEF WriteCell
  <2>4. FieldKnown'
    BY <1>2, Zenon DEF WriteCell
  <2> QED BY <2>1, <2>2, <2>3, <2>4, Zenon
<1>3. ASSUME NEW c \in Consumers, Release(c) PROVE LockInv'
  <2>1. TypeOK'
    BY <1>3, Zenon DEF Release
  <2>2. OneHolder'
    BY <1>3, Zenon DEF Release
  <2>3. BitsTell'
    BY <1>3, Zenon DEF Release
  <2>4. FieldKnown'
    BY <1>3, Zenon DEF Release
  <2> QED BY <2>1, <2>2, <2>3, <2>4, Zenon
<1>4. ASSUME NEW c \in Consumers, Retake(c) PROVE LockInv'
  <2>1. TypeOK'
    BY <1>4, Zenon DEF Retake
  <2>2. OneHolder'
    BY <1>4, Zenon DEF Retake
  <2>3. BitsTell'
    BY <1>4, Zenon DEF Retake
  <2>4. FieldKnown'
    BY <1>4, Zenon DEF Retake
  <2> QED BY <2>1, <2>2, <2>3, <2>4, Zenon
<1>5. ASSUME NEW c \in Consumers, Swap(c) PROVE LockInv'
  <2>1. TypeOK'
    BY <1>5, Zenon DEF Swap
  <2>2. OneHolder'
    BY <1>5, Zenon DEF Swap
  <2>3. BitsTell'
    BY <1>5, Zenon DEF Swap
  <2>4. FieldKnown'
    BY <1>5, Zenon DEF Swap
  <2> QED BY <2>1, <2>2, <2>3, <2>4, Zenon
<1>6. ASSUME NEW c \in Consumers, WakeOut(c) PROVE LockInv'
  <2>1. TypeOK'
    BY <1>6, Zenon DEF WakeOut, Wake
  <2>2. OneHolder'
    BY <1>6, Zenon DEF WakeOut, Wake
  <2>3. BitsTell'
    BY <1>6, Zenon DEF WakeOut, Wake
  <2>4. FieldKnown'
    BY <1>6, Zenon DEF WakeOut, Wake
  <2> QED BY <2>1, <2>2, <2>3, <2>4, Zenon
<1>7. ASSUME NEW c \in Consumers, WakeSelf(c) PROVE LockInv'
  <2>1. TypeOK'
    BY <1>7, Zenon DEF WakeSelf
  <2>2. OneHolder'
    BY <1>7, Zenon DEF WakeSelf
  <2>3. BitsTell'
    BY <1>7, Zenon DEF WakeSelf
  <2>4. FieldKnown'
    BY <1>7, Zenon DEF WakeSelf
  <2> QED BY <2>1, <2>2, <2>3, <2>4, Zenon
<1>8. ASSUME NEW c \in Consumers, Check(c) PROVE LockInv'
  <2>1. TypeOK'
    BY <1>8, Zenon DEF Check
  <2>2. OneHolder'
    BY <1>8, Zenon DEF Check
  <2>3. BitsTell'
    BY <1>8, Zenon DEF Check
  <2>4. FieldKnown'
    BY <1>8, Zenon DEF Check
  <2> QED BY <2>1, <2>2, <2>3, <2>4, Zenon
<1>9. ASSUME NEW c \in Consumers, Poll(c) PROVE LockInv'
  <2>1. TypeOK'
    BY <1>9, Zenon DEF Poll
  <2>2. OneHolder'
    BY <1>9, Zenon DEF Poll
  <2>3. BitsTell'
    BY <1>9, Zenon DEF Poll
  <2>4. FieldKnown'
    BY <1>9, Zenon DEF Poll
  <2> QED BY <2>1, <2>2, <2>3, <2>4, Zenon
<1>10. ASSUME NEW p \in Producers, Happen(p) PROVE LockInv'
  <2>1. TypeOK'
    BY <1>10 DEF Happen
  <2>2. OneHolder'
    BY <1>10, Zenon DEF Happen
  <2>3. BitsTell'
    BY <1>10, Zenon DEF Happen
  <2>4. FieldKnown'
    BY <1>10, Zenon DEF Happen
  <2> QED BY <2>1, <2>2, <2>3, <2>4, Zenon
<1>11. ASSUME NEW p \in Producers, FetchOr(p) PROVE LockInv'
  <2>1. TypeOK'
    BY <1>11, Zenon DEF FetchOr
  <2>2. OneHolder'
    BY <1>11 DEF FetchOr
  <2>3. BitsTell'
    BY <1>11, Zenon DEF FetchOr
  <2>4. FieldKnown'
    BY <1>11, Zenon DEF FetchOr
  <2> QED BY <2>1, <2>2, <2>3, <2>4, Zenon
<1>12. ASSUME NEW p \in Producers, TakeCell(p) PROVE LockInv'
  <2>1. TypeOK'
    BY <1>12, Zenon DEF TakeCell
  <2>2. OneHolder'
    BY <1>12, Zenon DEF TakeCell
  <2>3. BitsTell'
    BY <1>12, Zenon DEF TakeCell
  <2>4. FieldKnown'
    BY <1>12, Zenon DEF TakeCell
  <2> QED BY <2>1, <2>2, <2>3, <2>4, Zenon
<1>13. ASSUME NEW p \in Producers, Clear(p) PROVE LockInv'
  <2>1. TypeOK'
    BY <1>13, Zenon DEF Clear
  <2>2. OneHolder'
    BY <1>13, Zenon DEF Clear
  <2>3. BitsTell'
    BY <1>13, Zenon DEF Clear
  <2>4. FieldKnown'
    BY <1>13, Zenon DEF Clear
  <2> QED BY <2>1, <2>2, <2>3, <2>4, Zenon
<1>14. ASSUME NEW p \in Producers, WakeTask(p) PROVE LockInv'
  <2>1. TypeOK'
    BY <1>14, Zenon DEF WakeTask, Wake
  <2>2. OneHolder'
    BY <1>14, Zenon DEF WakeTask, Wake
  <2>3. BitsTell'
    BY <1>14, Zenon DEF WakeTask, Wake
  <2>4. FieldKnown'
    BY <1>14, Zenon DEF WakeTask, Wake
  <2> QED BY <2>1, <2>2, <2>3, <2>4, Zenon
<1>15. CASE UNCHANGED vars
  BY <1>15, Zenon DEF vars, LockInv
<1> QED
  BY <1>1, <1>2, <1>3, <1>4, <1>5, <1>6, <1>7, <1>8, <1>9, <1>10, <1>11, <1>12, <1>13,
       <1>14, <1>15, Zenon DEF Next, Consumer, WakeCall

\* A registered consumer stays registered until it is woken.
LEMMA ArmedStep == Inv /\ [Next]_vars => Armed'
<1> SUFFICES ASSUME Inv, [Next]_vars PROVE Armed'
  OBVIOUS
<1> USE WakerAssumption DEF Inv, LockInv, Threads, Goto, flags, Armed, TypeOK,
       OneHolder, BitsTell, FieldKnown, Holds, HoldsC, HoldsP,
       ConsumerPC, ProducerPC
<1>1. ASSUME NEW c \in Consumers, Register(c) PROVE Armed'
  BY <1>1 DEF Register
<1>2. ASSUME NEW c \in Consumers, WriteCell(c) PROVE Armed'
  BY <1>2, Zenon DEF WriteCell
<1>3. ASSUME NEW c \in Consumers, Release(c) PROVE Armed'
  BY <1>3, Zenon DEF Release
<1>4. ASSUME NEW c \in Consumers, Retake(c) PROVE Armed'
  BY <1>4, Zenon DEF Retake
<1>5. ASSUME NEW c \in Consumers, Swap(c) PROVE Armed'
  BY <1>5, Zenon DEF Swap
<1>6. ASSUME NEW c \in Consumers, WakeOut(c) PROVE Armed'
  BY <1>6, Zenon DEF WakeOut, Wake
<1>7. ASSUME NEW c \in Consumers, WakeSelf(c) PROVE Armed'
  BY <1>7 DEF WakeSelf
<1>8. ASSUME NEW c \in Consumers, Check(c) PROVE Armed'
  BY <1>8 DEF Check
<1>9. ASSUME NEW c \in Consumers, Poll(c) PROVE Armed'
  BY <1>9 DEF Poll
<1>10. ASSUME NEW p \in Producers, Happen(p) PROVE Armed'
  BY <1>10 DEF Happen
<1>11. ASSUME NEW p \in Producers, FetchOr(p) PROVE Armed'
  BY <1>11 DEF FetchOr
<1>12. ASSUME NEW p \in Producers, TakeCell(p) PROVE Armed'
  BY <1>12, Zenon DEF TakeCell
<1>13. ASSUME NEW p \in Producers, Clear(p) PROVE Armed'
  BY <1>13 DEF Clear
<1>14. ASSUME NEW p \in Producers, WakeTask(p) PROVE Armed'
  BY <1>14, Zenon DEF WakeTask, Wake
<1>15. CASE UNCHANGED vars
  BY <1>15, Zenon DEF vars, Armed
<1> QED
  BY <1>1, <1>2, <1>3, <1>4, <1>5, <1>6, <1>7, <1>8, <1>9, <1>10, <1>11, <1>12, <1>13,
       <1>14, <1>15, Zenon DEF Next, Consumer, WakeCall

\* No step loses a wakeup.
LEMMA NoLostStep == Inv /\ [Next]_vars => NoLostWakeup'
<1> SUFFICES ASSUME Inv, [Next]_vars PROVE NoLostWakeup'
  OBVIOUS
<1> USE WakerAssumption DEF Inv, LockInv, Threads, Goto, flags, Armed, TypeOK,
       OneHolder, BitsTell, FieldKnown, Holds, HoldsC, HoldsP,
       ConsumerPC, ProducerPC, NoLostWakeup, WillWake
<1>1. ASSUME NEW c \in Consumers, Register(c) PROVE NoLostWakeup'
  BY <1>1 DEF Register
<1>2. ASSUME NEW c \in Consumers, WriteCell(c) PROVE NoLostWakeup'
  BY <1>2 DEF WriteCell
<1>3. ASSUME NEW c \in Consumers, Release(c) PROVE NoLostWakeup'
  BY <1>3, Zenon DEF Release
<1>4. ASSUME NEW c \in Consumers, Retake(c) PROVE NoLostWakeup'
  BY <1>4 DEF Retake
<1>5. ASSUME NEW c \in Consumers, Swap(c) PROVE NoLostWakeup'
  BY <1>5, Zenon DEF Swap
<1>6. ASSUME NEW c \in Consumers, WakeOut(c) PROVE NoLostWakeup'
  BY <1>6, Zenon DEF WakeOut, Wake
<1>7. ASSUME NEW c \in Consumers, WakeSelf(c) PROVE NoLostWakeup'
  BY <1>7 DEF WakeSelf
<1>8. ASSUME NEW c \in Consumers, Check(c) PROVE NoLostWakeup'
  BY <1>8, Zenon DEF Check
<1>9. ASSUME NEW c \in Consumers, Poll(c) PROVE NoLostWakeup'
  BY <1>9 DEF Poll
<1>10. ASSUME NEW p \in Producers, Happen(p) PROVE NoLostWakeup'
  BY <1>10, Zenon DEF Happen
<1>11. ASSUME NEW p \in Producers, FetchOr(p) PROVE NoLostWakeup'
  BY <1>11 DEF FetchOr
<1>12. ASSUME NEW p \in Producers, TakeCell(p) PROVE NoLostWakeup'
  BY <1>12, Zenon DEF TakeCell
<1>13. ASSUME NEW p \in Producers, Clear(p) PROVE NoLostWakeup'
  BY <1>13, Zenon DEF Clear
<1>14. ASSUME NEW p \in Producers, WakeTask(p) PROVE NoLostWakeup'
  <2> SUFFICES ASSUME NEW c \in Consumers, Consumers = {c}, pc'[c] = "asleep",
                      event', ~woken'[c]
               PROVE \E q \in Producers : WillWake(q, c)'
    OBVIOUS
  <2>1. ~woken[c] /\ w[p] # c
    BY <1>14, Zenon DEF WakeTask, Wake
  <2>2. PICK q \in Producers : WillWake(q, c)
    BY <1>14, <2>1, Zenon DEF WakeTask
  <2>3. q # p
    BY <1>14, <2>1, <2>2, Zenon DEF WakeTask
  <2> QED BY <1>14, <2>2, <2>3, Zenon DEF WakeTask
<1>15. CASE UNCHANGED vars
  BY <1>15 DEF vars, NoLostWakeup
<1> QED
  BY <1>1, <1>2, <1>3, <1>4, <1>5, <1>6, <1>7, <1>8, <1>9, <1>10, <1>11, <1>12, <1>13,
       <1>14, <1>15, Zenon DEF Next, Consumer, WakeCall

\* The three parts together.
LEMMA StepInv == Inv /\ [Next]_vars => Inv'
  BY LockStep, ArmedStep, NoLostStep, Zenon DEF Inv

\* The invariant of all that follows.
LEMMA Invariance == Spec => []Inv
  BY InitInv, StepInv, PTL DEF Spec

\* However many threads call register and wake on one AtomicWaker, no two
\* access its waker field at the same time, and the unwrap and the debug_assert
\* in do_register hold.
THEOREM FieldNotRaced == Spec => []FieldSafe
<1>1. Inv => CellExclusive
  BY Zenon DEF Inv, LockInv, OneHolder, Holds, CellExclusive, Owns
<1>2. ASSUME Inv, NEW c \in Consumers, pc[c] = "retake"
      PROVE cell # None /\ registering /\ waking
  BY <1>2, WakerAssumption, Zenon DEF Inv, LockInv, BitsTell, FieldKnown, HoldsC
<1>3. Inv => RetakeFinds
  BY <1>2, Zenon DEF RetakeFinds
<1>4. Inv => FieldSafe
  BY <1>1, <1>3, Zenon DEF Inv, LockInv, FieldSafe
<1> QED
  BY Invariance, <1>4, PTL

\* A task that registers before it looks is never left asleep on an event,
\* whatever the number of threads that wake it.
THEOREM WakeupNotLost == Spec => []NoLostWakeup
<1>1. Inv => NoLostWakeup
  BY Zenon DEF Inv
<1> QED
  BY Invariance, <1>1, PTL

-----------------------------------------------------------------------------
(***************************************************************************)
(* The list of waiters: what its three operations do to a sequence without *)
(* repetitions.                                                            *)
(***************************************************************************)
LEMMA PushFront ==
  ASSUME NEW S, NEW z \in Seq(S), NEW f \in S, IsInjective(z), f \notin Range(z)
  PROVE  /\ <<f>> \o z \in Seq(S) /\ IsInjective(<<f>> \o z) /\ <<f>> \o z # <<>>
         /\ Range(<<f>> \o z) = Range(z) \cup {f}
<1> DEFINE q == <<f>> \o z
<1>1. q \in Seq(S) /\ Len(q) = Len(z) + 1 /\ q[1] = f /\ \A i \in 2..Len(q) : q[i] = z[i - 1]
  OBVIOUS
<1>2. DOMAIN q = 1..Len(q) /\ DOMAIN z = 1..Len(z) /\ Len(z) \in Nat
  BY <1>1
<1>3. \A i \in DOMAIN z : q[i + 1] = z[i] /\ i + 1 \in DOMAIN q
  BY <1>1, <1>2
<1> HIDE DEF q
<1>4. Range(q) = Range(z) \cup {f}
  <2>1. ASSUME NEW i \in DOMAIN q PROVE q[i] \in Range(z) \cup {f}
    <3>1. CASE i = 1
      BY <1>1, <3>1, Zenon
    <3>2. CASE i # 1
      <4>1. i - 1 \in DOMAIN z /\ q[i] = z[i - 1]
        BY <1>1, <1>2, <3>2
      <4> QED BY <4>1, Zenon DEF Range
    <3> QED BY <3>1, <3>2, Zenon
  <2>2. 1 \in DOMAIN q
    BY <1>1, <1>2
  <2> QED BY <1>1, <1>3, <2>1, <2>2 DEF Range
<1>5. IsInjective(q)
  <2>1. \A i \in DOMAIN q : i # 1 => i - 1 \in DOMAIN z /\ q[i] = z[i - 1] /\ q[i] # f
    BY <1>1, <1>2 DEF Range
  <2> QED BY <1>1, <1>2, <2>1 DEF IsInjective
<1>6. q # <<>>
  BY <1>1, <1>2
<1> QED BY <1>1, <1>4, <1>5, <1>6, Zenon DEF q

\* pop_back takes the last element out and nothing else.
LEMMA PopBack ==
  ASSUME NEW S, NEW z \in Seq(S), IsInjective(z), z # <<>>
  PROVE  /\ pop_back(z) \in Seq(S) /\ IsInjective(pop_back(z)) /\ back(z) \in Range(z) /\ back(z) \in S
         /\ Range(pop_back(z)) = Range(z) \ {back(z)}
         /\ Len(z) = 1 <=> pop_back(z) = <<>>
<1> DEFINE q == pop_back(z)
<1>1. Len(z) \in Nat \ {0} /\ DOMAIN z = 1..Len(z)
  OBVIOUS
<1>2. q \in Seq(S) /\ Len(q) = Len(z) - 1 /\ \A i \in 1..Len(z) - 1 : q[i] = z[i]
  BY <1>1 DEF pop_back
<1>3. DOMAIN q = 1..Len(z) - 1
  BY <1>2
<1>4. IsInjective(q)
  BY <1>1, <1>2, <1>3 DEF IsInjective
<1>5. Range(q) = Range(z) \ {back(z)}
  BY <1>1, <1>2, <1>3 DEF IsInjective, Range, back
<1>6. back(z) \in Range(z) /\ back(z) \in S
  BY <1>1 DEF Range, back
<1>7. Len(z) = 1 <=> q = <<>>
  BY <1>1, <1>2
<1> QED BY <1>2, <1>4, <1>5, <1>6, <1>7, Zenon

\* The elements of two sequences joined.
LEMMA Joined ==
  ASSUME NEW S, NEW a \in Seq(S), NEW b \in Seq(S)
  PROVE  \A i \in 1..Len(a) + Len(b) : (a \o b)[i] = IF i <= Len(a) THEN a[i] ELSE b[i - Len(a)]
OBVIOUS

\* remove takes one element out, wherever it stands.
LEMMA Unlink ==
  ASSUME NEW S, NEW z \in Seq(S), IsInjective(z), NEW f
  PROVE  /\ unlink(z, f) \in Seq(S) /\ IsInjective(unlink(z, f))
         /\ Range(unlink(z, f)) = Range(z) \ {f}
<1>1. CASE f \notin Range(z)
  BY <1>1, Zenon DEF unlink
<1>2. CASE f \in Range(z)
  <2> DEFINE k == CHOOSE i \in DOMAIN z : z[i] = f
             q == SubSeq(z, 1, k - 1) \o SubSeq(z, k + 1, Len(z))
  <2>1. k \in DOMAIN z /\ z[k] = f
    BY <1>2, Zenon DEF Range
  <2>2. Len(z) \in Nat /\ DOMAIN z = 1..Len(z)
    OBVIOUS
  <2> HIDE DEF k
  <2>3. q \in Seq(S) /\ Len(q) = Len(z) - 1
    BY <2>1, <2>2
  <2>4. \A i \in 1..Len(z) - 1 : q[i] = IF i < k THEN z[i] ELSE z[i + 1]
    <3> DEFINE a == SubSeq(z, 1, k - 1)
               b == SubSeq(z, k + 1, Len(z))
    <3>1. a \in Seq(S) /\ Len(a) = k - 1 /\ \A i \in 1..k - 1 : a[i] = z[i]
      BY <2>1, <2>2
    <3>2. b \in Seq(S) /\ Len(b) = Len(z) - k /\ \A i \in 1..Len(z) - k : b[i] = z[k + i]
      BY <2>1, <2>2
    <3>3. q = a \o b
      OBVIOUS
    <3> HIDE DEF a, b, q
    <3>4. \A i \in 1..Len(a) + Len(b) : (a \o b)[i] = IF i <= Len(a) THEN a[i] ELSE b[i - Len(a)]
      BY <3>1, <3>2, Joined, Zenon
    <3>5. ASSUME NEW i \in 1..Len(z) - 1 PROVE q[i] = IF i < k THEN z[i] ELSE z[i + 1]
      <4>1. i \in 1..Len(a) + Len(b)
        BY <2>1, <2>2, <3>1, <3>2
      <4>2. CASE i < k
        BY <2>1, <2>2, <3>1, <3>3, <3>4, <4>1, <4>2
      <4>3. CASE ~(i < k)
        <5> DEFINE j == i - (k - 1)
        <5>1. j \in 1..Len(z) - k /\ k + j = i + 1 /\ ~(i <= k - 1)
          BY <2>1, <2>2, <4>3
        <5>2. q[i] = b[j]
          BY <3>1, <3>3, <3>4, <4>1, <5>1, Zenon
        <5>3. b[j] = z[i + 1]
          BY <3>2, <5>1, Zenon
        <5> QED BY <4>3, <5>2, <5>3, Zenon
      <4> QED BY <4>2, <4>3, Zenon
    <3> QED BY <3>5, Zenon
  <2>5. DOMAIN q = 1..Len(z) - 1
    BY <2>3
  <2> HIDE DEF q
  <2>6. IsInjective(q)
    <3>1. ASSUME NEW i \in DOMAIN q, NEW j \in DOMAIN q, q[i] = q[j] PROVE i = j
      <4> DEFINE was(x) == IF x < k THEN x ELSE x + 1
      <4>1. was(i) \in DOMAIN z /\ z[was(i)] = q[i]
        BY <2>1, <2>2, <2>4, <2>5
      <4>2. was(j) \in DOMAIN z /\ z[was(j)] = q[j]
        BY <2>1, <2>2, <2>4, <2>5
      <4>3. was(i) = was(j)
        BY <3>1, <4>1, <4>2, Zenon DEF IsInjective
      <4> QED BY <2>1, <2>2, <2>5, <4>3
    <3> QED BY <3>1, Zenon DEF IsInjective
  <2>7. \A i \in DOMAIN z : i < k => i \in DOMAIN q /\ q[i] = z[i]
    BY <2>1, <2>2, <2>4, <2>5
  <2>8. \A i \in DOMAIN z : i > k => i - 1 \in DOMAIN q /\ q[i - 1] = z[i]
    BY <2>1, <2>2, <2>4, <2>5
  <2>9. Range(z) \ {f} \subseteq Range(q)
    BY <2>1, <2>2, <2>7, <2>8 DEF Range
  <2>10. Range(q) \subseteq Range(z) \ {f}
    BY <2>1, <2>2, <2>4, <2>5 DEF Range, IsInjective
  <2> QED BY <1>2, <2>3, <2>6, <2>9, <2>10, Zenon DEF unlink, q, k
<1> QED BY <1>1, <1>2, Zenon
-----------------------------------------------------------------------------
(***************************************************************************)
(* Notify.                                                                 *)
(***************************************************************************)
NotifyTypeOK ==
  /\ state \in {"EMPTY", "WAITING", "NOTIFIED"} /\ waiters \in Seq(Futures)
  /\ mutex \in Futures \cup {Nobody} /\ notified \subseteq Futures /\ owed \in BOOLEAN
  /\ fut \in [Futures -> {"Init", "lock", "Waiting", "Done", "dropping", "dropped"}]
  /\ sleeping \subseteq Futures /\ waker \subseteq Futures
  /\ nt \in [Notifiers -> {"idle", "lock", "wake"}]
  /\ toWake \in [NotifyThreads -> Futures \cup {Nobody}]

\* The byte and the list agree also inside a critical section.
ListInv ==
  /\ state = "WAITING" <=> waiters # <<>>
  /\ IsInjective(waiters)
  /\ \A f \in Range(waiters) : fut[f] = "Waiting" /\ f \in waker /\ f \notin notified
  /\ \A f \in Futures : fut[f] = "Waiting" => f \in Range(waiters) \/ f \in notified

\* Who holds the mutex is leaving; a flag outlives its future; who has a wake to deliver
\* is done with the list.
PlaceInv ==
  /\ \A f \in Futures : mutex = f <=> fut[f] = "dropping"
  /\ \A f \in notified : fut[f] \in {"Waiting", "dropping", "dropped"}
  /\ \A f \in sleeping : fut[f] = "Waiting"
  /\ \A n \in Notifiers : nt[n] = "wake" <=> toWake[n] # Nobody
  /\ \A f \in Futures : toWake[f] # Nobody => fut[f] = "dropped"

NotifyInv == NotifyTypeOK /\ ListInv /\ PlaceInv /\ NotificationKept

\* A Notify that is new.
LEMMA NotifyInitInv ==
  ASSUME NotifyInit PROVE NotifyInv
<1>1. Range(waiters) = {} /\ IsInjective(waiters) /\ waiters \in Seq(Futures)
  BY DEF NotifyInit, Range, IsInjective
<1> QED
  BY NotifyAssumption, <1>1, Zenon DEF NotifyInit, NotifyInv, NotifyTypeOK, ListInv,
       PlaceInv, NotificationKept, NotifyThreads

\* One step per operation of Notify.
LEMMA NotifyStepInv ==
  ASSUME NotifyInv, [NotifyNext]_notifyVars PROVE NotifyInv'
<1> USE NotifyAssumption DEF NotifyInv, NotifyThreads
<1>1. ASSUME NEW n \in Notifiers, NotifyFast(n) PROVE NotifyInv'
  <2>a. NotifyTypeOK'
    BY <1>1, Zenon DEF NotifyFast, NotifyTypeOK
  <2>b. ListInv'
    BY <1>1, Zenon DEF NotifyFast, NotifyTypeOK, ListInv, PlaceInv
  <2>c. PlaceInv'
    BY <1>1 DEF NotifyFast, NotifyTypeOK, ListInv, PlaceInv
  <2>d. NotificationKept'
    BY <1>1, Zenon DEF NotifyFast, NotifyTypeOK, ListInv, PlaceInv, NotificationKept
  <2> QED BY <2>a, <2>b, <2>c, <2>d, Zenon
<1>2. ASSUME NEW n \in Notifiers, NotifySlow(n) PROVE NotifyInv'
  <2>1. CASE state = "WAITING"
    <3>1. PICK f \in Futures : f = back(waiters) /\ f \in Range(waiters)
      BY <2>1, PopBack, Zenon DEF NotifyTypeOK, ListInv
    <3>2. /\ waiters' \in Seq(Futures) /\ IsInjective(waiters') /\ Range(waiters') = Range(waiters) \ {f}
          /\ state' = "WAITING" <=> waiters' # <<>>
          /\ state' \in {"EMPTY", "WAITING"}
      BY <1>2, <2>1, <3>1, PopBack DEF NotifySlow, notify_locked, NotifyTypeOK, ListInv
    <3>3. /\ notified' = notified \cup {f} /\ waker' = waker \ {f} /\ owed'
          /\ toWake' = [toWake EXCEPT ![n] = f] /\ nt' = [nt EXCEPT ![n] = "wake"]
          /\ toWake[n] = Nobody /\ UNCHANGED <<mutex, fut, sleeping, calls>>
      BY <1>2, <2>1, <3>1 DEF NotifySlow, notify_locked, NotifyTypeOK, PlaceInv
    <3>a. NotifyTypeOK'
      BY <3>1, <3>2, <3>3, Zenon DEF NotifyTypeOK
    <3>b. ListInv'
      BY <3>1, <3>2, <3>3, Zenon DEF NotifyTypeOK, ListInv, PlaceInv
    <3>c. PlaceInv'
      BY <3>1, <3>2, <3>3 DEF NotifyTypeOK, ListInv, PlaceInv
    <3>d. NotificationKept'
      BY <3>1, <3>2, <3>3 DEF NotifyTypeOK, ListInv, PlaceInv, NotificationKept
    <3> QED BY <3>a, <3>b, <3>c, <3>d, Zenon
  <2>2. CASE state # "WAITING"
    <3>a. NotifyTypeOK'
      BY <1>2, <2>2, Zenon DEF NotifySlow, notify_locked, NotifyTypeOK
    <3>b. ListInv'
      BY <1>2, <2>2 DEF NotifySlow, notify_locked, NotifyTypeOK, ListInv, PlaceInv
    <3>c. PlaceInv'
      BY <1>2, <2>2 DEF NotifySlow, notify_locked, NotifyTypeOK, ListInv, PlaceInv
    <3>d. NotificationKept'
      BY <1>2, <2>2 DEF NotifySlow, notify_locked, NotifyTypeOK, ListInv, PlaceInv,
           NotificationKept
    <3> QED BY <3>a, <3>b, <3>c, <3>d, Zenon
  <2> QED BY <2>1, <2>2, Zenon
<1>3. ASSUME NEW t \in NotifyThreads, NotifyWake(t) PROVE NotifyInv'
  <2>a. NotifyTypeOK'
    BY <1>3, Zenon DEF NotifyWake, NotifyTypeOK
  <2>b. ListInv'
    BY <1>3, Zenon DEF NotifyWake, NotifyTypeOK, ListInv, PlaceInv
  <2>c. PlaceInv'
    BY <1>3 DEF NotifyWake, NotifyTypeOK, ListInv, PlaceInv
  <2>d. NotificationKept'
    BY <1>3, Zenon DEF NotifyWake, NotifyTypeOK, ListInv, PlaceInv, NotificationKept
  <2> QED BY <2>a, <2>b, <2>c, <2>d, Zenon
<1>4. ASSUME NEW f \in Futures, PollInit(f) PROVE NotifyInv'
  <2>a. NotifyTypeOK'
    BY <1>4, Zenon DEF PollInit, NotifyTypeOK
  <2>b. ListInv'
    BY <1>4 DEF PollInit, NotifyTypeOK, ListInv, PlaceInv
  <2>c. PlaceInv'
    BY <1>4 DEF PollInit, NotifyTypeOK, ListInv, PlaceInv
  <2>d. NotificationKept'
    BY <1>4 DEF PollInit, NotifyTypeOK, ListInv, PlaceInv, NotificationKept
  <2> QED BY <2>a, <2>b, <2>c, <2>d, Zenon
<1>5. ASSUME NEW f \in Futures, PollJoin(f) PROVE NotifyInv'
  <2>1. CASE state = "NOTIFIED"
    <3>a. NotifyTypeOK'
      BY <1>5, <2>1, Zenon DEF PollJoin, NotifyTypeOK
    <3>b. ListInv'
      BY <1>5, <2>1 DEF PollJoin, NotifyTypeOK, ListInv, PlaceInv
    <3>c. PlaceInv'
      BY <1>5, <2>1 DEF PollJoin, NotifyTypeOK, ListInv, PlaceInv
    <3>d. NotificationKept'
      BY <1>5, <2>1, Zenon DEF PollJoin, NotifyTypeOK, ListInv, PlaceInv, NotificationKept
    <3> QED BY <3>a, <3>b, <3>c, <3>d, Zenon
  <2>2. CASE state # "NOTIFIED"
    <3>1. f \notin Range(waiters) /\ f \notin notified
      BY <1>5, Zenon DEF PollJoin, NotifyTypeOK, ListInv, PlaceInv
    <3>2. /\ waiters' \in Seq(Futures) /\ IsInjective(waiters') /\ waiters' # <<>>
          /\ Range(waiters') = Range(waiters) \cup {f}
      <4>1. waiters' = <<f>> \o waiters
        BY <1>5, <2>2, Zenon DEF PollJoin
      <4>2. waiters \in Seq(Futures) /\ IsInjective(waiters)
        BY Zenon DEF NotifyTypeOK, ListInv
      <4> HIDE DEF NotifyInv
      <4> QED BY <3>1, <4>1, <4>2, PushFront
    <3>a. NotifyTypeOK'
      BY <1>5, <2>2, <3>1, <3>2 DEF PollJoin, NotifyTypeOK
    <3>b. ListInv'
      BY <1>5, <2>2, <3>1, <3>2, SMTT(30) DEF PollJoin, NotifyTypeOK, ListInv, PlaceInv
    <3>c. PlaceInv'
      BY <1>5, <2>2, <3>1, <3>2 DEF PollJoin, NotifyTypeOK, ListInv, PlaceInv
    <3>d. NotificationKept'
      BY <1>5, <2>2, <3>1, <3>2 DEF PollJoin, NotifyTypeOK, ListInv, PlaceInv, NotificationKept
    <3> QED BY <3>a, <3>b, <3>c, <3>d, Zenon
  <2> QED BY <2>1, <2>2, Zenon
<1>6. ASSUME NEW f \in Futures, PollWaiting(f) PROVE NotifyInv'
  <2>a. NotifyTypeOK'
    BY <1>6, Zenon DEF PollWaiting, NotifyTypeOK
  <2>b. ListInv'
    BY <1>6 DEF PollWaiting, NotifyTypeOK, ListInv, PlaceInv
  <2>c. PlaceInv'
    BY <1>6 DEF PollWaiting, NotifyTypeOK, ListInv, PlaceInv
  <2>d. NotificationKept'
    BY <1>6 DEF PollWaiting, NotifyTypeOK, ListInv, PlaceInv, NotificationKept
  <2> QED BY <2>a, <2>b, <2>c, <2>d, Zenon
<1>7. ASSUME NEW f \in Futures, DropIdle(f) PROVE NotifyInv'
  <2>a. NotifyTypeOK'
    BY <1>7, Zenon DEF DropIdle, NotifyTypeOK
  <2>b. ListInv'
    BY <1>7, Zenon DEF DropIdle, NotifyTypeOK, ListInv, PlaceInv
  <2>c. PlaceInv'
    BY <1>7 DEF DropIdle, NotifyTypeOK, ListInv, PlaceInv
  <2>d. NotificationKept'
    BY <1>7 DEF DropIdle, NotifyTypeOK, ListInv, PlaceInv, NotificationKept
  <2> QED BY <2>a, <2>b, <2>c, <2>d, Zenon
<1>8. ASSUME NEW f \in Futures, DropWaiting(f) PROVE NotifyInv'
  <2>1. /\ waiters' \in Seq(Futures) /\ IsInjective(waiters')
        /\ Range(waiters') = Range(waiters) \ {f}
    BY <1>8, Unlink, Zenon DEF DropWaiting, NotifyTypeOK, ListInv
  <2>2. waiters = <<>> => f \in notified /\ waiters' = <<>>
    BY <1>8 DEF DropWaiting, unlink, Range, NotifyTypeOK, ListInv
  <2>a. NotifyTypeOK'
    BY <1>8, <2>1, <2>2, Zenon DEF DropWaiting, NotifyTypeOK
  <2>b. ListInv'
    BY <1>8, <2>1, <2>2, SMTT(30) DEF DropWaiting, NotifyTypeOK, ListInv, PlaceInv
  <2>c. PlaceInv'
    BY <1>8, <2>1, <2>2, SMTT(30) DEF DropWaiting, NotifyTypeOK, ListInv, PlaceInv
  <2>d. NotificationKept'
    BY <1>8, <2>1, <2>2 DEF DropWaiting, NotifyTypeOK, ListInv, PlaceInv, NotificationKept
  <2> QED BY <2>a, <2>b, <2>c, <2>d, Zenon
<1>9. ASSUME NEW f \in Futures, DropForward(f) PROVE NotifyInv'
  <2>1. CASE f \notin notified
    <3>a. NotifyTypeOK'
      BY <1>9, <2>1, Zenon DEF DropForward, NotifyTypeOK
    <3>b. ListInv'
      BY <1>9, <2>1 DEF DropForward, NotifyTypeOK, ListInv, PlaceInv
    <3>c. PlaceInv'
      BY <1>9, <2>1, SMTT(30) DEF DropForward, NotifyTypeOK, ListInv, PlaceInv
    <3>d. NotificationKept'
      BY <1>9, <2>1 DEF DropForward, NotifyTypeOK, ListInv, PlaceInv, NotificationKept
    <3> QED BY <3>a, <3>b, <3>c, <3>d, Zenon
  <2>2. CASE f \in notified /\ waiters = <<>>
    <3>a. NotifyTypeOK'
      BY <1>9, <2>2, Zenon DEF DropForward, notify_locked, NotifyTypeOK
    <3>b. ListInv'
      BY <1>9, <2>2, SMTT(30) DEF DropForward, notify_locked, NotifyTypeOK, ListInv, PlaceInv
    <3>c. PlaceInv'
      BY <1>9, <2>2, SMTT(30) DEF DropForward, notify_locked, NotifyTypeOK, ListInv, PlaceInv
    <3>d. NotificationKept'
      BY <1>9, <2>2 DEF DropForward, notify_locked, NotifyTypeOK, ListInv, PlaceInv,
           NotificationKept
    <3> QED BY <3>a, <3>b, <3>c, <3>d, Zenon
  <2>3. CASE f \in notified /\ waiters # <<>>
    <3>1. PICK g \in Futures : g = back(waiters) /\ g \in Range(waiters)
      BY <2>3, PopBack, Zenon DEF NotifyTypeOK, ListInv
    <3>2. /\ waiters' \in Seq(Futures) /\ IsInjective(waiters') /\ Range(waiters') = Range(waiters) \ {g}
          /\ state' = "WAITING" <=> waiters' # <<>>
          /\ state' \in {"EMPTY", "WAITING"}
      BY <1>9, <2>3, <3>1, PopBack DEF DropForward, notify_locked, NotifyTypeOK, ListInv
    <3>3. /\ notified' = notified \cup {g} /\ waker' = waker \ {g} /\ mutex' = Nobody
          /\ toWake' = [toWake EXCEPT ![f] = g] /\ fut' = [fut EXCEPT ![f] = "dropped"]
          /\ toWake[f] = Nobody /\ fut[f] = "dropping" /\ UNCHANGED <<sleeping, nt, calls, owed>>
      BY <1>9, <2>3, <3>1, Zenon DEF DropForward, notify_locked, NotifyTypeOK, PlaceInv
    <3>a. NotifyTypeOK'
      BY <3>1, <3>2, <3>3, Zenon DEF NotifyTypeOK
    <3>b. ListInv'
      BY <3>1, <3>2, <3>3, Zenon DEF NotifyTypeOK, ListInv, PlaceInv
    <3>c. PlaceInv'
      BY <3>1, <3>2, <3>3, SMTT(30) DEF NotifyTypeOK, ListInv, PlaceInv
    <3>d. NotificationKept'
      BY <3>1, <3>2, <3>3 DEF NotifyTypeOK, ListInv, PlaceInv, NotificationKept
    <3> QED BY <3>a, <3>b, <3>c, <3>d, Zenon
  <2> QED BY <2>1, <2>2, <2>3, Zenon
<1>10. CASE UNCHANGED notifyVars
  BY <1>10, Zenon DEF notifyVars, NotifyTypeOK, ListInv, PlaceInv, NotificationKept
<1> QED BY <1>1, <1>2, <1>3, <1>4, <1>5, <1>6, <1>7, <1>8, <1>9, <1>10, Zenon DEF NotifyNext

\* For any futures and notifying threads, the byte and the list of waiters agree and a
\* notify() that was not received is the stored permit or a flagged waiter's, who has been
\* woken or will be (notify, notify_locked, Notified::poll, Drop for Notified).
THEOREM NotificationsKept == NotifySpec => []NotifySound
<1>1. NotifyInv => NotifySound
  BY Zenon DEF NotifyInv, NotifySound, ListAgrees, ListInv
<1>2. NotifyInit => NotifyInv
  BY NotifyInitInv, Zenon
<1>3. NotifyInv /\ [NotifyNext]_notifyVars => NotifyInv'
  BY NotifyStepInv, Zenon
<1> QED BY <1>1, <1>2, <1>3, PTL DEF NotifySpec

-----------------------------------------------------------------------------
(***************************************************************************)
(* The watch channel.                                                      *)
(***************************************************************************)
WatchTypeOK ==
  /\ value \in Nat /\ version \in Nat /\ closed \in BOOLEAN /\ txWaker \in BOOLEAN
  /\ watchers \subseteq Receivers /\ rxWaker \subseteq Receivers /\ count \in Nat
  /\ bc \in [WatchThreads -> {"idle", "value", "version", "notify", "release"}]
  /\ mine \in [WatchThreads -> Nat]
  /\ rx \in [Receivers -> {"none", "idle", "load", "compare", "gone"}]
  /\ ver \in [Receivers -> Nat] /\ seen \in [Receivers -> Nat]
  /\ watch_state \in [Receivers -> Nat \X BOOLEAN]
  /\ ended \subseteq Receivers /\ asleep \subseteq Receivers \cup {Tx}
  /\ txState \in {"idle", "done", "pending", "drop", "release", "gone"}

\* A version that was bumped is on its way to the wakers.
Notifying == \E t \in WatchThreads : bc[t] = "notify"

\* What a receiver knows: nothing of the future; the latest version comes with the latest
\* value unless a broadcast is between the two; a version loaded after the waker was
\* registered is the latest, or the waker will be called.
ReceiverInv(y) ==
  /\ ver[y] <= version /\ watch_state[y][1] <= version
  /\ rx[y] \in {"idle", "load", "compare"} => y \in watchers
  /\ ver[y] = version /\ (\A t \in WatchThreads : bc[t] # "version") => seen[y] = value
  /\ rx[y] = "compare" /\ watch_state[y][2] => closed /\ watch_state[y][1] = version
  /\ rx[y] = "compare" /\ y \in rxWaker =>
       /\ watch_state[y][1] = version \/ Notifying
       /\ closed /\ ~watch_state[y][2] => txState = "drop"
  /\ y \in asleep => /\ y \in rxWaker /\ rx[y] = "idle"
                     /\ ver[y] = version \/ Notifying
                     /\ closed => txState = "drop"
  /\ y \in ended => rx[y] # "none" /\ closed /\ seen[y] = value

\* After the Sender is dropped nothing is broadcast; the task that sleeps in closed() is
\* registered with an Arc that somebody holds.
SenderInv ==
  /\ closed => /\ txState \in {"drop", "release", "gone"}
               /\ \A t \in WatchThreads : bc[t] = "idle"
  /\ Tx \in asleep => txWaker /\ strong # {} /\ txState = "pending"
  /\ txState = "pending" /\ Tx \in strong => txWaker

WatchInv == WatchTypeOK /\ SenderInv /\ \A y \in Receivers : ReceiverInv(y)

\* A watch channel that is new.
LEMMA WatchInitInv ==
  ASSUME WatchInit PROVE WatchInv
<1>1. WatchTypeOK
  BY WatchAssumption, Zenon DEF WatchInit, WatchTypeOK
<1>2. SenderInv
  BY Zenon DEF WatchInit, SenderInv
<1>3. ASSUME NEW y \in Receivers PROVE ReceiverInv(y)
  BY DEF WatchInit, ReceiverInv
<1> QED BY <1>1, <1>2, <1>3, Zenon DEF WatchInv

\* One step per operation of the channel.
LEMMA WatchStepInv ==
  ASSUME WatchInv, [WatchNext]_watchVars PROVE WatchInv'
<1> USE WatchAssumption
<1>1. ASSUME NEW t \in WatchThreads, Upgrade(t) PROVE WatchInv'
  <2>1. WatchTypeOK'
    BY <1>1 DEF Upgrade, sharedVars, bcVars, rxVars, WatchInv, WatchTypeOK
  <2>2. SenderInv'
    BY <1>1, Zenon DEF Upgrade, sharedVars, bcVars, rxVars, WatchInv, WatchTypeOK, SenderInv
  <2>3. ASSUME NEW y \in Receivers PROVE ReceiverInv(y)'
    BY <1>1, Zenon DEF Upgrade, sharedVars, bcVars, rxVars, WatchInv, WatchTypeOK,
         SenderInv, ReceiverInv, Notifying
  <2> QED BY <2>1, <2>2, <2>3, Zenon DEF WatchInv
<1>2. ASSUME NEW t \in WatchThreads, Replace(t) PROVE WatchInv'
  <2>1. WatchTypeOK'
    BY <1>2, Zenon DEF Replace, sharedVars, bcVars, rxVars, WatchInv, WatchTypeOK
  <2>2. SenderInv'
    BY <1>2, Zenon DEF Replace, sharedVars, bcVars, rxVars, WatchInv, WatchTypeOK, SenderInv
  <2>3. ASSUME NEW y \in Receivers PROVE ReceiverInv(y)'
    BY <1>2, Zenon DEF Replace, sharedVars, bcVars, rxVars, WatchInv, WatchTypeOK,
         SenderInv, ReceiverInv, Notifying
  <2> QED BY <2>1, <2>2, <2>3, Zenon DEF WatchInv
<1>3. ASSUME NEW t \in WatchThreads, Bump(t) PROVE WatchInv'
  <2>1. WatchTypeOK'
    BY <1>3 DEF Bump, sharedVars, bcVars, rxVars, WatchInv, WatchTypeOK
  <2>2. SenderInv'
    BY <1>3, Zenon DEF Bump, sharedVars, bcVars, rxVars, WatchInv, WatchTypeOK, SenderInv
  <2>3. ASSUME NEW y \in Receivers PROVE ReceiverInv(y)'
    BY <1>3 DEF Bump, sharedVars, bcVars, rxVars, WatchInv, WatchTypeOK, SenderInv,
         ReceiverInv, Notifying
  <2> QED BY <2>1, <2>2, <2>3, Zenon DEF WatchInv
<1>4. ASSUME NEW t \in WatchThreads, notify_all(t) PROVE WatchInv'
  <2>1. WatchTypeOK'
    BY <1>4, Zenon DEF notify_all, WakeRx, sharedVars, bcVars, rxVars, WatchInv, WatchTypeOK
  <2>2. SenderInv'
    BY <1>4, Zenon DEF notify_all, WakeRx, sharedVars, bcVars, rxVars, WatchInv,
         WatchTypeOK, SenderInv
  <2>3. ASSUME NEW y \in Receivers PROVE ReceiverInv(y)'
    BY <1>4, Zenon DEF notify_all, WakeRx, sharedVars, bcVars, rxVars, WatchInv,
         WatchTypeOK, SenderInv, ReceiverInv, Notifying
  <2> QED BY <2>1, <2>2, <2>3, Zenon DEF WatchInv
<1>5. ASSUME NEW t \in WatchThreads, ReleaseBc(t) PROVE WatchInv'
  <2>1. WatchTypeOK'
    BY <1>5, Zenon DEF ReleaseBc, ReleaseArc, sharedVars, bcVars, rxVars, WatchInv, WatchTypeOK
  <2>2. SenderInv'
    BY <1>5, Zenon DEF ReleaseBc, ReleaseArc, sharedVars, bcVars, rxVars, WatchInv,
         WatchTypeOK, SenderInv
  <2>3. ASSUME NEW y \in Receivers PROVE ReceiverInv(y)'
    BY <1>5, Zenon DEF ReleaseBc, ReleaseArc, sharedVars, bcVars, rxVars, WatchInv,
         WatchTypeOK, SenderInv, ReceiverInv, Notifying
  <2> QED BY <2>1, <2>2, <2>3, Zenon DEF WatchInv
<1>6. ASSUME DropSender PROVE WatchInv'
  <2>1. WatchTypeOK'
    BY <1>6, Zenon DEF DropSender, sharedVars, bcVars, rxVars, WatchInv, WatchTypeOK
  <2>2. SenderInv'
    BY <1>6, Zenon DEF DropSender, sharedVars, bcVars, rxVars, WatchInv, WatchTypeOK, SenderInv
  <2>3. ASSUME NEW y \in Receivers PROVE ReceiverInv(y)'
    BY <1>6, Zenon DEF DropSender, sharedVars, bcVars, rxVars, WatchInv, WatchTypeOK,
         SenderInv, ReceiverInv, Notifying
  <2> QED BY <2>1, <2>2, <2>3, Zenon DEF WatchInv
<1>7. ASSUME DropNotify PROVE WatchInv'
  <2>1. WatchTypeOK'
    BY <1>7, Zenon DEF DropNotify, WakeRx, sharedVars, bcVars, rxVars, WatchInv, WatchTypeOK
  <2>2. SenderInv'
    BY <1>7, Zenon DEF DropNotify, WakeRx, sharedVars, bcVars, rxVars, WatchInv,
         WatchTypeOK, SenderInv
  <2>3. ASSUME NEW y \in Receivers PROVE ReceiverInv(y)'
    BY <1>7, Zenon DEF DropNotify, WakeRx, sharedVars, bcVars, rxVars, WatchInv,
         WatchTypeOK, SenderInv, ReceiverInv, Notifying
  <2> QED BY <2>1, <2>2, <2>3, Zenon DEF WatchInv
<1>8. ASSUME DropEnd PROVE WatchInv'
  <2>1. WatchTypeOK'
    BY <1>8, Zenon DEF DropEnd, ReleaseArc, sharedVars, bcVars, rxVars, WatchInv, WatchTypeOK
  <2>2. SenderInv'
    BY <1>8, Zenon DEF DropEnd, ReleaseArc, sharedVars, bcVars, rxVars, WatchInv,
         WatchTypeOK, SenderInv
  <2>3. ASSUME NEW y \in Receivers PROVE ReceiverInv(y)'
    BY <1>8, Zenon DEF DropEnd, ReleaseArc, sharedVars, bcVars, rxVars, WatchInv,
         WatchTypeOK, SenderInv, ReceiverInv, Notifying
  <2> QED BY <2>1, <2>2, <2>3, Zenon DEF WatchInv
<1>9. ASSUME PollClose PROVE WatchInv'
  <2>1. WatchTypeOK'
    BY <1>9, Zenon DEF PollClose, sharedVars, bcVars, rxVars, WatchInv, WatchTypeOK
  <2>2. SenderInv'
    BY <1>9, Zenon DEF PollClose, sharedVars, bcVars, rxVars, WatchInv, WatchTypeOK, SenderInv
  <2>3. ASSUME NEW y \in Receivers PROVE ReceiverInv(y)'
    BY <1>9, Zenon DEF PollClose, sharedVars, bcVars, rxVars, WatchInv, WatchTypeOK,
         SenderInv, ReceiverInv, Notifying
  <2> QED BY <2>1, <2>2, <2>3, Zenon DEF WatchInv
<1>10. ASSUME PollCloseEnd PROVE WatchInv'
  <2>1. WatchTypeOK'
    BY <1>10, Zenon DEF PollCloseEnd, ReleaseArc, sharedVars, bcVars, rxVars, WatchInv,
         WatchTypeOK
  <2>2. SenderInv'
    BY <1>10, Zenon DEF PollCloseEnd, ReleaseArc, sharedVars, bcVars, rxVars, WatchInv,
         WatchTypeOK, SenderInv
  <2>3. ASSUME NEW y \in Receivers PROVE ReceiverInv(y)'
    BY <1>10, Zenon DEF PollCloseEnd, ReleaseArc, sharedVars, bcVars, rxVars, WatchInv,
         WatchTypeOK, SenderInv, ReceiverInv, Notifying
  <2> QED BY <2>1, <2>2, <2>3, Zenon DEF WatchInv
<1>11. ASSUME Woken PROVE WatchInv'
  <2>1. WatchTypeOK'
    BY <1>11, Zenon DEF Woken, sharedVars, bcVars, rxVars, WatchInv, WatchTypeOK
  <2>2. SenderInv'
    BY <1>11, Zenon DEF Woken, sharedVars, bcVars, rxVars, WatchInv, WatchTypeOK, SenderInv
  <2>3. ASSUME NEW y \in Receivers PROVE ReceiverInv(y)'
    BY <1>11, Zenon DEF Woken, sharedVars, bcVars, rxVars, WatchInv, WatchTypeOK, SenderInv,
         ReceiverInv, Notifying
  <2> QED BY <2>1, <2>2, <2>3, Zenon DEF WatchInv
<1>12. ASSUME NEW x \in Receivers, RegisterRx(x) PROVE WatchInv'
  <2>1. WatchTypeOK'
    BY <1>12, Zenon DEF RegisterRx, sharedVars, bcVars, rxVars, WatchInv, WatchTypeOK
  <2>2. SenderInv'
    BY <1>12, Zenon DEF RegisterRx, sharedVars, bcVars, rxVars, WatchInv, WatchTypeOK,
         SenderInv
  <2>3. ASSUME NEW y \in Receivers PROVE ReceiverInv(y)'
    BY <1>12, Zenon DEF RegisterRx, sharedVars, bcVars, rxVars, WatchInv, WatchTypeOK,
         SenderInv, ReceiverInv, Notifying
  <2> QED BY <2>1, <2>2, <2>3, Zenon DEF WatchInv
<1>13. ASSUME NEW x \in Receivers, Load(x) PROVE WatchInv'
  <2>1. WatchTypeOK'
    BY <1>13, Zenon DEF Load, sharedVars, bcVars, rxVars, WatchInv, WatchTypeOK
  <2>2. SenderInv'
    BY <1>13, Zenon DEF Load, sharedVars, bcVars, rxVars, WatchInv, WatchTypeOK, SenderInv
  <2>3. ASSUME NEW y \in Receivers PROVE ReceiverInv(y)'
    BY <1>13 DEF Load, sharedVars, bcVars, rxVars, WatchInv, WatchTypeOK, SenderInv,
         ReceiverInv, Notifying
  <2> QED BY <2>1, <2>2, <2>3, Zenon DEF WatchInv
<1>14. ASSUME NEW x \in Receivers, Compare(x) PROVE WatchInv'
  <2>1. WatchTypeOK'
    BY <1>14 DEF Compare, sharedVars, bcVars, rxVars, WatchInv, WatchTypeOK
  <2>2. SenderInv'
    BY <1>14 DEF Compare, sharedVars, bcVars, rxVars, WatchInv, WatchTypeOK, SenderInv
  <2>3. ASSUME NEW y \in Receivers PROVE ReceiverInv(y)'
    BY <1>14 DEF Compare, sharedVars, bcVars, rxVars, WatchInv, WatchTypeOK, SenderInv,
         ReceiverInv, Notifying
  <2> QED BY <2>1, <2>2, <2>3, Zenon DEF WatchInv
<1>15. ASSUME NEW x \in Receivers, DropReceiver(x) PROVE WatchInv'
  <2>1. WatchTypeOK'
    BY <1>15, Zenon DEF DropReceiver, ReleaseArc, sharedVars, bcVars, rxVars, WatchInv,
         WatchTypeOK
  <2>2. SenderInv'
    BY <1>15, Zenon DEF DropReceiver, ReleaseArc, sharedVars, bcVars, rxVars, WatchInv,
         WatchTypeOK, SenderInv
  <2>3. ASSUME NEW y \in Receivers PROVE ReceiverInv(y)'
    BY <1>15, Zenon DEF DropReceiver, ReleaseArc, sharedVars, bcVars, rxVars, WatchInv,
         WatchTypeOK, SenderInv, ReceiverInv, Notifying
  <2> QED BY <2>1, <2>2, <2>3, Zenon DEF WatchInv
<1>16. ASSUME NEW x \in Receivers, NEW c \in Receivers, Clone(x, c) PROVE WatchInv'
  <2>1. WatchTypeOK'
    BY <1>16, Zenon DEF Clone, sharedVars, bcVars, rxVars, WatchInv, WatchTypeOK
  <2>2. SenderInv'
    BY <1>16, Zenon DEF Clone, sharedVars, bcVars, rxVars, WatchInv, WatchTypeOK, SenderInv
  <2>3. ASSUME NEW y \in Receivers PROVE ReceiverInv(y)'
    BY <1>16 DEF Clone, sharedVars, bcVars, rxVars, WatchInv, WatchTypeOK, SenderInv,
         ReceiverInv, Notifying
  <2> QED BY <2>1, <2>2, <2>3, Zenon DEF WatchInv
<1>17. CASE UNCHANGED watchVars
  BY <1>17, Zenon DEF watchVars, sharedVars, bcVars, rxVars, WatchInv, WatchTypeOK,
       SenderInv, ReceiverInv, Notifying
<1> QED BY <1>1, <1>2, <1>3, <1>4, <1>5, <1>6, <1>7, <1>8, <1>9, <1>10, <1>11, <1>12, <1>13,
     <1>14, <1>15, <1>16, <1>17, Zenon DEF WatchNext

\* For any broadcasters and receivers, a receiver that sleeps has the latest value and
\* knows of the end unless its waker is about to be called, the end comes after the last
\* value, and closed() sleeps only while a receiver is left (poll_recv_ref, broadcast,
\* notify_all, Drop for Sender and for Shared).
THEOREM LatestValueSeen == WatchSpec => []WatchSound
<1>1. WatchInv => WatchSound
  BY Zenon DEF WatchInv, WatchSound, LatestSeen, EndIsLast, CloseIsHeard, ReceiverInv,
       SenderInv, WatchTypeOK, Notifying, Quiet
<1>2. WatchInit => WatchInv
  BY WatchInitInv, Zenon
<1>3. WatchInv /\ [WatchNext]_watchVars => WatchInv'
  BY WatchStepInv, Zenon
<1> QED BY <1>1, <1>2, <1>3, PTL DEF WatchSpec

-----------------------------------------------------------------------------
(***************************************************************************)
(* OneshotSound for any wakers.                                            *)
(***************************************************************************)
\* The flag says whether the cell is full, but while its owner replaces the waker.
CellsInv ==
  /\ r \notin {"resetRx", "dropRx", "setRx", "flagRx"} => (rxSet <=> rxTask # NoWaker)
  /\ r \in {"resetRx", "dropRx", "flagRx"} => ~rxSet /\ rxTask # NoWaker
  /\ r = "setRx" => ~rxSet /\ rxTask = NoWaker
  /\ r \in {"unsetRx", "resetRx", "dropRx", "setRx", "flagRx"} => rw # NoWaker
  /\ (r = "unsetRx" => rxSet) /\ (r = "flagRx" => rxTask = rw)
  /\ s \notin {"resetTx", "dropTx", "setTx", "flagTx"} => (txSet <=> txTask # NoWaker)
  /\ s \in {"resetTx", "dropTx", "flagTx"} => ~txSet /\ txTask # NoWaker
  /\ s = "setTx" => ~txSet /\ txTask = NoWaker
  /\ s \in {"unsetTx", "resetTx", "dropTx", "setTx", "flagTx"} => sw # NoWaker
  /\ (s = "unsetTx" => txSet) /\ (s = "flagTx" => txTask = sw)

\* What the position of one side says of the state word, and so of the other side.
OrderInv ==
  /\ sent <=> s \in {"wakeRx", "takeBack", "gone"}
  /\ ~sent /\ s # "complete" => sendResult = "none"
  /\ s = "wakeRx" => rxTask # NoWaker /\ r \notin {"dropRx", "setRx", "flagRx"}
  /\ s = "takeBack" => rxClosed
  /\ s = "complete" => sendResult \in {"sending", "dropped"} /\ (sendResult = "sending" => valueCell)
  /\ r \in {"resetRx", "consume", "tryConsume"} => sent
  /\ r = "wakeTx" => rxClosed /\ txTask # NoWaker /\ s \notin {"dropTx", "setTx", "flagTx"}
  /\ rxClosed => r \notin {"unsetRx", "resetRx", "dropRx", "setRx", "flagRx"}
  /\ sent /\ ~rxClosed /\ r # "gone" /\ sendResult # "dropped" => valueCell

\* Who sleeps has its waker in its cell, flagged.
SleepInv ==
  /\ r = "idle" => \A k \in sleepers \cap RxWakers : k = rxTask /\ rxSet /\ ~rxClosed
  /\ r \notin {"idle", "tryConsume", "gone"} => sleepers \cap RxWakers = {}
  /\ s = "idle" => \A k \in sleepers \cap TxWakers : k = txTask /\ txSet
  /\ s \in {"unsetTx", "resetTx", "dropTx", "setTx", "flagTx"} => sleepers \cap TxWakers = {}

OneshotInv == OneshotTypeOK /\ CellsInv /\ OrderInv /\ SleepInv /\ WakeupsHeard /\ ClosedIsTrue

LEMMA OneshotInitInv ==
  ASSUME OneshotInit PROVE OneshotInv
BY Zenon DEF OneshotInit, OneshotInv, OneshotTypeOK, CellsInv, OrderInv, SleepInv,
     WakeupsHeard, ClosedIsTrue

LEMMA OneshotStepInv ==
  ASSUME OneshotInv, [OneshotNext]_oneshotVars PROVE OneshotInv'
<1> USE OneshotAssumption
<1>1. CASE Send
  <2>1. OneshotTypeOK'
    BY <1>1 DEF Send, oneshotFlags, sender, receiver, OneshotInv, OneshotTypeOK
  <2>2. CellsInv' /\ OrderInv'
    BY <1>1, Zenon DEF Send, oneshotFlags, sender, receiver, OneshotInv, OneshotTypeOK,
         CellsInv, OrderInv
  <2>3. SleepInv' /\ WakeupsHeard'
    BY <1>1, Zenon DEF Send, oneshotFlags, sender, receiver, OneshotInv, OneshotTypeOK,
         CellsInv, OrderInv, SleepInv, WakeupsHeard
  <2>4. ClosedIsTrue'
    BY <1>1, Zenon DEF Send, oneshotFlags, sender, receiver, OneshotInv, OneshotTypeOK,
         OrderInv, ClosedIsTrue
  <2> QED BY <2>1, <2>2, <2>3, <2>4, Zenon DEF OneshotInv
<1>2. CASE SenderDrop
  <2>1. OneshotTypeOK'
    BY <1>2 DEF SenderDrop, oneshotFlags, sender, receiver, OneshotInv, OneshotTypeOK
  <2>2. CellsInv' /\ OrderInv'
    BY <1>2, Zenon DEF SenderDrop, oneshotFlags, sender, receiver, OneshotInv,
         OneshotTypeOK, CellsInv, OrderInv
  <2>3. SleepInv' /\ WakeupsHeard'
    BY <1>2, Zenon DEF SenderDrop, oneshotFlags, sender, receiver, OneshotInv,
         OneshotTypeOK, CellsInv, OrderInv, SleepInv, WakeupsHeard
  <2>4. ClosedIsTrue'
    BY <1>2, Zenon DEF SenderDrop, oneshotFlags, sender, receiver, OneshotInv,
         OneshotTypeOK, OrderInv, ClosedIsTrue
  <2> QED BY <2>1, <2>2, <2>3, <2>4, Zenon DEF OneshotInv
<1>3. CASE Complete
  <2>1. OneshotTypeOK'
    BY <1>3, SMTT(30) DEF Complete, oneshotFlags, sender, receiver, OneshotInv, OneshotTypeOK
  <2>2. CellsInv' /\ OrderInv'
    BY <1>3 DEF Complete, oneshotFlags, sender, receiver, OneshotInv, OneshotTypeOK,
         CellsInv, OrderInv
  <2>3. SleepInv' /\ WakeupsHeard'
    BY <1>3, Zenon DEF Complete, oneshotFlags, sender, receiver, OneshotInv, OneshotTypeOK,
         CellsInv, OrderInv, SleepInv, WakeupsHeard
  <2>4. ClosedIsTrue'
    BY <1>3, Zenon DEF Complete, oneshotFlags, sender, receiver, OneshotInv, OneshotTypeOK,
         OrderInv, ClosedIsTrue
  <2> QED BY <2>1, <2>2, <2>3, <2>4, Zenon DEF OneshotInv
<1>4. CASE WakeReceiver
  <2>1. OneshotTypeOK'
    BY <1>4 DEF WakeReceiver, oneshotFlags, sender, receiver, OneshotInv, OneshotTypeOK
  <2>2. CellsInv' /\ OrderInv'
    BY <1>4, Zenon DEF WakeReceiver, oneshotFlags, sender, receiver, OneshotInv,
         OneshotTypeOK, CellsInv, OrderInv
  <2>3. SleepInv' /\ WakeupsHeard'
    BY <1>4 DEF WakeReceiver, oneshotFlags, sender, receiver, OneshotInv, OneshotTypeOK,
         CellsInv, OrderInv, SleepInv, WakeupsHeard
  <2>4. ClosedIsTrue'
    BY <1>4, Zenon DEF WakeReceiver, oneshotFlags, sender, receiver, OneshotInv,
         OneshotTypeOK, OrderInv, ClosedIsTrue
  <2> QED BY <2>1, <2>2, <2>3, <2>4, Zenon DEF OneshotInv
<1>5. CASE TakeBack
  <2>0. valueCell' \in BOOLEAN
    BY <1>5, Zenon DEF TakeBack
  <2>1. OneshotTypeOK'
    BY <1>5, <2>0 DEF TakeBack, oneshotFlags, sender, receiver, OneshotInv, OneshotTypeOK
  <2>2. CellsInv' /\ OrderInv'
    BY <1>5, Zenon DEF TakeBack, oneshotFlags, sender, receiver, OneshotInv, OneshotTypeOK,
         CellsInv, OrderInv
  <2>3. SleepInv' /\ WakeupsHeard'
    BY <1>5, Zenon DEF TakeBack, oneshotFlags, sender, receiver, OneshotInv, OneshotTypeOK,
         CellsInv, OrderInv, SleepInv, WakeupsHeard
  <2>4. ClosedIsTrue'
    BY <1>5, Zenon DEF TakeBack, oneshotFlags, sender, receiver, OneshotInv, OneshotTypeOK,
         OrderInv, ClosedIsTrue
  <2> QED BY <2>1, <2>2, <2>3, <2>4, Zenon DEF OneshotInv
<1>6. CASE UnsetTx
  <2>0. txSet' \in BOOLEAN
    BY <1>6, Zenon DEF UnsetTx
  <2>1. OneshotTypeOK'
    BY <1>6, <2>0 DEF UnsetTx, oneshotFlags, sender, receiver, OneshotInv, OneshotTypeOK
  <2>2. CellsInv' /\ OrderInv'
    BY <1>6, <2>0, Zenon DEF UnsetTx, oneshotFlags, sender, receiver, OneshotInv,
         OneshotTypeOK, CellsInv, OrderInv
  <2>3. SleepInv' /\ WakeupsHeard'
    BY <1>6, Zenon DEF UnsetTx, oneshotFlags, sender, receiver, OneshotInv, OneshotTypeOK,
         CellsInv, OrderInv, SleepInv, WakeupsHeard
  <2>4. ClosedIsTrue'
    BY <1>6, Zenon DEF UnsetTx, oneshotFlags, sender, receiver, OneshotInv, OneshotTypeOK,
         OrderInv, ClosedIsTrue
  <2> QED BY <2>1, <2>2, <2>3, <2>4, Zenon DEF OneshotInv
<1>7. CASE ResetTx
  <2>1. OneshotTypeOK'
    BY <1>7 DEF ResetTx, oneshotFlags, sender, receiver, OneshotInv, OneshotTypeOK
  <2>2. CellsInv' /\ OrderInv'
    BY <1>7, Zenon DEF ResetTx, oneshotFlags, sender, receiver, OneshotInv, OneshotTypeOK,
         CellsInv, OrderInv
  <2>3. SleepInv' /\ WakeupsHeard'
    BY <1>7, Zenon DEF ResetTx, oneshotFlags, sender, receiver, OneshotInv, OneshotTypeOK,
         CellsInv, OrderInv, SleepInv, WakeupsHeard
  <2>4. ClosedIsTrue'
    BY <1>7, Zenon DEF ResetTx, oneshotFlags, sender, receiver, OneshotInv, OneshotTypeOK,
         OrderInv, ClosedIsTrue
  <2> QED BY <2>1, <2>2, <2>3, <2>4, Zenon DEF OneshotInv
<1>8. CASE DropTx
  <2>1. OneshotTypeOK'
    BY <1>8 DEF DropTx, oneshotFlags, sender, receiver, OneshotInv, OneshotTypeOK
  <2>2. CellsInv' /\ OrderInv'
    BY <1>8, Zenon DEF DropTx, oneshotFlags, sender, receiver, OneshotInv, OneshotTypeOK,
         CellsInv, OrderInv
  <2>3. SleepInv' /\ WakeupsHeard'
    BY <1>8, Zenon DEF DropTx, oneshotFlags, sender, receiver, OneshotInv, OneshotTypeOK,
         CellsInv, OrderInv, SleepInv, WakeupsHeard
  <2>4. ClosedIsTrue'
    BY <1>8, Zenon DEF DropTx, oneshotFlags, sender, receiver, OneshotInv, OneshotTypeOK,
         OrderInv, ClosedIsTrue
  <2> QED BY <2>1, <2>2, <2>3, <2>4, Zenon DEF OneshotInv
<1>9. CASE SetTx
  <2>1. OneshotTypeOK'
    BY <1>9 DEF SetTx, oneshotFlags, sender, receiver, OneshotInv, OneshotTypeOK
  <2>2. CellsInv' /\ OrderInv'
    BY <1>9, Zenon DEF SetTx, oneshotFlags, sender, receiver, OneshotInv, OneshotTypeOK,
         CellsInv, OrderInv
  <2>3. SleepInv' /\ WakeupsHeard'
    BY <1>9, Zenon DEF SetTx, oneshotFlags, sender, receiver, OneshotInv, OneshotTypeOK,
         CellsInv, OrderInv, SleepInv, WakeupsHeard
  <2>4. ClosedIsTrue'
    BY <1>9, Zenon DEF SetTx, oneshotFlags, sender, receiver, OneshotInv, OneshotTypeOK,
         OrderInv, ClosedIsTrue
  <2> QED BY <2>1, <2>2, <2>3, <2>4, Zenon DEF OneshotInv
<1>10. CASE FlagTx
  <2>1. OneshotTypeOK'
    BY <1>10 DEF FlagTx, oneshotFlags, sender, receiver, OneshotInv, OneshotTypeOK, CellsInv
  <2>2. CellsInv' /\ OrderInv'
    BY <1>10, Zenon DEF FlagTx, oneshotFlags, sender, receiver, OneshotInv, OneshotTypeOK,
         CellsInv, OrderInv
  <2>3. SleepInv' /\ WakeupsHeard'
    BY <1>10, Zenon DEF FlagTx, oneshotFlags, sender, receiver, OneshotInv, OneshotTypeOK,
         CellsInv, OrderInv, SleepInv, WakeupsHeard
  <2>4. ClosedIsTrue'
    BY <1>10, Zenon DEF FlagTx, oneshotFlags, sender, receiver, OneshotInv, OneshotTypeOK,
         OrderInv, ClosedIsTrue
  <2> QED BY <2>1, <2>2, <2>3, <2>4, Zenon DEF OneshotInv
<1>11. CASE UnsetRx
  <2>0. rxSet' \in BOOLEAN
    BY <1>11, Zenon DEF UnsetRx
  <2>1. OneshotTypeOK'
    BY <1>11, <2>0 DEF UnsetRx, oneshotFlags, sender, receiver, OneshotInv, OneshotTypeOK
  <2>2. CellsInv' /\ OrderInv'
    BY <1>11, <2>0, Zenon DEF UnsetRx, oneshotFlags, sender, receiver, OneshotInv,
         OneshotTypeOK, CellsInv, OrderInv
  <2>3. SleepInv' /\ WakeupsHeard'
    BY <1>11, Zenon DEF UnsetRx, oneshotFlags, sender, receiver, OneshotInv, OneshotTypeOK,
         CellsInv, OrderInv, SleepInv, WakeupsHeard
  <2>4. ClosedIsTrue'
    BY <1>11, Zenon DEF UnsetRx, oneshotFlags, sender, receiver, OneshotInv, OneshotTypeOK,
         OrderInv, ClosedIsTrue
  <2> QED BY <2>1, <2>2, <2>3, <2>4, Zenon DEF OneshotInv
<1>12. CASE ResetRx
  <2>1. OneshotTypeOK'
    BY <1>12 DEF ResetRx, oneshotFlags, sender, receiver, OneshotInv, OneshotTypeOK
  <2>2. CellsInv' /\ OrderInv'
    BY <1>12, Zenon DEF ResetRx, oneshotFlags, sender, receiver, OneshotInv, OneshotTypeOK,
         CellsInv, OrderInv
  <2>3. SleepInv' /\ WakeupsHeard'
    BY <1>12, Zenon DEF ResetRx, oneshotFlags, sender, receiver, OneshotInv, OneshotTypeOK,
         CellsInv, OrderInv, SleepInv, WakeupsHeard
  <2>4. ClosedIsTrue'
    BY <1>12, Zenon DEF ResetRx, oneshotFlags, sender, receiver, OneshotInv, OneshotTypeOK,
         OrderInv, ClosedIsTrue
  <2> QED BY <2>1, <2>2, <2>3, <2>4, Zenon DEF OneshotInv
<1>13. CASE DropRx
  <2>1. OneshotTypeOK'
    BY <1>13 DEF DropRx, oneshotFlags, sender, receiver, OneshotInv, OneshotTypeOK
  <2>2. CellsInv' /\ OrderInv'
    BY <1>13, Zenon DEF DropRx, oneshotFlags, sender, receiver, OneshotInv, OneshotTypeOK,
         CellsInv, OrderInv
  <2>3. SleepInv' /\ WakeupsHeard'
    BY <1>13, Zenon DEF DropRx, oneshotFlags, sender, receiver, OneshotInv, OneshotTypeOK,
         CellsInv, OrderInv, SleepInv, WakeupsHeard
  <2>4. ClosedIsTrue'
    BY <1>13, Zenon DEF DropRx, oneshotFlags, sender, receiver, OneshotInv, OneshotTypeOK,
         OrderInv, ClosedIsTrue
  <2> QED BY <2>1, <2>2, <2>3, <2>4, Zenon DEF OneshotInv
<1>14. CASE SetRx
  <2>1. OneshotTypeOK'
    BY <1>14 DEF SetRx, oneshotFlags, sender, receiver, OneshotInv, OneshotTypeOK
  <2>2. CellsInv' /\ OrderInv'
    BY <1>14, Zenon DEF SetRx, oneshotFlags, sender, receiver, OneshotInv, OneshotTypeOK,
         CellsInv, OrderInv
  <2>3. SleepInv' /\ WakeupsHeard'
    BY <1>14, Zenon DEF SetRx, oneshotFlags, sender, receiver, OneshotInv, OneshotTypeOK,
         CellsInv, OrderInv, SleepInv, WakeupsHeard
  <2>4. ClosedIsTrue'
    BY <1>14, Zenon DEF SetRx, oneshotFlags, sender, receiver, OneshotInv, OneshotTypeOK,
         OrderInv, ClosedIsTrue
  <2> QED BY <2>1, <2>2, <2>3, <2>4, Zenon DEF OneshotInv
<1>15. CASE FlagRx
  <2>1. OneshotTypeOK'
    BY <1>15 DEF FlagRx, oneshotFlags, sender, receiver, OneshotInv, OneshotTypeOK, CellsInv
  <2>2. CellsInv' /\ OrderInv'
    BY <1>15, Zenon DEF FlagRx, oneshotFlags, sender, receiver, OneshotInv, OneshotTypeOK,
         CellsInv, OrderInv
  <2>3. SleepInv' /\ WakeupsHeard'
    BY <1>15, Zenon DEF FlagRx, oneshotFlags, sender, receiver, OneshotInv, OneshotTypeOK,
         CellsInv, OrderInv, SleepInv, WakeupsHeard
  <2>4. ClosedIsTrue'
    BY <1>15, Zenon DEF FlagRx, oneshotFlags, sender, receiver, OneshotInv, OneshotTypeOK,
         OrderInv, ClosedIsTrue
  <2> QED BY <2>1, <2>2, <2>3, <2>4, Zenon DEF OneshotInv
<1>16. CASE Consume
  <2>0. valueCell' \in BOOLEAN
    BY <1>16, Zenon DEF Consume
  <2>1. OneshotTypeOK'
    BY <1>16, <2>0 DEF Consume, oneshotFlags, sender, receiver, RecvClosed, OneshotInv,
         OneshotTypeOK
  <2>2. CellsInv' /\ OrderInv'
    BY <1>16, Zenon DEF Consume, oneshotFlags, sender, receiver, RecvClosed, OneshotInv,
         OneshotTypeOK, CellsInv, OrderInv
  <2>3. SleepInv' /\ WakeupsHeard'
    BY <1>16, Zenon DEF Consume, oneshotFlags, sender, receiver, RecvClosed, OneshotInv,
         OneshotTypeOK, CellsInv, OrderInv, SleepInv, WakeupsHeard
  <2>4. ClosedIsTrue'
    BY <1>16, Zenon DEF Consume, oneshotFlags, sender, receiver, RecvClosed, OneshotInv,
         OneshotTypeOK, OrderInv, ClosedIsTrue
  <2> QED BY <2>1, <2>2, <2>3, <2>4, Zenon DEF OneshotInv
<1>17. CASE TryConsume
  <2>0. valueCell' \in BOOLEAN
    BY <1>17, Zenon DEF TryConsume
  <2>1. OneshotTypeOK'
    BY <1>17, <2>0 DEF TryConsume, oneshotFlags, sender, receiver, OneshotInv, OneshotTypeOK
  <2>2. CellsInv' /\ OrderInv'
    BY <1>17, Zenon DEF TryConsume, oneshotFlags, sender, receiver, OneshotInv,
         OneshotTypeOK, CellsInv, OrderInv
  <2>3. SleepInv' /\ WakeupsHeard'
    BY <1>17, Zenon DEF TryConsume, oneshotFlags, sender, receiver, OneshotInv,
         OneshotTypeOK, CellsInv, OrderInv, SleepInv, WakeupsHeard
  <2>4. ClosedIsTrue'
    BY <1>17, Zenon DEF TryConsume, oneshotFlags, sender, receiver, OneshotInv,
         OneshotTypeOK, OrderInv, ClosedIsTrue
  <2> QED BY <2>1, <2>2, <2>3, <2>4, Zenon DEF OneshotInv
<1>18. CASE WakeTx
  <2>1. OneshotTypeOK'
    BY <1>18 DEF WakeTx, oneshotFlags, sender, receiver, OneshotInv, OneshotTypeOK
  <2>2. CellsInv' /\ OrderInv'
    BY <1>18, Zenon DEF WakeTx, oneshotFlags, sender, receiver, OneshotInv, OneshotTypeOK,
         CellsInv, OrderInv
  <2>3. SleepInv' /\ WakeupsHeard'
    BY <1>18, Zenon DEF WakeTx, oneshotFlags, sender, receiver, OneshotInv, OneshotTypeOK,
         CellsInv, OrderInv, SleepInv, WakeupsHeard
  <2>4. ClosedIsTrue'
    BY <1>18, Zenon DEF WakeTx, oneshotFlags, sender, receiver, OneshotInv, OneshotTypeOK,
         OrderInv, ClosedIsTrue
  <2> QED BY <2>1, <2>2, <2>3, <2>4, Zenon DEF OneshotInv
<1>19. CASE DropInner
  <2>0. rxSet' \in BOOLEAN /\ txSet' \in BOOLEAN
    BY <1>19, Zenon DEF DropInner
  <2>1. OneshotTypeOK'
    BY <1>19, <2>0 DEF DropInner, oneshotFlags, sender, receiver, OneshotInv, OneshotTypeOK
  <2>2. CellsInv' /\ OrderInv'
    BY <1>19, Zenon DEF DropInner, oneshotFlags, sender, receiver, OneshotInv,
         OneshotTypeOK, CellsInv, OrderInv
  <2>3. SleepInv' /\ WakeupsHeard'
    BY <1>19, Zenon DEF DropInner, oneshotFlags, sender, receiver, OneshotInv,
         OneshotTypeOK, CellsInv, OrderInv, SleepInv, WakeupsHeard
  <2>4. ClosedIsTrue'
    BY <1>19, Zenon DEF DropInner, oneshotFlags, sender, receiver, OneshotInv,
         OneshotTypeOK, OrderInv, ClosedIsTrue
  <2> QED BY <2>1, <2>2, <2>3, <2>4, Zenon DEF OneshotInv
<1>20. CASE TryRecv
  <2>1. OneshotTypeOK'
    BY <1>20, SMTT(30) DEF TryRecv, oneshotFlags, sender, receiver, OneshotInv, OneshotTypeOK
  <2>2. CellsInv' /\ OrderInv'
    BY <1>20 DEF TryRecv, oneshotFlags, sender, receiver, OneshotInv, OneshotTypeOK,
         CellsInv, OrderInv
  <2>3. SleepInv' /\ WakeupsHeard'
    BY <1>20, Zenon DEF TryRecv, oneshotFlags, sender, receiver, OneshotInv, OneshotTypeOK,
         CellsInv, OrderInv, SleepInv, WakeupsHeard
  <2>4. ClosedIsTrue'
    BY <1>20, Zenon DEF TryRecv, oneshotFlags, sender, receiver, OneshotInv, OneshotTypeOK,
         OrderInv, ClosedIsTrue
  <2> QED BY <2>1, <2>2, <2>3, <2>4, Zenon DEF OneshotInv
<1>21. ASSUME NEW k \in TxWakers, PollClosed(k) PROVE OneshotInv'
  <2>1. OneshotTypeOK'
    BY <1>21 DEF PollClosed, oneshotFlags, sender, receiver, OneshotInv, OneshotTypeOK
  <2>2. CellsInv' /\ OrderInv'
    BY <1>21, Zenon DEF PollClosed, oneshotFlags, sender, receiver, OneshotInv,
         OneshotTypeOK, CellsInv, OrderInv
  <2>3. SleepInv' /\ WakeupsHeard'
    BY <1>21 DEF PollClosed, oneshotFlags, sender, receiver, OneshotInv, OneshotTypeOK,
         CellsInv, OrderInv, SleepInv, WakeupsHeard
  <2>4. ClosedIsTrue'
    BY <1>21, Zenon DEF PollClosed, oneshotFlags, sender, receiver, OneshotInv,
         OneshotTypeOK, OrderInv, ClosedIsTrue
  <2> QED BY <2>1, <2>2, <2>3, <2>4, Zenon DEF OneshotInv
<1>22. ASSUME NEW k \in RxWakers, PollRx(k) PROVE OneshotInv'
  <2>1. OneshotTypeOK'
    BY <1>22, SMTT(30) DEF PollRx, oneshotFlags, sender, receiver, RecvClosed, OneshotInv,
         OneshotTypeOK
  <2>2. CellsInv' /\ OrderInv'
    BY <1>22 DEF PollRx, oneshotFlags, sender, receiver, RecvClosed, OneshotInv,
         OneshotTypeOK, CellsInv, OrderInv
  <2>3. SleepInv' /\ WakeupsHeard'
    BY <1>22, Zenon DEF PollRx, oneshotFlags, sender, receiver, RecvClosed, OneshotInv,
         OneshotTypeOK, CellsInv, OrderInv, SleepInv, WakeupsHeard
  <2>4. ClosedIsTrue'
    BY <1>22, Zenon DEF PollRx, oneshotFlags, sender, receiver, RecvClosed, OneshotInv,
         OneshotTypeOK, OrderInv, ClosedIsTrue
  <2> QED BY <2>1, <2>2, <2>3, <2>4, Zenon DEF OneshotInv
<1>23. ASSUME NEW drop \in BOOLEAN, Close(drop) PROVE OneshotInv'
  <2>1. OneshotTypeOK'
    BY <1>23, SMTT(30) DEF Close, oneshotFlags, sender, receiver, OneshotInv, OneshotTypeOK
  <2>2. CellsInv' /\ OrderInv'
    BY <1>23 DEF Close, oneshotFlags, sender, receiver, OneshotInv, OneshotTypeOK, CellsInv,
         OrderInv
  <2>3. SleepInv' /\ WakeupsHeard'
    BY <1>23, Zenon DEF Close, oneshotFlags, sender, receiver, OneshotInv, OneshotTypeOK,
         CellsInv, OrderInv, SleepInv, WakeupsHeard
  <2>4. ClosedIsTrue'
    BY <1>23, Zenon DEF Close, oneshotFlags, sender, receiver, OneshotInv, OneshotTypeOK,
         OrderInv, ClosedIsTrue
  <2> QED BY <2>1, <2>2, <2>3, <2>4, Zenon DEF OneshotInv
<1>24. CASE UNCHANGED oneshotVars
  <2> USE <1>24 DEF oneshotVars, oneshotFlags, sender, receiver, OneshotInv
  <2>1. OneshotTypeOK'
    BY SMTT(30) DEF OneshotTypeOK
  <2>2. CellsInv' /\ OrderInv'
    BY Zenon DEF CellsInv, OrderInv
  <2>3. SleepInv' /\ WakeupsHeard'
    BY Zenon DEF SleepInv, WakeupsHeard
  <2>4. ClosedIsTrue'
    BY Zenon DEF ClosedIsTrue
  <2> QED
    BY <2>1, <2>2, <2>3, <2>4, Zenon
<1> QED BY <1>1, <1>2, <1>3, <1>4, <1>5, <1>6, <1>7, <1>8, <1>9, <1>10, <1>11, <1>12, <1>13,
     <1>14, <1>15, <1>16, <1>17, <1>18, <1>19, <1>20, <1>21, <1>22, <1>23, <1>24, Zenon
     DEF OneshotNext, SenderStep, ReceiverStep

\* For any wakers the two tasks are polled with, the waker cells are neither raced, leaked
\* nor dropped twice, a task told Pending is woken, and the Receiver is told "closed" only
\* when it closed the channel or the Sender was dropped (oneshot.rs: send, poll_closed,
\* poll_recv, try_recv, close, Drop for Inner).
THEOREM OneshotCorrect == OneshotSpec => []OneshotSound
<1>1. OneshotInv => OneshotSound
  BY Zenon DEF OneshotInv, OneshotSound, WakersSound, WakersExclusive, WakersAccounted,
       CellsInv, OrderInv
<1>2. OneshotInit => OneshotInv
  BY OneshotInitInv, Zenon
<1>3. OneshotInv /\ [OneshotNext]_oneshotVars => OneshotInv'
  BY OneshotStepInv, Zenon
<1> QED BY <1>1, <1>2, <1>3, PTL DEF OneshotSpec

-----------------------------------------------------------------------------
(***************************************************************************)
(* The barrier.                                                            *)
(***************************************************************************)
BarrierTypeOK ==
  /\ arrived \in 0..parties - 1 /\ generation \in Nat \ {0}
  /\ barrier_value = generation - 1 /\ barrier_version = generation
  /\ at \in [Tasks -> {"out", "poll", "asleep"}] /\ mygen \in [Tasks -> 0..generation]
  /\ barrier_ver \in [Tasks -> 0..generation] /\ barrier_calls \in [Tasks -> Nat]
  /\ leader \in [Tasks -> BOOLEAN]

\* A task that has seen the latest announcement and goes on waiting is of the current
\* generation; a leader is of an earlier one.
BarrierInv ==
  /\ BarrierTypeOK /\ RendezvousSound
  /\ \A t \in Tasks : at[t] = "poll" /\ barrier_ver[t] = generation => mygen[t] = generation
  /\ \A t \in Tasks : leader[t] => mygen[t] < generation

FST == INSTANCE FiniteSetTheorems

\* Counting tasks.
LEMMA SetsOfTasks ==
  /\ Cardinality({}) = 0
  /\ \A S \in SUBSET Tasks : \A t \in Tasks \ S :
       Cardinality(S \cup {t}) = Cardinality(S) + 1
<1>1. \A S : (IsFiniteSet(S) <=> FST!IsFiniteSet(S)) /\ Cardinality(S) = FST!Cardinality(S)
  BY Zenon DEF IsFiniteSet, FST!IsFiniteSet, Cardinality, FST!Cardinality
<1>2. Cardinality({}) = 0
  BY <1>1, FST!FS_EmptySet, Zenon
<1>3. ASSUME NEW S \in SUBSET Tasks, NEW t \in Tasks \ S
      PROVE  Cardinality(S \cup {t}) = Cardinality(S) + 1
  <2>1. FST!IsFiniteSet(S)
    BY <1>1, BarrierAssumption, FST!FS_Subset, Zenon
  <2>2. FST!Cardinality(S \cup {t}) = FST!Cardinality(S) + 1
    BY <2>1, FST!FS_AddElement, Zenon
  <2>. QED BY <1>1, <2>2, Zenon
<1>. QED BY <1>2, <1>3, Zenon

\* A barrier that is new.
LEMMA BarrierInitInv ==
  ASSUME BarrierInit PROVE BarrierInv
<1>1. BarrierTypeOK
  BY BarrierAssumption DEF BarrierInit, BarrierTypeOK, parties
<1>2. InGen(generation) = {}
  BY Zenon DEF BarrierInit, InGen
<1>3. Cardinality(InGen(generation)) = 0
  BY <1>2, SetsOfTasks, Zenon
<1> QED BY <1>1, <1>3 DEF BarrierInit, BarrierInv, RendezvousSound

\* One step per operation of the barrier.
LEMMA BarrierStepInv ==
  ASSUME BarrierInv, [BarrierNext]_barrierVars PROVE BarrierInv'
<1> USE DEF BarrierInv, BarrierTypeOK
<1>0. parties \in Nat \ {0}
  BY BarrierAssumption, SMTT(30) DEF parties
<1>1. ASSUME NEW t \in Tasks, Arrive(t), arrived + 1 = parties PROVE BarrierInv'
  <2>1. BarrierTypeOK'
    BY <1>0, <1>1, SMTT(30) DEF Arrive
  <2>2. InGen(generation)' = {}
    BY <1>0, <1>1, <2>1 DEF Arrive, InGen
  <2>3. Cardinality(InGen(generation)') = arrived'
    BY <1>1, <2>2, SetsOfTasks, Zenon DEF Arrive
  <2>4. RendezvousSound'
    BY <1>0, <1>1, <2>3 DEF Arrive, RendezvousSound
  <2> QED BY <1>0, <1>1, <2>1, <2>4, SMTT(30) DEF Arrive, RendezvousSound
<1>2. ASSUME NEW t \in Tasks, Arrive(t), arrived + 1 # parties PROVE BarrierInv'
  <2>1. BarrierTypeOK'
    BY <1>0, <1>2, SMTT(30) DEF Arrive
  <2>2. InGen(generation)' = InGen(generation) \cup {t} /\ t \notin InGen(generation)
    BY <1>0, <1>2 DEF Arrive, InGen
  <2>3. InGen(generation) \in SUBSET Tasks
    BY Zenon DEF InGen
  <2>4. Cardinality(InGen(generation)') = arrived'
    <3>1. Cardinality(InGen(generation) \cup {t}) = Cardinality(InGen(generation)) + 1
      BY <2>2, <2>3, SetsOfTasks, Zenon
    <3>2. Cardinality(InGen(generation)) = arrived /\ arrived' = arrived + 1
      BY <1>2, Zenon DEF Arrive, RendezvousSound
    <3> QED BY <2>2, <3>1, <3>2, Zenon
  <2>5. RendezvousSound'
    BY <1>0, <1>2, <2>4 DEF Arrive, RendezvousSound
  <2>6. \A x \in Tasks : at'[x] = "poll" /\ barrier_ver'[x] = generation' => mygen'[x] = generation'
    BY <1>2, Zenon DEF Arrive
  <2>7. \A x \in Tasks : leader'[x] => mygen'[x] < generation'
    BY <1>2, Zenon DEF Arrive
  <2> QED BY <2>1, <2>5, <2>6, <2>7, Zenon
<1>3. ASSUME NEW t \in Tasks, Recv(t) PROVE BarrierInv'
  <2>1. BarrierTypeOK'
    BY <1>3, SMTT(30) DEF Recv
  <2>2. InGen(generation)' = InGen(generation)
    BY <1>3 DEF Recv, InGen
  <2>3. Cardinality(InGen(generation)') = arrived'
    BY <1>3, <2>2, Zenon DEF Recv, RendezvousSound
  <2>4. RendezvousSound'
    BY <1>3, <2>3 DEF Recv, RendezvousSound
  <2> QED BY <1>3, <2>1, <2>4, SMTT(30) DEF Recv, RendezvousSound
<1>4. CASE UNCHANGED barrierVars
  BY <1>4, Zenon DEF barrierVars, RendezvousSound, InGen
<1> QED BY <1>1, <1>2, <1>3, <1>4, Zenon DEF BarrierNext

\* For any finite set of tasks and any n, nobody passes a generation that is not complete,
\* as many wait for the current one as have arrived, nobody sleeps through its announcement
\* and a generation has one leader (Barrier::wait).
THEOREM GenerationsComplete == BarrierSpec => []RendezvousSound
<1>1. BarrierInv => RendezvousSound
  BY Zenon DEF BarrierInv
<1>2. BarrierInit => BarrierInv
  BY BarrierInitInv, Zenon
<1>3. BarrierInv /\ [BarrierNext]_barrierVars => BarrierInv'
  BY BarrierStepInv, Zenon
<1> QED BY <1>1, <1>2, <1>3, PTL DEF BarrierSpec
=============================================================================
