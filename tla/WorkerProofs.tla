---------------------------- MODULE WorkerProofs ----------------------------
(***************************************************************************)
(* WorkerSound holds of every server worker: any number of connections,    *)
(* services and StopCommands, any limit.                                   *)
(***************************************************************************)
EXTENDS Worker, FiniteSetTheorems, TLAPS

-----------------------------------------------------------------------------
(* Sequences without repetition.                                           *)

\* Taking the first connection out of the channel.
LEMMA TailOf ==
  ASSUME NEW S, NEW s \in Seq(S), s # <<>>, IsInjective(s)
  PROVE  /\ Head(s) \in S /\ Head(s) \in Range(s)
         /\ Tail(s) \in Seq(S) /\ IsInjective(Tail(s))
         /\ Range(Tail(s)) = Range(s) \ {Head(s)}
<1>1. Len(s) \in Nat \ {0} /\ \A i \in 1..Len(s) : s[i] \in S
  OBVIOUS
<1>2. /\ Tail(s) \in Seq(S) /\ DOMAIN Tail(s) = 1..(Len(s) - 1)
      /\ \A i \in 1..(Len(s) - 1) : Tail(s)[i] = s[i + 1]
  BY <1>1
<1>3. Head(s) = s[1] /\ DOMAIN s = 1..Len(s)
  BY <1>1
<1>4. IsInjective(Tail(s))
  BY <1>1, <1>2, <1>3 DEF IsInjective
<1>5. ASSUME NEW x \in Range(Tail(s)) PROVE x \in Range(s) \ {Head(s)}
  <2>1. PICK i \in 1..(Len(s) - 1) : x = s[i + 1]
    BY <1>2, <1>5 DEF Range
  <2> QED BY <1>1, <1>3, <2>1 DEF Range, IsInjective
<1>6. ASSUME NEW x \in Range(s) \ {Head(s)} PROVE x \in Range(Tail(s))
  <2>1. PICK i \in 1..Len(s) : x = s[i] /\ i # 1
    BY <1>3, <1>6 DEF Range
  <2>2. i - 1 \in 1..(Len(s) - 1) /\ Tail(s)[i - 1] = x
    BY <1>1, <1>2, <2>1
  <2> QED BY <1>2, <2>2 DEF Range
<1>7. Range(Tail(s)) = Range(s) \ {Head(s)}
  BY <1>5, <1>6
<1>8. Head(s) \in S /\ Head(s) \in Range(s)
  BY <1>1, <1>3 DEF Range
<1> QED BY <1>2, <1>4, <1>7, <1>8

\* Vec::pop on the connections that wait.
LEMMA PopOf ==
  ASSUME NEW S, NEW s \in Seq(S), s # <<>>, IsInjective(s)
  PROVE  /\ s[Len(s)] \in S /\ s[Len(s)] \in Range(s)
         /\ IsInjective(SubSeq(s, 1, Len(s) - 1))
         /\ Range(SubSeq(s, 1, Len(s) - 1)) = Range(s) \ {s[Len(s)]}
<1> DEFINE p == SubSeq(s, 1, Len(s) - 1)
<1>1. Len(s) \in Nat \ {0} /\ DOMAIN s = 1..Len(s) /\ \A i \in 1..Len(s) : s[i] \in S
  OBVIOUS
<1>2. /\ p \in Seq(S) /\ DOMAIN p = 1..(Len(s) - 1)
      /\ \A i \in 1..(Len(s) - 1) : p[i] = s[i]
  BY <1>1
<1> HIDE DEF p
<1>3. IsInjective(p)
  BY <1>1, <1>2 DEF IsInjective
<1>4. ASSUME NEW x \in Range(p) PROVE x \in Range(s) \ {s[Len(s)]}
  <2>1. PICK i \in 1..(Len(s) - 1) : x = s[i]
    BY <1>2, <1>4 DEF Range
  <2> QED BY <1>1, <2>1 DEF Range, IsInjective
<1>5. ASSUME NEW x \in Range(s) \ {s[Len(s)]} PROVE x \in Range(p)
  <2>1. PICK i \in 1..Len(s) : x = s[i] /\ i # Len(s)
    BY <1>1, <1>5 DEF Range
  <2>2. i \in 1..(Len(s) - 1)
    <3>1. Len(s) \in Nat /\ i \in 1..Len(s) /\ i # Len(s)
      BY <1>1, <2>1
    <3> QED BY <3>1
  <2>3. i \in DOMAIN p /\ p[i] = x
    BY <1>2, <2>1, <2>2
  <2> QED BY <2>3 DEF Range
<1>6. Range(p) = Range(s) \ {s[Len(s)]}
  BY <1>4, <1>5
<1>7. s[Len(s)] \in S /\ s[Len(s)] \in Range(s)
  BY <1>1 DEF Range
<1> QED BY <1>3, <1>6, <1>7 DEF p

\* Sending a connection that the channel does not hold.
LEMMA AppendTo ==
  ASSUME NEW S, NEW s \in Seq(S), NEW x \in S, IsInjective(s), x \notin Range(s)
  PROVE  /\ Append(s, x) \in Seq(S) /\ IsInjective(Append(s, x))
         /\ Range(Append(s, x)) = Range(s) \cup {x}
<1> DEFINE q == Append(s, x)
<1>1. Len(s) \in Nat /\ DOMAIN s = 1..Len(s)
  OBVIOUS
<1>2. /\ q \in Seq(S) /\ DOMAIN q = 1..(Len(s) + 1) /\ q[Len(s) + 1] = x
      /\ \A i \in 1..Len(s) : q[i] = s[i]
  BY <1>1
<1> HIDE DEF q
<1>3. IsInjective(q)
  BY <1>1, <1>2 DEF IsInjective, Range
<1>4. Range(q) = Range(s) \cup {x}
  BY <1>1, <1>2 DEF Range
<1> QED BY <1>2, <1>3, <1>4 DEF q

\* The shortest queues.
LEMMA ShortQueues ==
  ASSUME NEW x
  PROVE  /\ IsInjective(<<>>) /\ Range(<<>>) = {}
         /\ IsInjective(<<x>>) /\ Range(<<x>>) = {x}
<1>1. IsInjective(<<>>) /\ Range(<<>>) = {}
  BY DEF IsInjective, Range
<1>2. DOMAIN <<x>> = {1} /\ <<x>>[1] = x
  OBVIOUS
<1>3. IsInjective(<<x>>) /\ Range(<<x>>) = {x}
  BY <1>2 DEF IsInjective, Range
<1> QED BY <1>1, <1>3

\* Two queues of different connections, one after the other.
LEMMA Concatenated ==
  ASSUME NEW S, NEW s \in Seq(S), NEW w \in Seq(S), IsInjective(s), IsInjective(w),
         Range(s) \cap Range(w) = {}
  PROVE  IsInjective(s \o w) /\ Range(s \o w) = Range(s) \cup Range(w)
<1> DEFINE q == s \o w
<1>1. /\ Len(s) \in Nat /\ DOMAIN s = 1..Len(s)
      /\ Len(w) \in Nat /\ DOMAIN w = 1..Len(w)
  OBVIOUS
<1>2. /\ DOMAIN q = 1..(Len(s) + Len(w))
      /\ \A i \in 1..(Len(s) + Len(w)) : q[i] = IF i <= Len(s) THEN s[i] ELSE w[i - Len(s)]
  BY <1>1
<1> HIDE DEF q
<1>3. ASSUME NEW i \in DOMAIN q, NEW j \in DOMAIN q, q[i] = q[j] PROVE i = j
  <2>1. CASE i <= Len(s) /\ j <= Len(s)
    BY <1>1, <1>2, <1>3, <2>1 DEF IsInjective
  <2>2. CASE i > Len(s) /\ j > Len(s)
    <3>1. i - Len(s) \in DOMAIN w /\ j - Len(s) \in DOMAIN w
      BY <1>1, <1>2, <2>2
    <3>2. w[i - Len(s)] = w[j - Len(s)]
      BY <1>1, <1>2, <1>3, <2>2
    <3>3. i - Len(s) = j - Len(s)
      BY <3>1, <3>2 DEF IsInjective
    <3> QED BY <1>1, <1>2, <3>3
  <2>3. CASE i <= Len(s) /\ j > Len(s)
    <3>1. i \in DOMAIN s /\ q[i] = s[i] /\ j - Len(s) \in DOMAIN w /\ q[j] = w[j - Len(s)]
      BY <1>1, <1>2, <2>3
    <3>2. q[i] \in Range(s) /\ q[j] \in Range(w)
      BY <3>1 DEF Range
    <3> QED BY <1>3, <3>2
  <2>4. CASE i > Len(s) /\ j <= Len(s)
    <3>1. j \in DOMAIN s /\ q[j] = s[j] /\ i - Len(s) \in DOMAIN w /\ q[i] = w[i - Len(s)]
      BY <1>1, <1>2, <2>4
    <3>2. q[i] \in Range(w) /\ q[j] \in Range(s)
      BY <3>1 DEF Range
    <3> QED BY <1>3, <3>2
  <2> QED BY <1>1, <1>2, <2>1, <2>2, <2>3, <2>4
<1>4. ASSUME NEW x \in Range(q) PROVE x \in Range(s) \cup Range(w)
  <2>1. PICK i \in DOMAIN q : q[i] = x
    BY <1>4 DEF Range
  <2>2. \/ i \in DOMAIN s /\ s[i] = x
        \/ i - Len(s) \in DOMAIN w /\ w[i - Len(s)] = x
    BY <1>1, <1>2, <2>1
  <2> QED BY <2>2 DEF Range
<1>5. ASSUME NEW x \in Range(s) PROVE x \in Range(q)
  BY <1>1, <1>2, <1>5 DEF Range
<1>6. ASSUME NEW x \in Range(w) PROVE x \in Range(q)
  <2>1. PICK i \in 1..Len(w) : w[i] = x
    BY <1>1, <1>6 DEF Range
  <2>2. i + Len(s) \in DOMAIN q /\ q[i + Len(s)] = x
    BY <1>1, <1>2, <2>1
  <2> QED BY <2>2 DEF Range
<1>7. IsInjective(q)
  BY <1>3 DEF IsInjective
<1> QED BY <1>4, <1>5, <1>6, <1>7 DEF q

-----------------------------------------------------------------------------
(***************************************************************************)
(* The inductive invariant.  A connection counts as queued exactly while   *)
(* one of the two queues holds it, and the second queue exists in state    *)
(* Unavailable only; the connections being served are finitely many and    *)
(* within the limit; true is answered by a worker that ends with it.       *)
(***************************************************************************)
QueueInv ==
  /\ IsInjective(rx) /\ IsInjective(waiting) /\ Range(rx) \cap Range(waiting) = {}
  /\ \A c \in Conns : fate[c] = "queued" <=> (c \in Range(rx) \/ c \in Range(waiting))
  /\ waiting # <<>> => st = "Unavailable"

LimitInv == IsFiniteSet(Active) /\ LimitRespected

StopInv ==
  /\ st \in {"Starting", "Dead"} => phase = "idle"
  /\ \A i \in Stops : answer[i] = "true" => st = "Dead" /\ Active = {}

WorkerInv == TypeOK /\ QueueInv /\ LimitInv /\ StopInv /\ AvailabilityHonest

\* Every step keeps the types.
LEMMA TypeStep ==
  ASSUME WorkerInv, [Next]_vars PROVE TypeOK'
<1> USE DEF WorkerInv
<1>1. CASE StartOk
  <2>1. BoolOK'
    BY <1>1, Zenon DEF StartOk, chans, svcs, TypeOK, BoolOK
  <2> QED
    BY <1>1, <2>1, WorkerAssumption DEF StartOk, chans, svcs, TypeOK
<1>2. CASE StartErr
  <2>1. BoolOK'
    BY <1>2, Zenon DEF StartErr, chans, svcs, TypeOK, BoolOK
  <2> QED
    BY <1>2, <2>1, WorkerAssumption DEF StartErr, chans, svcs, TypeOK
<1>3. CASE BeginPoll
  <2>1. BoolOK'
    BY <1>3, Zenon DEF BeginPoll, chans, svcs, TypeOK, BoolOK
  <2> QED
    BY <1>3, <2>1, WorkerAssumption DEF BeginPoll, chans, svcs, TypeOK
<1>4. CASE NoStopCommand
  <2>1. BoolOK'
    BY <1>4, Zenon DEF NoStopCommand, svcs, TypeOK, BoolOK
  <2> QED
    BY <1>4, <2>1, WorkerAssumption DEF NoStopCommand, svcs, TypeOK
<1>5. CASE StopNow
  <2>1. BoolOK'
    BY <1>5, Zenon DEF StopNow, Die, svcs, TypeOK, BoolOK
  <2> QED
    BY <1>5, <2>1, WorkerAssumption DEF StopNow, Die, StatusShutdown, Lose, svcs, Active,
         TypeOK
<1>6. CASE StopGraceful
  <2>1. BoolOK'
    BY <1>6, Zenon DEF StopGraceful, svcs, TypeOK, BoolOK
  <2> QED
    BY <1>6, <2>1, WorkerAssumption DEF StopGraceful, StatusShutdown, Lose, svcs, Active,
         TypeOK
<1>7. CASE PollUnavailableServe
  <2>1. BoolOK'
    BY <1>7, Zenon DEF PollUnavailableServe, Register, Connect, chans, svcs, TypeOK, BoolOK
  <2> QED
    BY <1>7, <2>1, WorkerAssumption DEF PollUnavailableServe, Register, Connect,
         StatusChecked, chans, svcs, Active, 
       Failing, Pending, Polled, TypeOK
<1>8. CASE PollBecomesAvailable
  <2>1. BoolOK'
    BY <1>8, Zenon DEF PollBecomesAvailable, Register, chans, svcs, TypeOK, BoolOK
  <2> QED
    BY <1>8, <2>1, WorkerAssumption DEF PollBecomesAvailable, Register, StatusChecked,
         chans, svcs, Failing, 
       Pending, Polled, TypeOK
<1>9. CASE PollStaysUnavailable
  <2>1. BoolOK'
    BY <1>9, Zenon DEF PollStaysUnavailable, Register, chans, svcs, TypeOK, BoolOK
  <2> QED
    BY <1>9, <2>1, WorkerAssumption DEF PollStaysUnavailable, Register, StatusChecked,
         chans, svcs, Failing, 
       Pending, Polled, TypeOK
<1>10. CASE PollUnavailableFails
  <2>1. BoolOK'
    BY <1>10, Zenon DEF PollUnavailableFails, Register, Restart, chans, svcs, TypeOK, BoolOK
  <2> QED
    BY <1>10, <2>1, WorkerAssumption DEF PollUnavailableFails, Register, Restart, Lose,
         StatusChecked, chans, svcs, 
       Failing, Pending, Polled, TypeOK
<1>11. CASE PollRestarted
  <2>1. BoolOK'
    BY <1>11, Zenon DEF PollRestarted, chans, TypeOK, BoolOK
  <2>2. First[restarting] \in Services
    BY WorkerAssumption DEF TypeOK
  <2>3. /\ status' \in [Services -> {"Missing", "Available", "Unavailable", "Failed",
                                    "Restarting", "Stopping", "Stopped"}]
        /\ svc' \in [Services -> {"ready", "pending", "error"}]
    BY <1>11, <2>2 DEF PollRestarted, TypeOK
  <2> QED
    BY <1>11, <2>1, <2>3, WorkerAssumption DEF PollRestarted, chans, TypeOK
<1>12. CASE PollRestartPanics
  <2>1. BoolOK'
    BY <1>12, Zenon DEF PollRestartPanics, Die, svcs, TypeOK, BoolOK
  <2> QED
    BY <1>12, <2>1, WorkerAssumption DEF PollRestartPanics, Die, Lose, svcs, TypeOK
<1>13. CASE PollRestarting
  <2>1. BoolOK'
    BY <1>13, Zenon DEF PollRestarting, chans, svcs, TypeOK, BoolOK
  <2> QED
    BY <1>13, <2>1, WorkerAssumption DEF PollRestarting, chans, svcs, TypeOK
<1>14. CASE PollShutdownDone
  <2>1. BoolOK'
    BY <1>14, Zenon DEF PollShutdownDone, Die, svcs, TypeOK, BoolOK
  <2> QED
    BY <1>14, <2>1, WorkerAssumption DEF PollShutdownDone, Die, Lose, svcs, Active, TypeOK
<1>15. CASE PollShutdownTimeout
  <2>1. BoolOK'
    BY <1>15, Zenon DEF PollShutdownTimeout, Die, svcs, TypeOK, BoolOK
  <2> QED
    BY <1>15, <2>1, WorkerAssumption DEF PollShutdownTimeout, Die, StatusShutdown, Lose,
         svcs, Active, TypeOK
<1>16. CASE PollShutdownWaits
  <2>1. BoolOK'
    BY <1>16, Zenon DEF PollShutdownWaits, chans, svcs, TypeOK, BoolOK
  <2> QED
    BY <1>16, <2>1, WorkerAssumption DEF PollShutdownWaits, chans, svcs, Active, TypeOK
<1>17. CASE PollServe
  <2>1. BoolOK'
    BY <1>17, Zenon DEF PollServe, Register, Connect, svcs, TypeOK, BoolOK
  <2>2. rx' \in Seq(Conns) /\ Head(rx) \in Conns
    BY <1>17 DEF PollServe, TypeOK
  <2>3. fate' \in [Conns -> {"new", "queued", "active", "finished", "lost"}]
    BY <1>17, <2>2 DEF PollServe, Connect, TypeOK
  <2> QED
    BY <1>17, <2>1, <2>2, <2>3, WorkerAssumption DEF PollServe, Register, Connect,
         StatusChecked, svcs, Active, Failing, Pending, 
       Polled, TypeOK
<1>18. CASE PollBecomesUnavailable
  <2>1. BoolOK'
    BY <1>18, Zenon DEF PollBecomesUnavailable, Register, svcs, TypeOK, BoolOK
  <2> QED
    BY <1>18, <2>1, WorkerAssumption DEF PollBecomesUnavailable, Register, StatusChecked,
         svcs, Failing, Pending, 
       Polled, TypeOK
<1>19. CASE PollAvailableFails
  <2>1. BoolOK'
    BY <1>19, Zenon DEF PollAvailableFails, Register, Restart, svcs, TypeOK, BoolOK
  <2> QED
    BY <1>19, <2>1, WorkerAssumption DEF PollAvailableFails, Register, Restart, Lose,
         StatusChecked, svcs, Failing, 
       Pending, Polled, TypeOK
<1>20. CASE PollAvailableIdle
  <2>1. BoolOK'
    BY <1>20, Zenon DEF PollAvailableIdle, svcs, TypeOK, BoolOK
  <2> QED
    BY <1>20, <2>1, WorkerAssumption DEF PollAvailableIdle, svcs, TypeOK
<1>21. CASE PollClosed
  <2>1. BoolOK'
    BY <1>21, Zenon DEF PollClosed, Die, svcs, TypeOK, BoolOK
  <2> QED
    BY <1>21, <2>1, WorkerAssumption DEF PollClosed, Die, Lose, svcs, TypeOK
<1>22. CASE PollNoService
  <2>1. BoolOK'
    BY <1>22, Zenon DEF PollNoService, Die, svcs, TypeOK, BoolOK
  <2> QED
    BY <1>22, <2>1, WorkerAssumption DEF PollNoService, Die, Lose, svcs, TypeOK
<1>23. ASSUME NEW c \in Conns, Send(c) PROVE TypeOK'
  <2>1. BoolOK'
    BY <1>23, Zenon DEF Send, svcs, Unmoved, TypeOK, BoolOK
  <2> QED
    BY <1>23, <2>1, WorkerAssumption DEF Send, svcs, Unmoved, TypeOK
<1>24. ASSUME NEW c \in Conns, ConnDone(c) PROVE TypeOK'
  <2>1. BoolOK'
    BY <1>24, Zenon DEF ConnDone, chans, svcs, Unmoved, TypeOK, BoolOK
  <2> QED
    BY <1>24, <2>1, WorkerAssumption DEF ConnDone, chans, svcs, Unmoved, Active, TypeOK
<1>25. ASSUME NEW i \in Stops, SendStop(i) PROVE TypeOK'
  <2>1. BoolOK'
    BY <1>25, Zenon DEF SendStop, svcs, Unmoved, TypeOK, BoolOK
  <2>2. /\ rx2' \in Seq(Stops)
        /\ answer' \in [Stops -> {"unsent", "sent", "true", "false", "canceled"}]
    <3>1. \/ rx2' = rx2 /\ answer' = [answer EXCEPT ![i] = "canceled"]
          \/ rx2' = Append(rx2, i) /\ answer' = [answer EXCEPT ![i] = "sent"]
      BY <1>25 DEF SendStop
    <3>2. rx2 \in Seq(Stops) /\ Append(rx2, i) \in Seq(Stops)
      BY DEF TypeOK
    <3>3. \A a \in {"sent", "canceled"} :
            [answer EXCEPT ![i] = a]
              \in [Stops -> {"unsent", "sent", "true", "false", "canceled"}]
      BY DEF TypeOK
    <3> QED BY <3>1, <3>2, <3>3
  <2> QED
    BY <1>25, <2>1, <2>2, WorkerAssumption DEF SendStop, svcs, Unmoved, TypeOK
<1>26. ASSUME NEW s \in Services, ServiceChanges(s) PROVE TypeOK'
  <2>1. BoolOK'
    BY <1>26, Zenon DEF ServiceChanges, chans, Unmoved, TypeOK, BoolOK
  <2> QED
    BY <1>26, <2>1, WorkerAssumption DEF ServiceChanges, chans, Unmoved, TypeOK
<1>27. ASSUME NEW s \in Services, ServiceReady(s) PROVE TypeOK'
  <2>1. BoolOK'
    BY <1>27, Zenon DEF ServiceReady, chans, Unmoved, TypeOK, BoolOK
  <2> QED
    BY <1>27, <2>1, WorkerAssumption DEF ServiceReady, chans, Unmoved, TypeOK
<1>28. CASE DropClients
  <2>1. BoolOK'
    BY <1>28, Zenon DEF DropClients, svcs, Unmoved, TypeOK, BoolOK
  <2> QED
    BY <1>28, <2>1, WorkerAssumption DEF DropClients, svcs, Unmoved, TypeOK
<1>29. CASE CreateDone
  <2>1. BoolOK'
    BY <1>29, Zenon DEF CreateDone, chans, svcs, Unmoved, TypeOK, BoolOK
  <2> QED
    BY <1>29, <2>1, WorkerAssumption DEF CreateDone, chans, svcs, Unmoved, TypeOK
<1>30. CASE Tick
  <2>1. BoolOK'
    BY <1>30, Zenon DEF Tick, chans, svcs, Unmoved, TypeOK, BoolOK
  <2> QED
    BY <1>30, <2>1, WorkerAssumption DEF Tick, chans, svcs, Unmoved, TypeOK
<1>31. CASE TimeoutFires
  <2>1. BoolOK'
    BY <1>31, Zenon DEF TimeoutFires, chans, svcs, TypeOK, BoolOK
  <2> QED
    BY <1>31, <2>1, WorkerAssumption DEF TimeoutFires, chans, svcs, TypeOK
<1>32. CASE ArbiterStops
  <2>1. BoolOK'
    BY <1>32, Zenon DEF ArbiterStops, svcs, TypeOK, BoolOK
  <2> QED
    BY <1>32, <2>1, WorkerAssumption DEF ArbiterStops, Lose, svcs, TypeOK
<1>33. CASE UNCHANGED vars
  BY <1>33 DEF vars, chans, svcs, TypeOK, BoolOK
<1> QED
  BY <1>1, <1>2, <1>3, <1>4, <1>5, <1>6, <1>7, <1>8, <1>9, <1>10, <1>11, <1>12, 
     <1>13, <1>14, <1>15, <1>16, <1>17, <1>18, <1>19, <1>20, <1>21, <1>22, <1>23, 
     <1>24, <1>25, <1>26, <1>27, <1>28, <1>29, <1>30, <1>31, <1>32, <1>33 DEF Next, PollStep

\* Every step keeps count of the queued connections.
LEMMA QueueStep ==
  ASSUME WorkerInv, [Next]_vars PROVE QueueInv'
<1> USE DEF WorkerInv
<1>1. CASE StartOk
  BY <1>1 DEF StartOk, chans, QueueInv
<1>2. CASE StartErr
  BY <1>2 DEF StartErr, chans, QueueInv
<1>3. CASE BeginPoll
  BY <1>3 DEF BeginPoll, chans, QueueInv
<1>4. CASE NoStopCommand
  BY <1>4 DEF NoStopCommand, QueueInv
<1>5. CASE StopNow
  <2>1. rx' = <<>> /\ waiting' = <<>> /\ \A c \in Conns : fate'[c] # "queued"
    BY <1>5 DEF StopNow, Die, Lose
  <2> QED BY <2>1, ShortQueues DEF QueueInv
<1>6. CASE StopGraceful
  <2>1. rx' = rx /\ waiting' = <<>> /\ fate' = Lose(Range(waiting))
    BY <1>6 DEF StopGraceful
  <2>2. \A c \in Conns : fate'[c] = "queued" <=> c \in Range(rx)
    BY <2>1 DEF Lose, QueueInv
  <2> QED BY <2>1, <2>2, ShortQueues DEF QueueInv
<1>7. CASE PollUnavailableServe
  <2> DEFINE w == waiting[Len(waiting)]
  <2>1. /\ waiting # <<>> /\ waiting' = SubSeq(waiting, 1, Len(waiting) - 1)
        /\ rx' = rx /\ st = "Unavailable" /\ st' = st
    BY <1>7 DEF PollUnavailableServe, chans
  <2>2. /\ w \in Conns /\ w \in Range(waiting) /\ IsInjective(waiting')
        /\ Range(waiting') = Range(waiting) \ {w}
    <3>1. waiting \in Seq(Conns) /\ IsInjective(waiting)
      BY DEF TypeOK, QueueInv
    <3> QED BY <2>1, <3>1, PopOf
  <2>3. /\ fate'[w] # "queued" /\ \A c \in Conns \ {w} : fate'[c] = fate[c]
    BY <1>7, <2>2 DEF PollUnavailableServe, Connect, TypeOK
  <2> QED BY <2>1, <2>2, <2>3 DEF QueueInv
<1>8. CASE PollBecomesAvailable
  BY <1>8 DEF PollBecomesAvailable, chans, QueueInv
<1>9. CASE PollStaysUnavailable
  BY <1>9 DEF PollStaysUnavailable, chans, QueueInv
<1>10. CASE PollUnavailableFails
  <2>1. rx' = rx /\ waiting' = <<>> /\ fate' = Lose(Range(waiting))
    BY <1>10 DEF PollUnavailableFails, Restart, chans
  <2>2. \A c \in Conns : fate'[c] = "queued" <=> c \in Range(rx)
    BY <2>1 DEF Lose, QueueInv
  <2> QED BY <2>1, <2>2, ShortQueues DEF QueueInv
<1>11. CASE PollRestarted
  <2>1. waiting = <<>> /\ waiting' = <<>> /\ UNCHANGED <<rx, fate>>
    BY <1>11 DEF PollRestarted, QueueInv, chans
  <2> QED BY <2>1 DEF QueueInv
<1>12. CASE PollRestartPanics
  <2>1. rx' = <<>> /\ waiting' = <<>> /\ \A c \in Conns : fate'[c] # "queued"
    BY <1>12 DEF PollRestartPanics, Die, Lose
  <2> QED BY <2>1, ShortQueues DEF QueueInv
<1>13. CASE PollRestarting
  BY <1>13 DEF PollRestarting, chans, QueueInv
<1>14. CASE PollShutdownDone
  <2>1. rx' = <<>> /\ waiting' = <<>> /\ \A c \in Conns : fate'[c] # "queued"
    BY <1>14 DEF PollShutdownDone, Die, Lose
  <2> QED BY <2>1, ShortQueues DEF QueueInv
<1>15. CASE PollShutdownTimeout
  <2>1. rx' = <<>> /\ waiting' = <<>> /\ \A c \in Conns : fate'[c] # "queued"
    BY <1>15 DEF PollShutdownTimeout, Die, Lose
  <2> QED BY <2>1, ShortQueues DEF QueueInv
<1>16. CASE PollShutdownWaits
  BY <1>16 DEF PollShutdownWaits, chans, QueueInv
<1>17. CASE PollServe
  <2> DEFINE h == Head(rx)
  <2>1. rx # <<>> /\ rx' = Tail(rx) /\ st = "Available" /\ waiting = <<>>
    BY <1>17 DEF PollServe, QueueInv
  <2>2. /\ h \in Conns /\ h \in Range(rx) /\ IsInjective(rx')
        /\ Range(rx') = Range(rx) \ {h}
    BY <2>1, TailOf DEF TypeOK, QueueInv
  <2>3. /\ waiting' = <<>> /\ fate'[h] # "queued"
        /\ \A c \in Conns \ {h} : fate'[c] = fate[c]
    BY <1>17, <2>1, <2>2 DEF PollServe, Connect, TypeOK
  <2> QED BY <2>1, <2>2, <2>3, ShortQueues DEF QueueInv
<1>18. CASE PollBecomesUnavailable
  <2> DEFINE h == Head(rx)
  <2>1. rx # <<>> /\ rx' = Tail(rx) /\ st = "Available" /\ waiting = <<>>
    BY <1>18 DEF PollBecomesUnavailable, QueueInv
  <2>2. /\ h \in Conns /\ h \in Range(rx) /\ IsInjective(rx')
        /\ Range(rx') = Range(rx) \ {h}
    BY <2>1, TailOf DEF TypeOK, QueueInv
  <2>3. waiting' = <<h>> /\ fate' = fate /\ st' = "Unavailable"
    BY <1>18 DEF PollBecomesUnavailable
  <2>4. IsInjective(waiting') /\ Range(waiting') = {h}
    BY <2>3, ShortQueues
  <2> QED BY <2>1, <2>2, <2>3, <2>4, ShortQueues DEF QueueInv
<1>19. CASE PollAvailableFails
  <2> DEFINE h == Head(rx)
  <2>1. rx # <<>> /\ rx' = Tail(rx) /\ st = "Available" /\ waiting = <<>>
    BY <1>19 DEF PollAvailableFails, QueueInv
  <2>2. /\ h \in Conns /\ h \in Range(rx) /\ IsInjective(rx')
        /\ Range(rx') = Range(rx) \ {h}
    BY <2>1, TailOf DEF TypeOK, QueueInv
  <2>3. /\ waiting' = <<>> /\ fate'[h] # "queued"
        /\ \A c \in Conns \ {h} : fate'[c] = fate[c]
    BY <1>19, <2>1, <2>2 DEF PollAvailableFails, Restart, Lose, TypeOK
  <2> QED BY <2>1, <2>2, <2>3, ShortQueues DEF QueueInv
<1>20. CASE PollAvailableIdle
  BY <1>20 DEF PollAvailableIdle, QueueInv
<1>21. CASE PollClosed
  <2>1. rx' = <<>> /\ waiting' = <<>> /\ \A c \in Conns : fate'[c] # "queued"
    BY <1>21 DEF PollClosed, Die, Lose
  <2> QED BY <2>1, ShortQueues DEF QueueInv
<1>22. CASE PollNoService
  <2>1. rx' = <<>> /\ waiting' = <<>> /\ \A c \in Conns : fate'[c] # "queued"
    BY <1>22 DEF PollNoService, Die, Lose
  <2> QED BY <2>1, ShortQueues DEF QueueInv
<1>23. ASSUME NEW c \in Conns, Send(c) PROVE QueueInv'
  <2>1. /\ fate[c] = "new" /\ fate' = [fate EXCEPT ![c] = "queued"] /\ rx' = Append(rx, c)
        /\ waiting' = waiting /\ st' = st
    BY <1>23 DEF Send, Unmoved
  <2>2. c \notin Range(rx) /\ c \notin Range(waiting)
    BY <2>1 DEF QueueInv
  <2>3. IsInjective(rx') /\ Range(rx') = Range(rx) \cup {c}
    BY <2>1, <2>2, AppendTo DEF TypeOK, QueueInv
  <2>4. fate'[c] = "queued" /\ \A d \in Conns \ {c} : fate'[d] = fate[d]
    BY <2>1 DEF TypeOK
  <2> QED BY <2>1, <2>2, <2>3, <2>4 DEF QueueInv
<1>24. ASSUME NEW c \in Conns, ConnDone(c) PROVE QueueInv'
  <2>1. /\ \A d \in Conns : fate'[d] = "queued" <=> fate[d] = "queued"
        /\ UNCHANGED <<rx, waiting, st>>
    BY <1>24 DEF ConnDone, chans, Unmoved, TypeOK
  <2> QED BY <2>1 DEF QueueInv
<1>25. ASSUME NEW i \in Stops, SendStop(i) PROVE QueueInv'
  BY <1>25 DEF SendStop, Unmoved, QueueInv
<1>26. ASSUME NEW s \in Services, ServiceChanges(s) PROVE QueueInv'
  BY <1>26 DEF ServiceChanges, chans, Unmoved, QueueInv
<1>27. ASSUME NEW s \in Services, ServiceReady(s) PROVE QueueInv'
  BY <1>27 DEF ServiceReady, chans, Unmoved, QueueInv
<1>28. CASE DropClients
  BY <1>28 DEF DropClients, Unmoved, QueueInv
<1>29. CASE CreateDone
  BY <1>29 DEF CreateDone, chans, Unmoved, QueueInv
<1>30. CASE Tick
  BY <1>30 DEF Tick, chans, Unmoved, QueueInv
<1>31. CASE TimeoutFires
  BY <1>31 DEF TimeoutFires, chans, QueueInv
<1>32. CASE ArbiterStops
  <2>1. rx' = <<>> /\ waiting' = <<>> /\ \A c \in Conns : fate'[c] # "queued"
    BY <1>32 DEF ArbiterStops, Lose
  <2> QED BY <2>1, ShortQueues DEF QueueInv
<1>33. CASE UNCHANGED vars
  BY <1>33 DEF vars, chans, QueueInv
<1> QED
  BY <1>1, <1>2, <1>3, <1>4, <1>5, <1>6, <1>7, <1>8, <1>9, <1>10, <1>11, <1>12, 
     <1>13, <1>14, <1>15, <1>16, <1>17, <1>18, <1>19, <1>20, <1>21, <1>22, <1>23, 
     <1>24, <1>25, <1>26, <1>27, <1>28, <1>29, <1>30, <1>31, <1>32, <1>33 DEF Next, PollStep

\* The limit holds on as long as no connection is taken up.
LEMMA ActiveShrinks ==
  ASSUME WorkerInv, Active' \subseteq Active PROVE LimitInv'
<1>1. IsFiniteSet(Active) /\ Cardinality(Active) <= Capacity
  BY DEF WorkerInv, LimitInv, LimitRespected
<1>2. IsFiniteSet(Active') /\ Cardinality(Active') <= Cardinality(Active)
  BY <1>1, FS_Subset
<1>3. Cardinality(Active) \in Nat /\ Cardinality(Active') \in Nat
  BY <1>1, <1>2, FS_CardinalityType
<1>4. Cardinality(Active') <= Capacity
  BY <1>1, <1>2, <1>3, WorkerAssumption
<1> QED BY <1>2, <1>4 DEF LimitInv, LimitRespected

\* A service is called only when the check found room.
LEMMA ConnectInRoom ==
  ASSUME WorkerInv, NEW c \in Conns, HasRoom, Connect(c) PROVE LimitInv'
<1>1. CASE fate' = [fate EXCEPT ![c] = "active"]
  <2>1. Active' = Active \cup {c}
    BY <1>1 DEF Active, WorkerInv, TypeOK
  <2>2. IsFiniteSet(Active) /\ Cardinality(Active) \in Nat /\ Cardinality(Active) < Capacity
    BY FS_CardinalityType DEF WorkerInv, LimitInv, HasRoom
  <2>3. IsFiniteSet(Active') /\ Cardinality(Active') <= Cardinality(Active) + 1
    BY <2>1, <2>2, FS_AddElement
  <2>4. Cardinality(Active') \in Nat
    BY <2>3, FS_CardinalityType
  <2>5. Cardinality(Active') <= Capacity
    BY <2>2, <2>3, <2>4, WorkerAssumption
  <2> QED BY <2>3, <2>5 DEF LimitInv, LimitRespected
<1>2. CASE fate' = [fate EXCEPT ![c] = "lost"]
  <2>1. Active' \subseteq Active
    BY <1>2 DEF Active, WorkerInv, TypeOK
  <2> QED BY <2>1, ActiveShrinks
<1> QED BY <1>1, <1>2 DEF Connect

\* Every step respects the limit.
LEMMA LimitStep ==
  ASSUME WorkerInv, [Next]_vars PROVE LimitInv'
<1>1. CASE StartOk
  <2>1. Active' \subseteq Active
    BY <1>1 DEF StartOk, Active
  <2> QED BY <2>1, ActiveShrinks
<1>2. CASE StartErr
  <2>1. Active' \subseteq Active
    BY <1>2 DEF StartErr, Active
  <2> QED BY <2>1, ActiveShrinks
<1>3. CASE BeginPoll
  <2>1. Active' \subseteq Active
    BY <1>3 DEF BeginPoll, Active
  <2> QED BY <2>1, ActiveShrinks
<1>4. CASE NoStopCommand
  <2>1. Active' \subseteq Active
    BY <1>4 DEF NoStopCommand, Active
  <2> QED BY <2>1, ActiveShrinks
<1>5. CASE StopNow
  <2>1. Active' \subseteq Active
    BY <1>5 DEF StopNow, Die, Lose, Active
  <2> QED BY <2>1, ActiveShrinks
<1>6. CASE StopGraceful
  <2>1. Active' \subseteq Active
    BY <1>6 DEF StopGraceful, Lose, Active
  <2> QED BY <2>1, ActiveShrinks
<1>7. CASE PollUnavailableServe
  <2>1. waiting # <<>> /\ waiting \in Seq(Conns) /\ IsInjective(waiting)
    BY <1>7 DEF PollUnavailableServe, WorkerInv, TypeOK, QueueInv
  <2>2. waiting[Len(waiting)] \in Conns
    BY <2>1, PopOf
  <2> QED BY <1>7, <2>2, ConnectInRoom DEF PollUnavailableServe, CheckReady
<1>8. CASE PollBecomesAvailable
  <2>1. Active' \subseteq Active
    BY <1>8 DEF PollBecomesAvailable, Active
  <2> QED BY <2>1, ActiveShrinks
<1>9. CASE PollStaysUnavailable
  <2>1. Active' \subseteq Active
    BY <1>9 DEF PollStaysUnavailable, Active
  <2> QED BY <2>1, ActiveShrinks
<1>10. CASE PollUnavailableFails
  <2>1. Active' \subseteq Active
    BY <1>10 DEF PollUnavailableFails, Lose, Active
  <2> QED BY <2>1, ActiveShrinks
<1>11. CASE PollRestarted
  <2>1. Active' \subseteq Active
    BY <1>11 DEF PollRestarted, Active
  <2> QED BY <2>1, ActiveShrinks
<1>12. CASE PollRestartPanics
  <2>1. Active' \subseteq Active
    BY <1>12 DEF PollRestartPanics, Die, Lose, Active
  <2> QED BY <2>1, ActiveShrinks
<1>13. CASE PollRestarting
  <2>1. Active' \subseteq Active
    BY <1>13 DEF PollRestarting, Active
  <2> QED BY <2>1, ActiveShrinks
<1>14. CASE PollShutdownDone
  <2>1. Active' \subseteq Active
    BY <1>14 DEF PollShutdownDone, Die, Lose, Active
  <2> QED BY <2>1, ActiveShrinks
<1>15. CASE PollShutdownTimeout
  <2>1. Active' \subseteq Active
    BY <1>15 DEF PollShutdownTimeout, Die, Lose, Active
  <2> QED BY <2>1, ActiveShrinks
<1>16. CASE PollShutdownWaits
  <2>1. Active' \subseteq Active
    BY <1>16 DEF PollShutdownWaits, Active
  <2> QED BY <2>1, ActiveShrinks
<1>17. CASE PollServe
  <2>1. Head(rx) \in Conns
    BY <1>17 DEF PollServe, WorkerInv, TypeOK
  <2> QED BY <1>17, <2>1, ConnectInRoom DEF PollServe, CheckReady
<1>18. CASE PollBecomesUnavailable
  <2>1. Active' \subseteq Active
    BY <1>18 DEF PollBecomesUnavailable, Active
  <2> QED BY <2>1, ActiveShrinks
<1>19. CASE PollAvailableFails
  <2>1. Active' \subseteq Active
    BY <1>19 DEF PollAvailableFails, Lose, Active
  <2> QED BY <2>1, ActiveShrinks
<1>20. CASE PollAvailableIdle
  <2>1. Active' \subseteq Active
    BY <1>20 DEF PollAvailableIdle, Active
  <2> QED BY <2>1, ActiveShrinks
<1>21. CASE PollClosed
  <2>1. Active' \subseteq Active
    BY <1>21 DEF PollClosed, Die, Lose, Active
  <2> QED BY <2>1, ActiveShrinks
<1>22. CASE PollNoService
  <2>1. Active' \subseteq Active
    BY <1>22 DEF PollNoService, Die, Lose, Active
  <2> QED BY <2>1, ActiveShrinks
<1>23. ASSUME NEW c \in Conns, Send(c) PROVE LimitInv'
  <2>1. Active' \subseteq Active
    BY <1>23 DEF Send, Unmoved, Active, WorkerInv, TypeOK
  <2> QED BY <2>1, ActiveShrinks
<1>24. ASSUME NEW c \in Conns, ConnDone(c) PROVE LimitInv'
  <2>1. Active' \subseteq Active
    BY <1>24 DEF ConnDone, Unmoved, Active, WorkerInv, TypeOK
  <2> QED BY <2>1, ActiveShrinks
<1>25. ASSUME NEW i \in Stops, SendStop(i) PROVE LimitInv'
  <2>1. Active' \subseteq Active
    BY <1>25 DEF SendStop, Unmoved, Active
  <2> QED BY <2>1, ActiveShrinks
<1>26. ASSUME NEW s \in Services, ServiceChanges(s) PROVE LimitInv'
  <2>1. Active' \subseteq Active
    BY <1>26 DEF ServiceChanges, Unmoved, Active
  <2> QED BY <2>1, ActiveShrinks
<1>27. ASSUME NEW s \in Services, ServiceReady(s) PROVE LimitInv'
  <2>1. Active' \subseteq Active
    BY <1>27 DEF ServiceReady, Unmoved, Active
  <2> QED BY <2>1, ActiveShrinks
<1>28. CASE DropClients
  <2>1. Active' \subseteq Active
    BY <1>28 DEF DropClients, Unmoved, Active
  <2> QED BY <2>1, ActiveShrinks
<1>29. CASE CreateDone
  <2>1. Active' \subseteq Active
    BY <1>29 DEF CreateDone, Unmoved, Active
  <2> QED BY <2>1, ActiveShrinks
<1>30. CASE Tick
  <2>1. Active' \subseteq Active
    BY <1>30 DEF Tick, Unmoved, Active
  <2> QED BY <2>1, ActiveShrinks
<1>31. CASE TimeoutFires
  <2>1. Active' \subseteq Active
    BY <1>31 DEF TimeoutFires, Active
  <2> QED BY <2>1, ActiveShrinks
<1>32. CASE ArbiterStops
  <2>1. Active' \subseteq Active
    BY <1>32 DEF ArbiterStops, Lose, Active
  <2> QED BY <2>1, ActiveShrinks
<1>33. CASE UNCHANGED vars
  <2>1. Active' \subseteq Active
    BY <1>33 DEF vars, Active
  <2> QED BY <2>1, ActiveShrinks
<1> QED
  BY <1>1, <1>2, <1>3, <1>4, <1>5, <1>6, <1>7, <1>8, <1>9, <1>10, <1>11, <1>12, 
     <1>13, <1>14, <1>15, <1>16, <1>17, <1>18, <1>19, <1>20, <1>21, <1>22, <1>23, 
     <1>24, <1>25, <1>26, <1>27, <1>28, <1>29, <1>30, <1>31, <1>32, <1>33 DEF Next, PollStep

\* Every step tells the truth about the end of the worker.
LEMMA StopStep ==
  ASSUME WorkerInv, [Next]_vars PROVE StopInv'
<1> USE DEF WorkerInv
<1>1. CASE StartOk
  BY <1>1 DEF StartOk, StopInv, Active
<1>2. CASE StartErr
  BY <1>2 DEF StartErr, StopInv, Active
<1>3. CASE BeginPoll
  BY <1>3 DEF BeginPoll, StopInv, Active
<1>4. CASE NoStopCommand
  BY <1>4 DEF NoStopCommand, StopInv, Active
<1>5. CASE StopNow
  BY <1>5, WorkerAssumption DEF StopNow, Die, Lose, StopInv, Active
<1>6. CASE StopGraceful
  BY <1>6 DEF StopGraceful, Lose, StopInv, Active
<1>7. CASE PollUnavailableServe
  BY <1>7 DEF PollUnavailableServe, Connect, StopInv, Active
<1>8. CASE PollBecomesAvailable
  BY <1>8 DEF PollBecomesAvailable, StopInv, Active
<1>9. CASE PollStaysUnavailable
  BY <1>9 DEF PollStaysUnavailable, StopInv, Active
<1>10. CASE PollUnavailableFails
  BY <1>10 DEF PollUnavailableFails, Restart, Lose, StopInv, Active
<1>11. CASE PollRestarted
  BY <1>11 DEF PollRestarted, StopInv, Active
<1>12. CASE PollRestartPanics
  BY <1>12 DEF PollRestartPanics, Die, Lose, StopInv, Active
<1>13. CASE PollRestarting
  BY <1>13 DEF PollRestarting, StopInv, Active
<1>14. CASE PollShutdownDone
  BY <1>14, WorkerAssumption DEF PollShutdownDone, Die, Lose, StopInv, Active
<1>15. CASE PollShutdownTimeout
  BY <1>15, WorkerAssumption DEF PollShutdownTimeout, Die, Lose, StopInv, Active
<1>16. CASE PollShutdownWaits
  BY <1>16 DEF PollShutdownWaits, StopInv, Active
<1>17. CASE PollServe
  BY <1>17 DEF PollServe, Connect, StopInv, Active
<1>18. CASE PollBecomesUnavailable
  BY <1>18 DEF PollBecomesUnavailable, StopInv, Active
<1>19. CASE PollAvailableFails
  BY <1>19 DEF PollAvailableFails, Restart, Lose, StopInv, Active
<1>20. CASE PollAvailableIdle
  BY <1>20 DEF PollAvailableIdle, StopInv, Active
<1>21. CASE PollClosed
  BY <1>21 DEF PollClosed, Die, Lose, StopInv, Active
<1>22. CASE PollNoService
  BY <1>22 DEF PollNoService, Die, Lose, StopInv, Active
<1>23. ASSUME NEW c \in Conns, Send(c) PROVE StopInv'
  BY <1>23 DEF Send, Unmoved, StopInv, Active, TypeOK
<1>24. ASSUME NEW c \in Conns, ConnDone(c) PROVE StopInv'
  BY <1>24 DEF ConnDone, Unmoved, StopInv, Active, TypeOK
<1>25. ASSUME NEW i \in Stops, SendStop(i) PROVE StopInv'
  BY <1>25 DEF SendStop, Unmoved, StopInv, Active, TypeOK
<1>26. ASSUME NEW s \in Services, ServiceChanges(s) PROVE StopInv'
  BY <1>26 DEF ServiceChanges, Unmoved, StopInv, Active
<1>27. ASSUME NEW s \in Services, ServiceReady(s) PROVE StopInv'
  BY <1>27 DEF ServiceReady, Unmoved, StopInv, Active
<1>28. CASE DropClients
  BY <1>28 DEF DropClients, Unmoved, StopInv, Active
<1>29. CASE CreateDone
  BY <1>29 DEF CreateDone, Unmoved, StopInv, Active
<1>30. CASE Tick
  BY <1>30 DEF Tick, Unmoved, StopInv, Active
<1>31. CASE TimeoutFires
  BY <1>31 DEF TimeoutFires, StopInv, Active
<1>32. CASE ArbiterStops
  BY <1>32 DEF ArbiterStops, Lose, StopInv, Active
<1>33. CASE UNCHANGED vars
  BY <1>33 DEF vars, chans, svcs, StopInv, Active
<1> QED
  BY <1>1, <1>2, <1>3, <1>4, <1>5, <1>6, <1>7, <1>8, <1>9, <1>10, <1>11, <1>12, 
     <1>13, <1>14, <1>15, <1>16, <1>17, <1>18, <1>19, <1>20, <1>21, <1>22, <1>23, 
     <1>24, <1>25, <1>26, <1>27, <1>28, <1>29, <1>30, <1>31, <1>32, <1>33 DEF Next, PollStep

\* Every step keeps the availability flag honest.
LEMMA AvailabilityStep ==
  ASSUME WorkerInv, [Next]_vars PROVE AvailabilityHonest'
<1> USE DEF WorkerInv
<1>1. CASE StartOk
  BY <1>1 DEF StartOk, AvailabilityHonest
<1>2. CASE StartErr
  BY <1>2 DEF StartErr, AvailabilityHonest
<1>3. CASE BeginPoll
  BY <1>3 DEF BeginPoll, AvailabilityHonest
<1>4. CASE NoStopCommand
  BY <1>4 DEF NoStopCommand, AvailabilityHonest
<1>5. CASE StopNow
  BY <1>5 DEF StopNow, Die, AvailabilityHonest
<1>6. CASE StopGraceful
  BY <1>6 DEF StopGraceful, AvailabilityHonest
<1>7. CASE PollUnavailableServe
  BY <1>7 DEF PollUnavailableServe, AvailabilityHonest
<1>8. CASE PollBecomesAvailable
  BY <1>8 DEF PollBecomesAvailable, AvailabilityHonest
<1>9. CASE PollStaysUnavailable
  BY <1>9 DEF PollStaysUnavailable, AvailabilityHonest
<1>10. CASE PollUnavailableFails
  BY <1>10 DEF PollUnavailableFails, Restart, AvailabilityHonest
<1>11. CASE PollRestarted
  BY <1>11 DEF PollRestarted, AvailabilityHonest
<1>12. CASE PollRestartPanics
  BY <1>12 DEF PollRestartPanics, Die, AvailabilityHonest
<1>13. CASE PollRestarting
  BY <1>13 DEF PollRestarting, AvailabilityHonest
<1>14. CASE PollShutdownDone
  BY <1>14 DEF PollShutdownDone, Die, AvailabilityHonest
<1>15. CASE PollShutdownTimeout
  BY <1>15 DEF PollShutdownTimeout, Die, AvailabilityHonest
<1>16. CASE PollShutdownWaits
  BY <1>16 DEF PollShutdownWaits, AvailabilityHonest
<1>17. CASE PollServe
  BY <1>17 DEF PollServe, AvailabilityHonest
<1>18. CASE PollBecomesUnavailable
  BY <1>18 DEF PollBecomesUnavailable, AvailabilityHonest
<1>19. CASE PollAvailableFails
  BY <1>19 DEF PollAvailableFails, Restart, AvailabilityHonest
<1>20. CASE PollAvailableIdle
  BY <1>20 DEF PollAvailableIdle, AvailabilityHonest
<1>21. CASE PollClosed
  BY <1>21 DEF PollClosed, Die, AvailabilityHonest
<1>22. CASE PollNoService
  BY <1>22 DEF PollNoService, Die, AvailabilityHonest
<1>23. ASSUME NEW c \in Conns, Send(c) PROVE AvailabilityHonest'
  BY <1>23 DEF Send, Unmoved, AvailabilityHonest
<1>24. ASSUME NEW c \in Conns, ConnDone(c) PROVE AvailabilityHonest'
  BY <1>24 DEF ConnDone, Unmoved, AvailabilityHonest
<1>25. ASSUME NEW i \in Stops, SendStop(i) PROVE AvailabilityHonest'
  BY <1>25 DEF SendStop, Unmoved, AvailabilityHonest
<1>26. ASSUME NEW s \in Services, ServiceChanges(s) PROVE AvailabilityHonest'
  BY <1>26 DEF ServiceChanges, Unmoved, AvailabilityHonest
<1>27. ASSUME NEW s \in Services, ServiceReady(s) PROVE AvailabilityHonest'
  BY <1>27 DEF ServiceReady, Unmoved, AvailabilityHonest
<1>28. CASE DropClients
  BY <1>28 DEF DropClients, Unmoved, AvailabilityHonest
<1>29. CASE CreateDone
  BY <1>29 DEF CreateDone, Unmoved, AvailabilityHonest
<1>30. CASE Tick
  BY <1>30 DEF Tick, Unmoved, AvailabilityHonest
<1>31. CASE TimeoutFires
  BY <1>31 DEF TimeoutFires, AvailabilityHonest
<1>32. CASE ArbiterStops
  BY <1>32 DEF ArbiterStops, AvailabilityHonest
<1>33. CASE UNCHANGED vars
  BY <1>33 DEF vars, AvailabilityHonest
<1> QED
  BY <1>1, <1>2, <1>3, <1>4, <1>5, <1>6, <1>7, <1>8, <1>9, <1>10, <1>11, <1>12, 
     <1>13, <1>14, <1>15, <1>16, <1>17, <1>18, <1>19, <1>20, <1>21, <1>22, <1>23, 
     <1>24, <1>25, <1>26, <1>27, <1>28, <1>29, <1>30, <1>31, <1>32, <1>33 DEF Next, PollStep

LEMMA WorkerInitInv ==
  ASSUME Init PROVE WorkerInv
<1>1. TypeOK
  <2>1. BoolOK
    BY DEF Init, BoolOK
  <2> QED BY <2>1, WorkerAssumption DEF Init, TypeOK
<1>2. QueueInv
  BY ShortQueues DEF Init, QueueInv
<1>3. Active = {}
  BY DEF Init, Active
<1>4. LimitInv
  BY <1>3, FS_EmptySet, WorkerAssumption DEF LimitInv, LimitRespected
<1>5. StopInv /\ AvailabilityHonest
  BY DEF Init, StopInv, AvailabilityHonest
<1> QED BY <1>1, <1>2, <1>4, <1>5 DEF WorkerInv

\* worker.rs serves at most MAX_CONNS connections at a time, raises its availability flag
\* only while it is Available or gone, holds every connection that waits exactly once, and
\* answers a StopCommand with true only when no connection is being served.
THEOREM WorkerCorrect == Spec => []WorkerSound
<1>1. WorkerInv => WorkerSound
  <2> SUFFICES ASSUME WorkerInv PROVE WorkerSound
    OBVIOUS
  <2>1. rx \in Seq(Conns) /\ waiting \in Seq(Conns)
    BY DEF WorkerInv, TypeOK
  <2>2. IsInjective(rx \o waiting) /\ Range(rx \o waiting) = Range(rx) \cup Range(waiting)
    BY <2>1, Concatenated DEF WorkerInv, QueueInv
  <2>3. ConnQueuedOnce
    BY <2>2 DEF WorkerInv, QueueInv, ConnQueuedOnce
  <2>4. StopTruthful
    BY DEF WorkerInv, StopInv, StopTruthful
  <2> QED BY <2>3, <2>4 DEF WorkerInv, LimitInv, WorkerSound, ConnsAccounted
<1>2. Init => WorkerInv
  BY WorkerInitInv
<1>3. WorkerInv /\ [Next]_vars => WorkerInv'
  BY TypeStep, QueueStep, LimitStep, StopStep, AvailabilityStep DEF WorkerInv
<1> QED BY <1>1, <1>2, <1>3, PTL DEF Spec
=============================================================================
