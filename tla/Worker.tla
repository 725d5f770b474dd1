------------------------------- MODULE Worker -------------------------------
(***************************************************************************)
(* One server worker (src/server/worker.rs): the future that takes         *)
(* connections from the accept thread, keeps its services ready, counts    *)
(* connections against a limit, and obeys StopCommands.                    *)
(*                                                                         *)
(* Worker::poll calls itself after most transitions.  One level of that    *)
(* recursion is two steps: "cmd" polls the stop channel, "match" acts on   *)
(* the state; only the accept and server threads and the services' own     *)
(* wakeups come in between.  A poll starts only after a wakeup that some   *)
(* earlier poll asked for, so that a forgotten registration shows.         *)
(***************************************************************************)
EXTENDS Integers, Sequences, FiniteSets, Functions

CONSTANTS
  Conns,       \* connections the accept thread may hand over
  Services,    \* 1..n, the index of a service is its token
  First,       \* for each service, the first one its factory creates
  Capacity,    \* MAX_CONNS
  Stops,       \* StopCommands that may be sent
  Graceful,    \* those with graceful = true
  NoStop,
  MaxFlips     \* bound on the changes of mind of the services

ASSUME WorkerAssumption ==
  /\ Services = 1..Cardinality(Services) /\ 1 \in Services
  /\ First \in [Services -> Services]
  /\ Capacity \in Nat \ {0} /\ MaxFlips \in Nat
  /\ Graceful \subseteq Stops /\ NoStop \notin Stops

\* Every service has a factory of its own, as bind and listen make them.
OwnFactories == [s \in Services |-> s]

VARIABLES
  st,          \* WorkerState, "Starting" before the services exist, "Dead" after
  phase,       \* where poll is: "idle", "cmd" or "match"
  woken,       \* the worker's task is scheduled
  rx, rxReg,   \* connections sent; the receiver's waker is registered
  rx2, rx2Reg, \* the same for StopCommands
  closed,      \* every WorkerClient is gone
  waiting,     \* the Vec of Unavailable
  fate,        \* what became of each connection
  counterTask, \* the Counter holds the worker's waker
  status,      \* WorkerServiceStatus, "Missing" if never created
  svc,         \* what each service's poll_ready would return
  interest,    \* services that hold the worker's waker
  flips,
  restarting,  \* the token of Restarting
  created,     \* the future of Restarting: "pending", "ok" or "err"
  avail,       \* WorkerAvailability
  timeout,     \* the shutdown timeout: "off", "armed" or "fired"
  answer,      \* what the sender of each StopCommand knows
  shutTx,      \* the command whose answer Shutdown holds
  arbiter      \* "running", "stopping" or "stopped"

chans == <<rx, rxReg, rx2, rx2Reg, closed>>
svcs  == <<svc, flips>>
vars  == <<st, phase, woken, chans, waiting, fate, counterTask, status, svcs,
           interest, restarting, created, avail, timeout, answer, shutTx, arbiter>>

Active == {c \in Conns : fate[c] = "active"}
\* Mutant: the limit is reached one connection too late.
M_HasRoomAtLimit == Cardinality(Active) <= Capacity

HasRoom == Cardinality(Active) < Capacity

Init ==
  /\ st = "Starting" /\ phase = "idle" /\ woken = FALSE
  /\ rx = <<>> /\ rxReg = FALSE /\ rx2 = <<>> /\ rx2Reg = FALSE
  /\ closed = FALSE /\ waiting = <<>>
  /\ fate = [c \in Conns |-> "new"] /\ counterTask = FALSE
  /\ status = [s \in Services |-> "Missing"]
  /\ svc = [s \in Services |-> "pending"] /\ interest = {} /\ flips = 0
  /\ restarting = 1 /\ created = "pending"
  /\ avail = FALSE /\ timeout = "off"
  /\ answer = [i \in Stops |-> "unsent"] /\ shutTx = NoStop
  /\ arbiter = "running"

-----------------------------------------------------------------------------
(* check_readiness *)

Polled  == {s \in Services : status[s] \in {"Available", "Unavailable"}}
Failing == {s \in Polled : svc[s] = "error"}
Pending == {s \in Polled : svc[s] = "pending"}

StatusChecked ==
  [s \in Services |-> CASE s \in Failing -> "Failed"
                        [] s \in Pending -> "Unavailable"
                        [] s \in Polled \ (Failing \union Pending) -> "Available"
                        [] OTHER -> status[s]]

\* Mutant: a full counter does not keep the worker's waker.
M_RegisterServicesOnly ==
  /\ UNCHANGED counterTask
  /\ interest' = interest \union Pending

\* What the check leaves behind: wakers with the counter and the services.
Register ==
  /\ counterTask' = (counterTask \/ ~ HasRoom)
  /\ interest' = interest \union Pending

CheckReady    == Failing = {} /\ Pending = {} /\ HasRoom
CheckNotReady == Failing = {} /\ (Pending # {} \/ ~ HasRoom)

Lose(cs) == [c \in Conns |-> IF c \in cs THEN "lost" ELSE fate[c]]

\* Err((token, idx)): the last failing service is restarted.
Restart ==
  /\ \E s \in Failing :
       /\ \A other \in Failing : other <= s
       /\ status' = [StatusChecked EXCEPT ![s] = "Restarting"] /\ restarting' = s
  /\ st' = "Restarting" /\ created' = "pending"
  /\ waiting' = <<>>
  /\ phase' = "cmd"

\* The worker's future ends, having sent ans through tx; what it still holds is
\* dropped with it.
Die(tx, ans) ==
  /\ st' = "Dead" /\ phase' = "idle" /\ woken' = FALSE
  /\ rx' = <<>> /\ rx2' = <<>> /\ rxReg' = FALSE /\ rx2Reg' = FALSE
  /\ waiting' = <<>> /\ interest' = {} /\ counterTask' = FALSE
  /\ fate' = Lose({c \in Conns : fate[c] = "queued"})
  /\ answer' = [i \in Stops |->
       IF i = tx THEN ans
       ELSE IF answer[i] = "sent" THEN "canceled" ELSE answer[i]]
  /\ shutTx' = NoStop /\ timeout' = "off"
  /\ UNCHANGED <<closed, svcs, restarting, created>>

\* shutdown(force): only services that are Available are told.
StatusShutdown(to) ==
  [s \in Services |-> IF status[s] = "Available" THEN to ELSE status[s]]

-----------------------------------------------------------------------------
(* Worker::start and poll *)

StartOk ==
  /\ st = "Starting"
  /\ st' = "Unavailable" /\ phase' = "cmd"
  /\ status' = [s \in Services |-> "Unavailable"]
  /\ UNCHANGED <<woken, chans, waiting, fate, counterTask, svcs, interest,
                 restarting, created, avail, timeout, answer, shutTx, arbiter>>

\* The arbiter is told to stop, and the worker polled without its services.
StartErr ==
  /\ st = "Starting"
  /\ st' = "Unavailable" /\ phase' = "cmd" /\ arbiter' = "stopping"
  /\ UNCHANGED <<woken, chans, waiting, fate, counterTask, status, svcs,
                 interest, restarting, created, avail, timeout, answer, shutTx>>

BeginPoll ==
  /\ phase = "idle" /\ woken /\ st \notin {"Starting", "Dead"}
  /\ phase' = "cmd" /\ woken' = FALSE
  /\ UNCHANGED <<st, chans, waiting, fate, counterTask, status, svcs, interest,
                 restarting, created, avail, timeout, answer, shutTx, arbiter>>

NoStopCommand ==
  /\ phase = "cmd" /\ rx2 = <<>>
  /\ phase' = "match" /\ rx2Reg' = ~ closed
  /\ UNCHANGED <<st, woken, rx, rxReg, rx2, closed, waiting, fate, counterTask,
                 status, svcs, interest, restarting, created, avail, timeout,
                 answer, shutTx, arbiter>>

\* No connection, or not graceful: answer and end.
StopNow ==
  /\ phase = "cmd" /\ rx2 # <<>>
  /\ Active = {} \/ Head(rx2) \notin Graceful
  /\ avail' = FALSE
  /\ status' = IF Active = {} THEN status ELSE StatusShutdown("Stopped")
  /\ Die(Head(rx2), IF Active = {} THEN "true" ELSE "false")
  /\ UNCHANGED arbiter

\* The state, with the connections and the older answer in it, is replaced.
StopGraceful ==
  /\ phase = "cmd" /\ rx2 # <<>>
  /\ Active # {} /\ Head(rx2) \in Graceful
  /\ avail' = FALSE
  /\ status' = StatusShutdown("Stopping")
  /\ st' = "Shutdown" /\ timeout' = "armed" /\ shutTx' = Head(rx2)
  /\ rx2' = Tail(rx2)
  /\ answer' = IF shutTx = NoStop THEN answer
                                  ELSE [answer EXCEPT ![shutTx] = "canceled"]
  /\ waiting' = <<>> /\ fate' = Lose(Range(waiting))
  /\ phase' = "match"
  /\ UNCHANGED <<woken, rx, rxReg, rx2Reg, closed, counterTask, svcs, interest,
                 restarting, created, arbiter>>

\* service.call((guard, Connect(io))): the connection is counted until its
\* task ends, at once if the stream cannot be converted; the index panics if
\* the worker has no services.
Connect(c) ==
  \/ /\ status[1] # "Missing"
     /\ fate' = [fate EXCEPT ![c] = "active"]
     /\ UNCHANGED woken
  \/ /\ status[1] # "Missing"
     /\ fate' = [fate EXCEPT ![c] = "lost"]
     /\ woken' = (woken \/ (counterTask /\ Cardinality(Active) + 1 = Capacity))

NoService == status[1] = "Missing"

PollUnavailableServe ==
  /\ phase = "match" /\ st = "Unavailable" /\ CheckReady /\ waiting # <<>>
  /\ Connect(waiting[Len(waiting)])
  /\ waiting' = SubSeq(waiting, 1, Len(waiting) - 1)
  /\ status' = StatusChecked /\ Register
  /\ phase' = "cmd"
  /\ UNCHANGED <<st, chans, svcs, restarting, created, avail, timeout, answer,
                 shutTx, arbiter>>

PollBecomesAvailable ==
  /\ phase = "match" /\ st = "Unavailable" /\ CheckReady /\ waiting = <<>>
  /\ st' = "Available" /\ avail' = TRUE
  /\ status' = StatusChecked /\ Register
  /\ phase' = "cmd"
  /\ UNCHANGED <<woken, chans, waiting, fate, svcs, restarting, created, timeout,
                 answer, shutTx, arbiter>>

PollStaysUnavailable ==
  /\ phase = "match" /\ st = "Unavailable" /\ CheckNotReady
  /\ status' = StatusChecked /\ Register
  /\ phase' = "idle"
  /\ UNCHANGED <<st, woken, chans, waiting, fate, svcs, restarting, created,
                 avail, timeout, answer, shutTx, arbiter>>

\* The connections that wait are dropped with the old state.
PollUnavailableFails ==
  /\ phase = "match" /\ st = "Unavailable"
  /\ Restart /\ Register
  /\ fate' = Lose(Range(waiting))
  /\ UNCHANGED <<woken, chans, svcs, avail, timeout, answer, shutTx, arbiter>>

\* created() for the first service of the factory only: the loop returns.
PollRestarted ==
  /\ phase = "match" /\ st = "Restarting" /\ created = "ok"
  /\ status' = [status EXCEPT ![First[restarting]] = "Unavailable"]
  /\ \E r \in {"ready", "pending"} : svc' = [svc EXCEPT ![First[restarting]] = r]
  /\ interest' = interest \ {First[restarting]}
  /\ st' = "Unavailable" /\ waiting' = <<>>
  /\ phase' = "cmd"
  /\ UNCHANGED <<woken, chans, fate, counterTask, flips, restarting, created,
                 avail, timeout, answer, shutTx, arbiter>>

PollRestartPanics ==
  /\ phase = "match" /\ st = "Restarting" /\ created = "err"
  /\ Die(NoStop, "canceled")
  /\ UNCHANGED <<status, avail, arbiter>>

PollRestarting ==
  /\ phase = "match" /\ st = "Restarting" /\ created = "pending"
  /\ phase' = "idle"
  /\ UNCHANGED <<st, woken, chans, waiting, fate, counterTask, status, svcs,
                 interest, restarting, created, avail, timeout, answer, shutTx,
                 arbiter>>

PollShutdownDone ==
  /\ phase = "match" /\ st = "Shutdown" /\ Active = {}
  /\ Die(shutTx, "true")
  /\ arbiter' = "stopping"
  /\ UNCHANGED <<status, avail>>

PollShutdownTimeout ==
  /\ phase = "match" /\ st = "Shutdown" /\ Active # {} /\ timeout = "fired"
  /\ status' = StatusShutdown("Stopped")
  /\ Die(shutTx, "false")
  /\ arbiter' = "stopping"
  /\ UNCHANGED avail

PollShutdownWaits ==
  /\ phase = "match" /\ st = "Shutdown" /\ Active # {} /\ timeout = "armed"
  /\ phase' = "idle"
  /\ UNCHANGED <<st, woken, chans, waiting, fate, counterTask, status, svcs,
                 interest, restarting, created, avail, timeout, answer, shutTx,
                 arbiter>>

\* The loop over rx does not look at the stop channel in between.
PollServe ==
  /\ phase = "match" /\ st = "Available" /\ rx # <<>> /\ CheckReady
  /\ Connect(Head(rx))
  /\ rx' = Tail(rx)
  /\ status' = StatusChecked /\ Register
  /\ UNCHANGED <<st, phase, rxReg, rx2, rx2Reg, closed, waiting, svcs, restarting,
                 created, avail, timeout, answer, shutTx, arbiter>>

PollBecomesUnavailable ==
  /\ phase = "match" /\ st = "Available" /\ rx # <<>> /\ CheckNotReady
  /\ avail' = FALSE
  /\ st' = "Unavailable" /\ waiting' = <<Head(rx)>> /\ rx' = Tail(rx)
  /\ status' = StatusChecked /\ Register
  /\ phase' = "cmd"
  /\ UNCHANGED <<woken, rxReg, rx2, rx2Reg, closed, fate, svcs, restarting,
                 created, timeout, answer, shutTx, arbiter>>

\* The connection just taken is dropped.
PollAvailableFails ==
  /\ phase = "match" /\ st = "Available" /\ rx # <<>>
  /\ Restart /\ Register
  /\ avail' = FALSE
  /\ fate' = Lose({Head(rx)}) /\ rx' = Tail(rx)
  /\ UNCHANGED <<woken, rxReg, rx2, rx2Reg, closed, svcs, timeout, answer,
                 shutTx, arbiter>>

PollAvailableIdle ==
  /\ phase = "match" /\ st = "Available" /\ rx = <<>> /\ ~ closed
  /\ phase' = "idle" /\ rxReg' = TRUE
  /\ UNCHANGED <<st, woken, rx, rx2, rx2Reg, closed, waiting, fate, counterTask,
                 status, svcs, interest, restarting, created, avail, timeout,
                 answer, shutTx, arbiter>>

PollClosed ==
  /\ phase = "match" /\ st = "Available" /\ rx = <<>> /\ closed
  /\ Die(NoStop, "canceled")
  /\ UNCHANGED <<status, avail, arbiter>>

PollNoService ==
  /\ phase = "match" /\ st = "Available" /\ rx # <<>> /\ NoService /\ HasRoom
  /\ Die(NoStop, "canceled")
  /\ UNCHANGED <<status, avail, arbiter>>

-----------------------------------------------------------------------------
(* The other actors *)

Unmoved == <<st, phase, waiting, status, restarting, timeout, shutTx, arbiter>>

\* WorkerClient::send from the accept thread; fails once the worker is dead.
Send(c) ==
  /\ fate[c] = "new" /\ st # "Dead" /\ ~ closed
  /\ fate' = [fate EXCEPT ![c] = "queued"]
  /\ rx' = Append(rx, c)
  /\ woken' = (woken \/ rxReg) /\ rxReg' = FALSE
  /\ UNCHANGED <<Unmoved, rx2, rx2Reg, closed, counterTask, svcs, interest,
                 created, avail, answer>>

\* WorkerClient::stop from the server's task.
SendStop(i) ==
  /\ answer[i] = "unsent" /\ ~ closed
  /\ IF st = "Dead"
       THEN /\ answer' = [answer EXCEPT ![i] = "canceled"]
            /\ UNCHANGED <<rx2, rx2Reg, woken>>
       ELSE /\ answer' = [answer EXCEPT ![i] = "sent"]
            /\ rx2' = Append(rx2, i)
            /\ woken' = (woken \/ rx2Reg) /\ rx2Reg' = FALSE
  /\ UNCHANGED <<Unmoved, rx, rxReg, closed, fate, counterTask, svcs, interest,
                 created, avail>>

DropClients ==
  /\ ~ closed
  /\ closed' = TRUE
  /\ woken' = (woken \/ rxReg \/ rx2Reg)
  /\ rxReg' = FALSE /\ rx2Reg' = FALSE
  /\ UNCHANGED <<Unmoved, rx, rx2, fate, counterTask, svcs, interest, created,
                 avail, answer>>

\* CounterGuard::drop at the end of a connection's task.
ConnDone(c) ==
  /\ phase = "idle" /\ fate[c] = "active"
  /\ fate' = [fate EXCEPT ![c] = "finished"]
  /\ IF Cardinality(Active) = Capacity
       THEN woken' = (woken \/ counterTask) /\ counterTask' = FALSE
       ELSE UNCHANGED <<woken, counterTask>>
  /\ UNCHANGED <<Unmoved, chans, svcs, interest, created, avail, answer>>

ServiceChanges(s) ==
  /\ flips < MaxFlips
  /\ \E r \in {"ready", "pending", "error"} \ {svc[s]} :
       svc' = [svc EXCEPT ![s] = r]
  /\ flips' = flips + 1
  /\ woken' = (woken \/ s \in interest) /\ interest' = interest \ {s}
  /\ UNCHANGED <<Unmoved, chans, fate, counterTask, created, avail, answer>>

\* A service that is busy gets ready some time.
ServiceReady(s) ==
  /\ svc[s] = "pending"
  /\ svc' = [svc EXCEPT ![s] = "ready"]
  /\ woken' = (woken \/ s \in interest) /\ interest' = interest \ {s}
  /\ UNCHANGED <<Unmoved, chans, flips, fate, counterTask, created, avail, answer>>

CreateDone ==
  /\ st = "Restarting" /\ created = "pending"
  /\ created' \in {"ok", "err"} /\ woken' = TRUE
  /\ UNCHANGED <<Unmoved, chans, fate, counterTask, svcs, interest, avail, answer>>

\* The delay of a second that Shutdown keeps renewing.
Tick ==
  /\ phase = "idle" /\ st = "Shutdown" /\ ~ woken
  /\ woken' = TRUE
  /\ UNCHANGED <<Unmoved, chans, fate, counterTask, svcs, interest, created, avail,
                 answer>>

TimeoutFires ==
  /\ phase = "idle" /\ st = "Shutdown" /\ timeout = "armed"
  /\ timeout' = "fired" /\ woken' = TRUE
  /\ UNCHANGED <<st, phase, chans, waiting, fate, counterTask, status, svcs,
                 interest, restarting, created, avail, answer, shutTx, arbiter>>

\* The arbiter's thread ends and drops every task it has.
ArbiterStops ==
  /\ phase = "idle" /\ arbiter = "stopping"
  /\ arbiter' = "stopped"
  /\ st' = "Dead" /\ woken' = FALSE
  /\ rx' = <<>> /\ rx2' = <<>> /\ rxReg' = FALSE /\ rx2Reg' = FALSE
  /\ waiting' = <<>> /\ interest' = {} /\ counterTask' = FALSE
  /\ fate' = Lose({c \in Conns : fate[c] \in {"queued", "active"}})
  /\ answer' = [i \in Stops |-> IF answer[i] = "sent" THEN "canceled" ELSE answer[i]]
  /\ shutTx' = NoStop /\ timeout' = "off"
  /\ UNCHANGED <<phase, closed, status, svcs, restarting, created, avail>>

PollStep ==
  \/ BeginPoll \/ NoStopCommand \/ StopNow \/ StopGraceful
  \/ PollUnavailableServe \/ PollBecomesAvailable \/ PollStaysUnavailable
  \/ PollUnavailableFails \/ PollRestarted \/ PollRestartPanics \/ PollRestarting
  \/ PollShutdownDone \/ PollShutdownTimeout \/ PollShutdownWaits
  \/ PollServe \/ PollBecomesUnavailable \/ PollAvailableFails
  \/ PollAvailableIdle \/ PollClosed \/ PollNoService

Next ==
  \/ StartOk \/ StartErr \/ PollStep
  \/ \E c \in Conns : Send(c) \/ ConnDone(c)
  \/ \E i \in Stops : SendStop(i)
  \/ \E s \in Services : ServiceChanges(s) \/ ServiceReady(s)
  \/ DropClients \/ CreateDone \/ Tick \/ TimeoutFires \/ ArbiterStops

Spec == Init /\ [][Next]_vars

(***************************************************************************)
(* A scheduled task is polled and a poll ends; factories, services and     *)
(* connections finish what they do; the timers of the arbiter run.  What   *)
(* shares the worker's thread is strongly fair: a poll of the worker       *)
(* delays it, and the scheduler then turns to the other tasks.             *)
(***************************************************************************)
Fairness ==
  /\ WF_vars(StartOk \/ StartErr) /\ WF_vars(PollStep)
  /\ \A c \in Conns : SF_vars(ConnDone(c))
  /\ \A s \in Services : WF_vars(ServiceReady(s))
  /\ WF_vars(CreateDone) /\ WF_vars(Tick)
  /\ SF_vars(TimeoutFires) /\ SF_vars(ArbiterStops)

FairSpec == Spec /\ Fairness

-----------------------------------------------------------------------------
(* Properties *)

BoolOK ==
  /\ woken \in BOOLEAN /\ rxReg \in BOOLEAN /\ rx2Reg \in BOOLEAN
  /\ closed \in BOOLEAN /\ counterTask \in BOOLEAN /\ avail \in BOOLEAN

TypeOK ==
  /\ BoolOK
  /\ st \in {"Starting", "Available", "Unavailable", "Restarting", "Shutdown",
             "Dead"}
  /\ phase \in {"idle", "cmd", "match"}
  /\ rx \in Seq(Conns) /\ rx2 \in Seq(Stops) /\ waiting \in Seq(Conns)
  /\ fate \in [Conns -> {"new", "queued", "active", "finished", "lost"}]
  /\ status \in [Services -> {"Missing", "Available", "Unavailable", "Failed",
                              "Restarting", "Stopping", "Stopped"}]
  /\ svc \in [Services -> {"ready", "pending", "error"}]
  /\ interest \subseteq Services /\ flips \in 0..MaxFlips
  /\ restarting \in Services /\ created \in {"pending", "ok", "err"}
  /\ timeout \in {"off", "armed", "fired"}
  /\ answer \in [Stops -> {"unsent", "sent", "true", "false", "canceled"}]
  /\ shutTx \in Stops \union {NoStop}
  /\ arbiter \in {"running", "stopping", "stopped"}

(***************************************************************************)
(* A worker never serves more than MAX_CONNS connections, whichever of the *)
(* two places that call the service it takes them through.                 *)
(***************************************************************************)
LimitRespected == Cardinality(Active) <= Capacity

(***************************************************************************)
(* The flag the accept thread reads tells the truth: it is up only while   *)
(* the worker is Available, or dead, where the next send finds out.        *)
(***************************************************************************)
AvailabilityHonest ==
  avail => st \in {"Available", "Dead"}

(***************************************************************************)
(* A connection sent to the worker is in its channel or in the wait queue  *)
(* exactly once until it is served or dropped, whatever pops, pushes back  *)
(* and replaced states happen.                                             *)
(***************************************************************************)
ConnQueuedOnce ==
  LET held == rx \o waiting IN
  /\ \A c \in Conns : fate[c] = "queued" <=> c \in Range(held)
  /\ IsInjective(held)

(***************************************************************************)
(* worker.rs:22, "Returns `true` on successful shutdown and `false` if     *)
(* some connections still alive": after true no connection is being served.*)
(***************************************************************************)
StopTruthful ==
  (\E i \in Stops : answer[i] = "true") => Active = {}

\* No connection is duplicated or dropped out of sight, and a stop is not
\* reported as clean while one is being served.
ConnsAccounted ==
  TypeOK /\ ConnQueuedOnce /\ StopTruthful

(***************************************************************************)
(* Every StopCommand is answered, or its sender learns that the worker is  *)
(* gone: also one that arrives during a restart, during a shutdown, or     *)
(* together with another.                                                  *)
(***************************************************************************)
StopAnswered ==
  \A i \in Stops : answer[i] = "sent" ~> answer[i] \in {"true", "false", "canceled"}

(***************************************************************************)
(* A connection that waits for room or for a service is not forgotten.     *)
(***************************************************************************)
ConnNotForgotten ==
  \A c \in Conns :
    fate[c] = "queued" ~> fate[c] \in {"active", "finished", "lost"}

\* The limit holds, the availability flag is honest and connections are accounted for.
WorkerSound == LimitRespected /\ AvailabilityHonest /\ ConnsAccounted
\* Every StopCommand is answered and no connection waits for ever.
WorkerProgress == StopAnswered /\ ConnNotForgotten
=============================================================================
