------------------------------- MODULE Server -------------------------------
(***************************************************************************)
(* The server (src/server): the accept thread (accept.rs), the server's    *)
(* own task that executes commands (ServerBuilder, builder.rs), and the    *)
(* handle with which a program pauses, resumes and stops it (server.rs).   *)
(* Workers are what these two see of them: a channel that is open or not   *)
(* and the availability flag; module Worker has the rest.                  *)
(*                                                                         *)
(* A step of the accept thread is one event, one command, one accept(), or *)
(* one worker tried.  Sockets are edge triggered.                          *)
(***************************************************************************)
EXTENDS Integers, Sequences, FiniteSets, Functions, TLAPS

CONSTANTS
  Sockets, NoSocket,
  Workers,      \* the workers that may ever be started, in order 1..n
  Threads,      \* ServerBuilder::threads
  SystemExit,   \* ServerBuilder::system_exit was called
  Ops,          \* what the program may ask for: subset of AllOps
  MaxOps,       \* bound on how often it asks
  MaxConns,     \* bound on incoming connections
  MaxErrors,    \* bound on errors of accept()
  MaxFlips      \* bound on the workers' losses of availability

AllOps == {"Pause", "Resume", "StopGraceful", "StopForced", "Term", "Int"}

\* The tokens of the readiness queue; those of the sockets start at DELTA.
Events == {"CMD", "NOTIFY", "TIMER"}

ASSUME ServerAssumption ==
  /\ IsFiniteSet(Sockets) /\ Sockets \cap Events = {} /\ IsFiniteSet(Workers)
  /\ Workers = 1..Cardinality(Workers) /\ Threads \in Workers
  /\ Ops \subseteq AllOps /\ SystemExit \in BOOLEAN /\ NoSocket \notin Sockets
  /\ {MaxOps, MaxConns, MaxErrors, MaxFlips} \subseteq Nat

VARIABLES
  \* the kernel
  registered,   \* sockets registered with the poll
  edge,         \* sockets with an event not yet delivered
  readyQ,       \* CMD, NOTIFY and TIMER, in the order they were set
  backlog,      \* connections to be accepted, per socket
  \* the accept thread
  pc,           \* "poll", "event", "cmd", "accept", "offer" or "exited"
  batch,        \* events of this poll still to handle
  cur, idx,     \* inside accept, its socket and the counter of accept_one
  acceptQ,      \* Commands sent to it
  list, next,   \* Accept::workers and Accept::next (from 0)
  backpressure,
  retry,        \* ServerSocketInfo::timeout: "none", "armed" or "due"
  \* the server's task
  serverQ,      \* ServerCommands sent to it
  workers,      \* ServerBuilder::workers, as the workers in its order
  exit,         \* ServerBuilder::exit
  sysStop,      \* System::stop has been asked for
  waits,        \* for each graceful stop not completed, the workers it awaits
  stopped,      \* some stop has completed
  \* the workers
  wst,          \* "unused", "running", "stopping" or "gone"
  windex,       \* WorkerClient::idx
  told,         \* a StopCommand is in its channel
  avail,
  \* history and bounds
  paused,       \* the last of Pause and Resume the accept thread obeyed
  ops, conns, errors, flips

kernel  == <<registered, edge, readyQ, backlog>>
thread  == <<pc, batch, cur, idx, list, next, backpressure, retry, paused>>
builder == <<workers, exit, sysStop, waits, stopped>>
works   == <<wst, windex, told, avail>>
bounds  == <<ops, conns, errors, flips>>
vars == <<kernel, thread, acceptQ, serverQ, builder, works, bounds>>

Open(w) == wst[w] \in {"running", "stopping"}

Init ==
  /\ registered = Sockets /\ edge = {} /\ readyQ = <<>>
  /\ backlog = [s \in Sockets |-> 0]
  /\ pc = "poll" /\ batch = <<>> /\ idx = 0 /\ cur = NoSocket
  /\ acceptQ = <<>> /\ next = 0 /\ backpressure = FALSE
  /\ list = [i \in 1..Threads |-> i] /\ workers = list
  /\ retry = [s \in Sockets |-> "none"]
  /\ serverQ = <<>> /\ exit = SystemExit /\ sysStop = FALSE
  /\ waits = <<>> /\ stopped = FALSE
  /\ wst = [w \in Workers |-> IF w <= Threads THEN "running" ELSE "unused"]
  /\ windex = [w \in Workers |-> w - 1]
  /\ told = {} /\ avail = {} /\ paused = FALSE
  /\ ops = 0 /\ conns = 0 /\ errors = 0 /\ flips = 0

-----------------------------------------------------------------------------
(* Registration.  A socket registered with connections waiting has an      *)
(* event at once; registering twice or deregistering twice is only logged. *)

SetReady(e) == IF e \in Range(readyQ) THEN readyQ ELSE Append(readyQ, e)

Register(ss) ==
  /\ registered' = registered \union ss
  /\ edge' = edge \union {s \in ss \ registered : backlog[s] > 0}

Deregister(ss) ==
  /\ registered' = registered \ ss
  /\ edge' = edge \ ss

BackpressureOn  == backpressure' = TRUE /\ Deregister(Sockets)
BackpressureOff ==
  IF backpressure THEN backpressure' = FALSE /\ Register(Sockets)
                  ELSE UNCHANGED <<backpressure, registered, edge>>

-----------------------------------------------------------------------------
(* The accept thread: poll and its events *)

\* Events of the sockets come before those of the readiness queue.
Poll ==
  /\ pc = "poll" /\ (edge # {} \/ readyQ # <<>>)
  /\ \E order \in Bijection(1..Cardinality(edge), edge) : batch' = order \o readyQ
  /\ edge' = {} /\ readyQ' = <<>> /\ pc' = "event"
  /\ UNCHANGED <<registered, backlog, cur, idx, list, next, backpressure, retry,
                 paused, acceptQ, serverQ, builder, works, bounds>>

BatchDone ==
  /\ pc = "event" /\ batch = <<>>
  /\ pc' = "poll"
  /\ UNCHANGED <<kernel, batch, cur, idx, list, next, backpressure, retry, paused,
                 acceptQ, serverQ, builder, works, bounds>>

SocketEvent ==
  /\ pc = "event" /\ batch # <<>> /\ Head(batch) \in Sockets
  /\ cur' = Head(batch) /\ batch' = Tail(batch) /\ pc' = "accept"
  /\ UNCHANGED <<kernel, idx, list, next, backpressure, retry, paused, acceptQ,
                 serverQ, builder, works, bounds>>

NotifyEvent ==
  /\ pc = "event" /\ batch # <<>> /\ Head(batch) = "NOTIFY"
  /\ BackpressureOff
  /\ batch' = Tail(batch)
  /\ UNCHANGED <<readyQ, backlog, pc, cur, idx, list, next, retry, paused, acceptQ,
                 serverQ, builder, works, bounds>>

\* process_timer
TimerEvent ==
  /\ pc = "event" /\ batch # <<>> /\ Head(batch) = "TIMER"
  /\ Register({s \in Sockets : retry[s] = "due"})
  /\ retry' = [s \in Sockets |-> IF retry[s] = "due" THEN "none" ELSE retry[s]]
  /\ batch' = Tail(batch)
  /\ UNCHANGED <<readyQ, backlog, pc, cur, idx, list, next, backpressure, paused,
                 acceptQ, serverQ, builder, works, bounds>>

CmdEvent ==
  /\ pc = "event" /\ batch # <<>> /\ Head(batch) = "CMD"
  /\ batch' = Tail(batch) /\ pc' = "cmd"
  /\ UNCHANGED <<kernel, cur, idx, list, next, backpressure, retry, paused, acceptQ,
                 serverQ, builder, works, bounds>>

\* process_cmd, one round of its loop.
CmdPause ==
  /\ pc = "cmd" /\ acceptQ # <<>> /\ Head(acceptQ).cmd = "Pause"
  /\ Deregister(Sockets) /\ paused' = TRUE
  /\ acceptQ' = Tail(acceptQ)
  /\ UNCHANGED <<readyQ, backlog, pc, batch, cur, idx, list, next, backpressure,
                 retry, serverQ, builder, works, bounds>>

CmdResume ==
  /\ pc = "cmd" /\ acceptQ # <<>> /\ Head(acceptQ).cmd = "Resume"
  /\ Register(Sockets) /\ paused' = FALSE
  /\ acceptQ' = Tail(acceptQ)
  /\ UNCHANGED <<readyQ, backlog, pc, batch, cur, idx, list, next, backpressure,
                 retry, serverQ, builder, works, bounds>>

CmdStop ==
  /\ pc = "cmd" /\ acceptQ # <<>> /\ Head(acceptQ).cmd = "Stop"
  /\ Deregister(Sockets)
  /\ pc' = "exited" /\ batch' = <<>> /\ list' = <<>>
  /\ acceptQ' = Tail(acceptQ)
  /\ UNCHANGED <<readyQ, backlog, cur, idx, next, backpressure, retry, paused,
                 serverQ, builder, works, bounds>>

CmdWorker ==
  /\ pc = "cmd" /\ acceptQ # <<>> /\ Head(acceptQ).cmd = "Worker"
  /\ BackpressureOff
  /\ list' = Append(list, Head(acceptQ).worker)
  /\ acceptQ' = Tail(acceptQ)
  /\ UNCHANGED <<readyQ, backlog, pc, batch, cur, idx, next, retry, paused, serverQ,
                 builder, works, bounds>>

CmdEmpty ==
  /\ pc = "cmd" /\ acceptQ = <<>>
  /\ pc' = "event"
  /\ UNCHANGED <<kernel, batch, cur, idx, list, next, backpressure, retry, paused,
                 acceptQ, serverQ, builder, works, bounds>>

-----------------------------------------------------------------------------
(* The accept thread: accept and accept_one *)

AcceptNone ==
  /\ pc = "accept" /\ backlog[cur] = 0
  /\ pc' = "event" /\ cur' = NoSocket
  /\ UNCHANGED <<kernel, batch, idx, list, next, backpressure, retry, paused,
                 acceptQ, serverQ, builder, works, bounds>>

AcceptConn ==
  /\ pc = "accept" /\ backlog[cur] > 0
  /\ backlog' = [backlog EXCEPT ![cur] = @ - 1]
  /\ pc' = "offer"
  /\ UNCHANGED <<registered, edge, readyQ, batch, cur, idx, list, next, backpressure,
                 retry, paused, acceptQ, serverQ, builder, works, bounds>>

\* connection_error: that connection is gone, the next may do.
AcceptConnError ==
  /\ pc = "accept" /\ backlog[cur] > 0 /\ errors < MaxErrors
  /\ backlog' = [backlog EXCEPT ![cur] = @ - 1]
  /\ errors' = errors + 1
  /\ UNCHANGED <<registered, edge, readyQ, thread, acceptQ, serverQ, builder, works,
                 ops, conns, flips>>


\* Any other error: the socket pauses for half a second.
AcceptError ==
  /\ pc = "accept" /\ errors < MaxErrors
  /\ Deregister({cur})
  /\ retry' = [retry EXCEPT ![cur] = "armed"]
  /\ errors' = errors + 1 /\ pc' = "event" /\ cur' = NoSocket
  /\ UNCHANGED <<readyQ, backlog, batch, idx, list, next, backpressure, paused,
                 acceptQ, serverQ, builder, works, ops, conns, flips>>

Chosen == list[next + 1]

\* Mutant: next is not brought back into the list.
M_SwapRemoveNoReset ==
  LET left == Len(list) - 1
      swapped == [i \in 1..left |-> IF i = next + 1 THEN list[left + 1] ELSE list[i]]
  IN  list' = swapped /\ UNCHANGED next

\* Vec::swap_remove(next) and what follows.
SwapRemove ==
  LET left == Len(list) - 1
      swapped == [i \in 1..left |-> IF i = next + 1 THEN list[left + 1] ELSE list[i]]
  IN  /\ list' = swapped
      /\ next' = IF left > 0 /\ left <= next THEN 0 ELSE next

SendOk ==
  /\ Open(Chosen)
  /\ next' = (next + 1) % Len(list) /\ pc' = "accept" /\ idx' = 0
  /\ UNCHANGED <<list, serverQ>>

\* The worker is gone: report it and take it off the list.
SendErr ==
  /\ ~ Open(Chosen)
  /\ serverQ' = Append(serverQ, [cmd |-> "WorkerFaulted", index |-> windex[Chosen]])
  /\ SwapRemove

\* One round of the loop over the workers.  available() and send() read two
\* things a worker changes in the other order, so one step loses nothing.
OfferAvailable ==
  /\ pc = "offer" /\ ~ backpressure /\ idx < Len(list) /\ Chosen \in avail
  /\ \/ SendOk /\ UNCHANGED <<backpressure, registered, edge>>
     \/ /\ SendErr
        /\ IF Len(list) = 1
             THEN pc' = "accept" /\ idx' = 0 /\ BackpressureOn
             ELSE idx' = idx + 1 /\ UNCHANGED <<pc, backpressure, registered, edge>>
  /\ UNCHANGED <<readyQ, backlog, batch, cur, retry, paused, acceptQ, builder, works,
                 bounds>>

OfferUnavailable ==
  /\ pc = "offer" /\ ~ backpressure /\ idx < Len(list) /\ Chosen \notin avail
  /\ idx' = idx + 1 /\ next' = (next + 1) % Len(list)
  /\ UNCHANGED <<kernel, pc, batch, cur, list, backpressure, retry, paused, acceptQ,
                 serverQ, builder, works, bounds>>

OfferExhausted ==
  /\ pc = "offer" /\ ~ backpressure /\ idx >= Len(list)
  /\ BackpressureOn /\ idx' = 0
  /\ UNCHANGED <<readyQ, backlog, pc, batch, cur, list, next, retry, paused,
                 acceptQ, serverQ, builder, works, bounds>>

\* Under backpressure the next worker gets the connection, available or not;
\* without workers the connection is dropped.
OfferAnyway ==
  /\ pc = "offer" /\ backpressure
  /\ \/ /\ list = <<>> /\ pc' = "accept"
        /\ UNCHANGED <<idx, list, next, serverQ>>
     \/ list # <<>> /\ SendOk
     \/ /\ list # <<>> /\ SendErr
        /\ pc' = IF Len(list) = 1 THEN "accept" ELSE pc
        /\ UNCHANGED idx
  /\ UNCHANGED <<kernel, batch, cur, backpressure, retry, paused, acceptQ,
                 builder, works, bounds>>

-----------------------------------------------------------------------------
(* The server's task: handle_cmd *)

ToAccept(c) ==
  /\ acceptQ' = Append(acceptQ, c)
  /\ readyQ' = SetReady("CMD")

HandlePauseResume ==
  /\ serverQ # <<>> /\ Head(serverQ).cmd \in {"Pause", "Resume"}
  /\ ToAccept(Head(serverQ))
  /\ serverQ' = Tail(serverQ)
  /\ UNCHANGED <<registered, edge, backlog, thread, builder, works, bounds>>

\* Signals set exit first.  Only a graceful stop reaches the workers, and it
\* completes when all of them have answered.
HandleStop ==
  /\ serverQ # <<>>
  /\ Head(serverQ).cmd \in {"StopGraceful", "StopForced", "Term", "Int"}
  /\ LET c == Head(serverQ).cmd
         exiting == exit \/ c \in {"Term", "Int"}
     IN  /\ exit' = exiting
         /\ IF workers # <<>> /\ c \in {"StopGraceful", "Term"}
              THEN /\ told' = told \union {w \in Range(workers) : Open(w)}
                   /\ waits' = Append(waits, [on |-> Range(workers), exit |-> exiting])
                   /\ UNCHANGED <<stopped, sysStop>>
              ELSE /\ stopped' = TRUE /\ sysStop' = (sysStop \/ exiting)
                   /\ UNCHANGED <<told, waits>>
  /\ ToAccept([cmd |-> "Stop"])
  /\ serverQ' = Tail(serverQ)
  /\ UNCHANGED <<registered, edge, backlog, thread, workers, wst, windex, avail,
                 bounds>>

\* The spawned future that awaits the answers of all workers.
StopCompletes ==
  /\ waits # <<>>
  /\ \A w \in Head(waits).on : wst[w] = "gone"
  /\ stopped' = TRUE /\ sysStop' = (sysStop \/ Head(waits).exit)
  /\ waits' = Tail(waits)
  /\ UNCHANGED <<kernel, thread, acceptQ, serverQ, workers, exit, works, bounds>>

\* The first index from the number of workers on that none of them has.
NewIndex(ws) ==
  CHOOSE i \in Len(ws)..(2 * Len(ws)) :
    /\ \A w \in Range(ws) : windex[w] # i
    /\ \A j \in Len(ws)..(i - 1) : \E w \in Range(ws) : windex[w] = j

HandleFaulted ==
  /\ serverQ # <<>> /\ Head(serverQ).cmd = "WorkerFaulted"
  /\ LET hit == {k \in DOMAIN workers : windex[workers[k]] = Head(serverQ).index}
     IN  IF hit = {}
           THEN UNCHANGED <<workers, wst, windex, acceptQ, readyQ>>
           ELSE LET k == CHOOSE k \in hit : \A j \in hit : k <= j
                    n == Len(workers)
                    left == [i \in 1..(n - 1) |->
                               IF i = k THEN workers[n] ELSE workers[i]]
                IN  \E new \in Workers :
                      /\ wst[new] = "unused"
                      /\ \A w \in Workers : wst[w] = "unused" => new <= w
                      /\ wst' = [wst EXCEPT ![new] = "running"]
                      /\ windex' = [windex EXCEPT ![new] = NewIndex(left)]
                      /\ workers' = Append(left, new)
                      /\ ToAccept([cmd |-> "Worker", worker |-> new])
  /\ serverQ' = Tail(serverQ)
  /\ UNCHANGED <<registered, edge, backlog, thread, exit, sysStop, waits, stopped,
                 told, avail, bounds>>

-----------------------------------------------------------------------------
(* The program, the network, the timer, and the workers *)

Ask(c) ==
  /\ ops < MaxOps /\ c \in Ops
  /\ ops' = ops + 1
  /\ serverQ' = Append(serverQ, [cmd |-> c])
  /\ UNCHANGED <<kernel, thread, acceptQ, builder, works, conns, errors, flips>>

Incoming(s) ==
  /\ conns < MaxConns /\ pc # "exited"
  /\ conns' = conns + 1
  /\ backlog' = [backlog EXCEPT ![s] = @ + 1]
  /\ edge' = IF s \in registered THEN edge \union {s} ELSE edge
  /\ UNCHANGED <<registered, readyQ, thread, acceptQ, serverQ, builder, works, ops,
                 errors, flips>>

\* delay_until(510 ms), past the 500 ms of the socket's timeout.
RetryTimer(s) ==
  /\ retry[s] = "armed"
  /\ retry' = [retry EXCEPT ![s] = "due"]
  /\ readyQ' = SetReady("TIMER")
  /\ UNCHANGED <<registered, edge, backlog, pc, batch, cur, idx, list, next,
                 backpressure, paused, acceptQ, serverQ, builder, works, bounds>>

\* WorkerAvailability::set(true)
WorkerAvailable(w) ==
  /\ wst[w] = "running" /\ w \notin avail
  /\ avail' = avail \union {w}
  /\ readyQ' = SetReady("NOTIFY")
  /\ UNCHANGED <<registered, edge, backlog, thread, acceptQ, serverQ, builder, wst,
                 windex, told, bounds>>

\* WorkerAvailability::set(false)
WorkerUnavailable(w) ==
  /\ wst[w] = "running" /\ w \in avail /\ flips < MaxFlips
  /\ avail' = avail \ {w} /\ flips' = flips + 1
  /\ UNCHANGED <<kernel, thread, acceptQ, serverQ, builder, wst, windex, told, ops,
                 conns, errors>>

\* A panic, or a failure to start: the flag stays as it is.
WorkerDies(w) ==
  /\ wst[w] = "running" /\ flips < MaxFlips
  /\ wst' = [wst EXCEPT ![w] = "gone"] /\ flips' = flips + 1
  /\ UNCHANGED <<kernel, thread, acceptQ, serverQ, builder, windex, told, avail, ops,
                 conns, errors>>

\* At once without connections, otherwise after a while.
WorkerStops(w) ==
  /\ w \in told /\ Open(w)
  /\ \/ wst[w] = "running" /\ wst' = [wst EXCEPT ![w] = "stopping"]
     \/ wst' = [wst EXCEPT ![w] = "gone"]
  /\ avail' = avail \ {w}
  /\ UNCHANGED <<kernel, thread, acceptQ, serverQ, builder, windex, told, bounds>>

-----------------------------------------------------------------------------
AcceptStep ==
  \/ Poll \/ BatchDone \/ SocketEvent \/ NotifyEvent \/ TimerEvent \/ CmdEvent
  \/ CmdPause \/ CmdResume \/ CmdStop \/ CmdWorker \/ CmdEmpty
  \/ AcceptNone \/ AcceptConn
  \/ OfferAvailable \/ OfferUnavailable \/ OfferExhausted \/ OfferAnyway

ServerStep == HandlePauseResume \/ HandleStop \/ HandleFaulted

Next ==
  \/ AcceptStep \/ AcceptConnError \/ AcceptError
  \/ ServerStep \/ StopCompletes
  \/ \E c \in AllOps : Ask(c)
  \/ \E s \in Sockets : Incoming(s) \/ RetryTimer(s)
  \/ \E w \in Workers : \/ WorkerAvailable(w) \/ WorkerUnavailable(w)
                        \/ WorkerDies(w) \/ WorkerStops(w)

Spec == Init /\ [][Next]_vars

(***************************************************************************)
(* Both threads go on as long as they have something to do, timers fire,   *)
(* a worker that is told to stop does (its graceful timeout), and one that *)
(* runs becomes available some time (ConnNotForgotten of Worker).          *)
(***************************************************************************)
Fairness ==
  /\ WF_vars(AcceptStep) /\ WF_vars(ServerStep) /\ WF_vars(StopCompletes)
  /\ \A s \in Sockets : WF_vars(RetryTimer(s))
  /\ \A w \in Workers : WF_vars(WorkerAvailable(w)) /\ WF_vars(WorkerStops(w))

FairSpec == Spec /\ Fairness

-----------------------------------------------------------------------------
(* Properties *)

\* Commands of the server's task, and of the accept thread.
ServerCommand == [cmd : AllOps] \cup [cmd : {"WorkerFaulted"}, index : Nat]
AcceptCommand == [cmd : {"Pause", "Resume", "Stop"}] \cup [cmd : {"Worker"}, worker : Workers]

TypeOK ==
  /\ registered \subseteq Sockets /\ edge \subseteq registered
  /\ backlog \in [Sockets -> 0..MaxConns]
  /\ readyQ \in Seq(Events) /\ IsInjective(readyQ) /\ batch \in Seq(Sockets \cup Events)
  /\ pc \in {"poll", "event", "cmd", "accept", "offer", "exited"}
  /\ cur \in Sockets \union {NoSocket} /\ idx \in Nat /\ idx <= Cardinality(Workers)
  /\ list \in Seq(Workers) /\ workers \in Seq(Workers) /\ next \in Nat
  /\ acceptQ \in Seq(AcceptCommand) /\ serverQ \in Seq(ServerCommand)
  /\ retry \in [Sockets -> {"none", "armed", "due"}]
  /\ wst \in [Workers -> {"unused", "running", "stopping", "gone"}]
  /\ windex \in [Workers -> Nat]
  /\ told \subseteq Workers /\ avail \subseteq Workers
  /\ backpressure \in BOOLEAN /\ exit \in BOOLEAN /\ sysStop \in BOOLEAN
  /\ stopped \in BOOLEAN /\ paused \in BOOLEAN
  /\ ops \in 0..MaxOps /\ conns \in 0..MaxConns
  /\ errors \in 0..MaxErrors /\ flips \in 0..MaxFlips

(***************************************************************************)
(* Accept::next is an index of the list of workers whenever it is used,    *)
(* whatever swap_remove and push did to the list before.                   *)
(***************************************************************************)
NextInRange == list # <<>> => next < Len(list)

(***************************************************************************)
(* The server's task replaces only workers that are gone: each report in   *)
(* its queue names by its index exactly one worker, and that one is gone.  *)
(***************************************************************************)
FaultsNameTheDead ==
  \A k \in DOMAIN serverQ :
    serverQ[k].cmd = "WorkerFaulted" =>
      \E w \in Range(workers) :
        /\ windex[w] = serverQ[k].index /\ wst[w] = "gone"
        /\ \A v \in Range(workers) : windex[v] = windex[w] => v = w

Reported == \E k \in DOMAIN serverQ : serverQ[k].cmd = "WorkerFaulted"
Replaced == \E k \in DOMAIN acceptQ : acceptQ[k].cmd = "Worker"

(***************************************************************************)
(* Backpressure ends: while a worker on the list is available, or a worker *)
(* was taken off the list, something is on its way that will lift it.      *)
(***************************************************************************)
BackpressureEnds ==
  (/\ backpressure /\ pc # "exited"
   /\ list = <<>> \/ \E w \in Range(list) : Open(w) /\ w \in avail)
    => "NOTIFY" \in Range(readyQ) \/ "NOTIFY" \in Range(batch) \/ Reported \/ Replaced

(***************************************************************************)
(* No socket is forgotten by the four mechanisms that deregister it: if    *)
(* there is neither backpressure nor a pause, each socket is registered or *)
(* waits for its retry.                                                    *)
(***************************************************************************)
NoSocketForgotten ==
  (~ backpressure /\ ~ paused /\ pc # "exited") =>
    \A s \in Sockets : s \in registered \/ retry[s] # "none"

(***************************************************************************)
(* With edge-triggered events no connection is left in the backlog of a    *)
(* registered socket: its event is pending, or being handled.              *)
(***************************************************************************)
EventNotLost ==
  \A s \in registered :
    backlog[s] > 0 => \/ s \in edge \/ s \in Range(batch)
                      \/ cur = s /\ pc \in {"accept", "offer"}

\* The two lists of workers, one in each thread, agree well enough for the indices
\* that travel between them.
WorkerListSound == NextInRange /\ FaultsNameTheDead

\* Whatever deregistered a socket, something is on its way that registers it, and
\* no edge-triggered event is lost meanwhile.
SocketsTended ==
  TypeOK /\ BackpressureEnds /\ NoSocketForgotten /\ EventNotLost

(***************************************************************************)
(* Every connection that arrives is accepted some time, through errors,    *)
(* backpressure and the death of workers, unless the server is paused or   *)
(* stopped.                                                                *)
(***************************************************************************)
BacklogDrained ==
  \A s \in Sockets : backlog[s] > 0 ~> (backlog[s] = 0 \/ paused \/ pc = "exited")

(***************************************************************************)
(* Server::stop completes and, with system_exit or after a signal, the     *)
(* system is told to stop.                                                 *)
(***************************************************************************)
StopEnds ==
  (\E k \in DOMAIN serverQ :
     serverQ[k].cmd \in {"StopGraceful", "StopForced", "Term", "Int"})
    ~> (stopped /\ (exit => sysStop) /\ pc = "exited")

\* The worker list and the sockets are sound.
ServerSound == WorkerListSound /\ SocketsTended
-----------------------------------------------------------------------------
(***************************************************************************)
(* ServerSound for any sockets, workers and bounds.                        *)
(***************************************************************************)
\* Where the accept thread is says what its cursor, counter and list are.
ThreadInv ==
  /\ pc = "poll" => batch = <<>>
  /\ pc \in {"accept", "offer"} => cur \in Sockets
  /\ pc # "offer" \/ backpressure => idx = 0
  /\ pc = "exited" => list = <<>>
  /\ list = <<>> /\ pc # "exited" => next = 0
  /\ NextInRange
  /\ \A s \in Sockets : backlog[s] <= conns

IsFault(k) == serverQ[k].cmd = "WorkerFaulted"
IsNew(k) == acceptQ[k].cmd = "Worker"

\* The worker a report is about: gone, off the list and not on its way to it.
FaultOf(k, w) ==
  /\ windex[w] = serverQ[k].index /\ wst[w] = "gone" /\ w \notin Range(list)
  /\ \A m \in DOMAIN acceptQ : IsNew(m) => acceptQ[m].worker # w

\* A worker the server's task knows is in at most one of the accept thread's list, the
\* commands on their way to it and the reports, and once.  An index belongs to one worker.
PlaceInv ==
  /\ \A i, j \in DOMAIN workers : windex[workers[i]] = windex[workers[j]] => i = j
  /\ \A w \in Range(workers) : wst[w] # "unused"
  /\ IsInjective(list) /\ Range(list) \subseteq Range(workers)
  /\ \A k \in DOMAIN acceptQ : IsNew(k) => acceptQ[k].worker \in Range(workers) \ Range(list)
  /\ \A k, m \in DOMAIN acceptQ :
       IsNew(k) /\ IsNew(m) /\ acceptQ[k].worker = acceptQ[m].worker => k = m
  /\ \A k \in DOMAIN serverQ : IsFault(k) => \E w \in Range(workers) : FaultOf(k, w)
  /\ \A k, m \in DOMAIN serverQ :
       IsFault(k) /\ IsFault(m) /\ serverQ[k].index = serverQ[m].index => k = m

\* What will lift the backpressure.
Lifting ==
  "NOTIFY" \in Range(readyQ) \/ "NOTIFY" \in Range(batch) \/ Reported \/ Replaced

\* The round of accept_one was at this position already: it is among the idx
\* positions before next.
Tried(i) ==
  (IF i > next THEN i - 1 - next ELSE i - 1 + Len(list) - next) >= Len(list) - idx

LiftInv ==
  /\ list = <<>> /\ pc # "exited" => Reported \/ Replaced
  /\ backpressure /\ pc # "exited" =>
       \A w \in Range(list) : Open(w) /\ w \in avail => Lifting
  /\ pc = "offer" /\ ~backpressure =>
       \A i \in DOMAIN list : Tried(i) /\ list[i] \in avail => Lifting

ServerInv == TypeOK /\ ThreadInv /\ PlaceInv /\ LiftInv /\ NoSocketForgotten /\ EventNotLost

\* A command is sent: a sequence and its last element.
LEMMA AppendAt ==
  ASSUME NEW S, NEW q \in Seq(S), NEW e \in S
  PROVE  /\ Append(q, e) \in Seq(S) /\ Len(q) \in Nat /\ Len(Append(q, e)) = Len(q) + 1
         /\ DOMAIN q = 1..Len(q) /\ DOMAIN Append(q, e) = 1..(Len(q) + 1)
         /\ \A i \in DOMAIN q : i \in DOMAIN Append(q, e) /\ Append(q, e)[i] = q[i]
         /\ Len(q) + 1 \in DOMAIN Append(q, e) /\ Append(q, e)[Len(q) + 1] = e
         /\ \A i \in DOMAIN Append(q, e) : i \in DOMAIN q \/ i = Len(q) + 1
         /\ Len(q) + 1 \notin DOMAIN q
OBVIOUS

\* A command is taken: the rest of a sequence.
LEMMA TailAt ==
  ASSUME NEW S, NEW q \in Seq(S), q # <<>>
  PROVE  /\ Tail(q) \in Seq(S) /\ Len(q) \in Nat \ {0} /\ Len(Tail(q)) = Len(q) - 1
         /\ Head(q) = q[1] /\ Head(q) \in S /\ 1 \in DOMAIN q
         /\ \A i \in DOMAIN Tail(q) : i + 1 \in DOMAIN q /\ i + 1 # 1 /\ Tail(q)[i] = q[i + 1]
         /\ \A i \in DOMAIN q : i # 1 => i - 1 \in DOMAIN Tail(q) /\ Tail(q)[i - 1] = q[i]
         /\ \A i, j \in DOMAIN Tail(q) : i + 1 = j + 1 => i = j
OBVIOUS

\* The elements of a sequence, and when it is empty.
LEMMA ElementAt ==
  ASSUME NEW S, NEW q \in Seq(S)
  PROVE  /\ Len(q) \in Nat /\ DOMAIN q = 1..Len(q) /\ \A i \in DOMAIN q : q[i] \in S
         /\ (q # <<>> => Len(q) # 0) /\ (q = <<>> => Len(q) = 0)
         /\ Range(q) \subseteq S
BY DEF Range

\* Membership in a queue that grows, shrinks or is joined to another.
LEMMA RangeAppend ==
  ASSUME NEW S, NEW q \in Seq(S), NEW e \in S, NEW x
  PROVE  x \in Range(Append(q, e)) <=> x \in Range(q) \/ x = e
<1>1. /\ \A i \in DOMAIN q : i \in DOMAIN Append(q, e) /\ Append(q, e)[i] = q[i]
      /\ Len(q) + 1 \in DOMAIN Append(q, e) /\ Append(q, e)[Len(q) + 1] = e
      /\ \A i \in DOMAIN Append(q, e) : i \in DOMAIN q \/ i = Len(q) + 1
  BY AppendAt, Zenon
<1>. QED BY <1>1, Zenon DEF Range

\* What is taken from the front was in it, and the rest stays.
LEMMA RangeTail ==
  ASSUME NEW S, NEW q \in Seq(S), q # <<>>, NEW x
  PROVE  x \in Range(q) <=> x \in Range(Tail(q)) \/ x = Head(q)
<1>1. /\ Head(q) = q[1] /\ 1 \in DOMAIN q
      /\ \A i \in DOMAIN Tail(q) : i + 1 \in DOMAIN q /\ Tail(q)[i] = q[i + 1]
      /\ \A i \in DOMAIN q : i # 1 => i - 1 \in DOMAIN Tail(q) /\ Tail(q)[i - 1] = q[i]
  BY TailAt, Zenon
<1>2. ASSUME x \in Range(q), x # Head(q) PROVE x \in Range(Tail(q))
  <2>1. PICK i \in DOMAIN q : x = q[i]
    BY <1>2, Zenon DEF Range
  <2>. QED BY <1>1, <1>2, <2>1, Zenon DEF Range
<1>3. ASSUME x \in Range(Tail(q)) \/ x = Head(q) PROVE x \in Range(q)
  BY <1>1, <1>3 DEF Range
<1>. QED BY <1>2, <1>3, Zenon

\* Nothing is lost where two are joined.
LEMMA RangeJoined ==
  ASSUME NEW S, NEW q \in Seq(S), NEW T, NEW r \in Seq(T), NEW x
  PROVE  /\ q \o r \in Seq(S \cup T)
         /\ x \in Range(q) \/ x \in Range(r) => x \in Range(q \o r)
<1>1. /\ Len(q) \in Nat /\ Len(r) \in Nat /\ Len(q \o r) = Len(q) + Len(r)
      /\ DOMAIN q = 1..Len(q) /\ DOMAIN r = 1..Len(r) /\ DOMAIN (q \o r) = 1..Len(q \o r)
      /\ q \o r \in Seq(S \cup T)
      /\ \A i \in 1..Len(q) : (q \o r)[i] = q[i]
      /\ \A i \in 1..Len(r) : (q \o r)[Len(q) + i] = r[i]
  OBVIOUS
<1>2. /\ \A i \in 1..Len(q) : i \in 1..Len(q \o r)
      /\ \A i \in 1..Len(r) : Len(q) + i \in 1..Len(q \o r)
  BY <1>1
<1>. QED BY <1>1, <1>2, Zenon DEF Range

(***************************************************************************)
(* What the steps need of finite sets: their cardinalities are numbers, a  *)
(* list without repetitions is no longer than there are workers, and n     *)
(* indices leave one of n..2n free.  It is a hypothesis of the lemmas that *)
(* use it, and lemma FiniteSetFacts proves it.                             *)
(***************************************************************************)
SetFacts ==
  /\ Cardinality(Workers) \in Nat
  /\ \A S \in SUBSET Sockets : Cardinality(S) \in Nat
  /\ \A q \in Seq(Workers) : IsInjective(q) => Len(q) <= Cardinality(Workers)
  /\ \A n \in Nat : \A f \in [1..n -> Nat] :
       \E i \in n..(2 * n) : /\ \A k \in 1..n : f[k] # i
                             /\ \A j \in n..(i - 1) : \E k \in 1..n : f[k] = j

\* The order in which Poll delivers the sockets' events has all of them.
LEMMA AllDelivered ==
  ASSUME SetFacts, NEW S \in SUBSET Sockets, NEW order \in Bijection(1..Cardinality(S), S)
  PROVE  order \in Seq(S) /\ \A x \in S : x \in Range(order)
<1>1. Cardinality(S) \in Nat
  BY Zenon DEF SetFacts
<1>2. /\ order \in [1..Cardinality(S) -> S]
      /\ \A x \in S : \E i \in 1..Cardinality(S) : order[i] = x
  BY Zenon DEF Bijection, Surjection
<1>3. order \in Seq(S) /\ DOMAIN order = 1..Cardinality(S)
  BY <1>1, <1>2
<1>. QED BY <1>2, <1>3, Zenon DEF Range

\* Vec::swap_remove takes one element out of a list without repetitions.
Removed(q, k) == [i \in 1..(Len(q) - 1) |-> IF i = k THEN q[Len(q)] ELSE q[i]]

\* The others stay, once each, in the shorter list.
LEMMA Swapped ==
  ASSUME NEW S, NEW q \in Seq(S), IsInjective(q), NEW k \in DOMAIN q
  PROVE  /\ Removed(q, k) \in Seq(S) /\ Len(Removed(q, k)) = Len(q) - 1
         /\ IsInjective(Removed(q, k)) /\ Range(Removed(q, k)) = Range(q) \ {q[k]}
<1>. DEFINE q2 == Removed(q, k)
<1>1. /\ Len(q) \in Nat \ {0} /\ DOMAIN q = 1..Len(q) /\ \A i \in 1..Len(q) : q[i] \in S
      /\ k \in 1..Len(q)
  OBVIOUS
<1>2. /\ q2 \in Seq(S) /\ Len(q2) = Len(q) - 1 /\ DOMAIN q2 = 1..(Len(q) - 1)
      /\ \A i \in 1..(Len(q) - 1) : q2[i] = IF i = k THEN q[Len(q)] ELSE q[i]
  BY <1>1 DEF Removed
<1>. HIDE DEF q2
<1>3. IsInjective(q2)
  BY <1>1, <1>2 DEF IsInjective
<1>4. ASSUME NEW i \in DOMAIN q2 PROVE q2[i] \in Range(q) \ {q[k]}
  BY <1>1, <1>2 DEF IsInjective, Range
<1>5. ASSUME NEW i \in DOMAIN q, q[i] # q[k] PROVE q[i] \in Range(q2)
  <2>1. CASE i = Len(q)
    BY <1>1, <1>2, <1>5, <2>1 DEF Range
  <2>2. CASE i # Len(q)
    BY <1>1, <1>2, <1>5, <2>2 DEF Range
  <2>. QED BY <2>1, <2>2, Zenon
<1>6. Range(q2) \subseteq Range(q) \ {q[k]}
  BY <1>4, Zenon DEF Range
<1>7. Range(q) \ {q[k]} \subseteq Range(q2)
  <2>1. \A x \in Range(q) : \E i \in DOMAIN q : x = q[i]
    BY Zenon DEF Range
  <2>. QED BY <1>5, <2>1, Zenon
<1>. QED BY <1>2, <1>3, <1>6, <1>7, Zenon DEF q2

\* The index given to a new worker is not in use.
LEMMA NewIndexFree ==
  ASSUME SetFacts, NEW q \in Seq(Workers), windex \in [Workers -> Nat]
  PROVE  NewIndex(q) \in Nat /\ \A w \in Range(q) : windex[w] # NewIndex(q)
<1>. DEFINE n == Len(q)
            used == [i \in 1..n |-> windex[q[i]]]
            Good(i) == /\ \A w \in Range(q) : windex[w] # i
                       /\ \A j \in n..(i - 1) : \E w \in Range(q) : windex[w] = j
<1>1. n \in Nat /\ DOMAIN q = 1..n /\ \A k \in 1..n : q[k] \in Workers
  OBVIOUS
<1>2. used \in [1..n -> Nat] /\ \A k \in 1..n : used[k] = windex[q[k]]
  BY <1>1, Zenon
<1>3. \A w \in Range(q) : \E k \in 1..n : w = q[k]
  BY <1>1, Zenon DEF Range
<1>4. \A k \in 1..n : q[k] \in Range(q)
  BY <1>1, Zenon DEF Range
<1>. HIDE DEF used
<1>5. PICK i \in n..(2 * n) : /\ \A k \in 1..n : used[k] # i
                              /\ \A j \in n..(i - 1) : \E k \in 1..n : used[k] = j
  BY <1>1, <1>2, Zenon DEF SetFacts
<1>6. Good(i)
  <2>1. ASSUME NEW w \in Range(q) PROVE windex[w] # i
    <3>1. PICK k \in 1..n : w = q[k]
      BY <1>3, Zenon
    <3>2. used[k] = windex[q[k]] /\ used[k] # i
      BY <1>2, <1>5, Zenon
    <3>. QED BY <3>1, <3>2, Zenon
  <2>2. ASSUME NEW j \in n..(i - 1) PROVE \E w \in Range(q) : windex[w] = j
    <3>1. PICK k \in 1..n : used[k] = j
      BY <1>5, Zenon
    <3>2. q[k] \in Range(q) /\ used[k] = windex[q[k]]
      BY <1>2, <1>4, Zenon
    <3>. QED BY <3>1, <3>2, Zenon
  <2>. QED BY <2>1, <2>2, Zenon
<1>7. NewIndex(q) = CHOOSE m \in n..(2 * n) : Good(m)
  BY Zenon DEF NewIndex
<1>. HIDE DEF Good
<1>8. NewIndex(q) \in n..(2 * n) /\ Good(NewIndex(q))
  BY <1>5, <1>6, <1>7, Zenon
<1>. QED BY <1>1, <1>8 DEF Good

\* Setting the readiness of an event.
LEMMA ReadySet ==
  ASSUME readyQ \in Seq(Events), IsInjective(readyQ), NEW e \in Events
  PROVE  /\ SetReady(e) \in Seq(Events) /\ IsInjective(SetReady(e))
         /\ \A x : x \in Range(SetReady(e)) <=> x \in Range(readyQ) \/ x = e
<1>1. CASE e \in Range(readyQ)
  BY <1>1, Zenon DEF SetReady
<1>2. CASE e \notin Range(readyQ)
  <2>1. SetReady(e) = Append(readyQ, e)
    BY <1>2, Zenon DEF SetReady
  <2>2. /\ Append(readyQ, e) \in Seq(Events)
        /\ \A x : x \in Range(Append(readyQ, e)) <=> x \in Range(readyQ) \/ x = e
    BY AppendAt, RangeAppend, Zenon
  <2>3. IsInjective(Append(readyQ, e))
    <3>1. \A i \in DOMAIN readyQ : readyQ[i] # e
      BY <1>2, ElementAt, Zenon DEF Range
    <3>2. /\ \A i \in DOMAIN readyQ : Append(readyQ, e)[i] = readyQ[i]
          /\ Append(readyQ, e)[Len(readyQ) + 1] = e
          /\ \A i \in DOMAIN Append(readyQ, e) : i \in DOMAIN readyQ \/ i = Len(readyQ) + 1
      BY AppendAt
    <3>. QED BY <3>1, <3>2, Zenon DEF IsInjective
  <2>. QED BY <2>1, <2>2, <2>3, Zenon
<1>. QED BY <1>1, <1>2, Zenon

\* The bounds are numbers.
LEMMA Bounds ==
  /\ MaxOps \in Nat /\ MaxConns \in Nat /\ MaxErrors \in Nat /\ MaxFlips \in Nat
BY ServerAssumption, Zenon

\* The worker the cursor is at.
LEMMA InRange ==
  ASSUME TypeOK, ThreadInv, idx < Len(list) \/ list # <<>>
  PROVE  /\ Len(list) \in Nat \ {0} /\ next \in 0..(Len(list) - 1) /\ list # <<>>
         /\ idx \in Nat /\ next + 1 \in DOMAIN list
<1>1. /\ Len(list) \in Nat /\ DOMAIN list = 1..Len(list)
      /\ (list # <<>> => Len(list) # 0) /\ (list = <<>> => Len(list) = 0)
  BY ElementAt, Zenon DEF TypeOK
<1>2. idx \in Nat /\ idx <= Cardinality(Workers) /\ next \in Nat
  BY Zenon DEF TypeOK
<1>3. list # <<>> => next < Len(list)
  BY Zenon DEF ThreadInv, NextInRange
<1>. QED BY <1>1, <1>2, <1>3, Bounds

\* Registering and deregistering sockets, with or without backpressure.
LEMMA Registration ==
  ASSUME TypeOK, NEW ss \in SUBSET Sockets
  PROVE  /\ Register(ss) \/ Deregister(ss) => registered' \subseteq Sockets /\ edge' \subseteq registered'
         /\ BackpressureOn => /\ registered' \subseteq Sockets /\ edge' \subseteq registered'
                              /\ backpressure' = TRUE
         /\ BackpressureOff => /\ registered' \subseteq Sockets /\ edge' \subseteq registered'
                               /\ backpressure' = FALSE
<1>1. registered \subseteq Sockets /\ edge \subseteq registered /\ backpressure \in BOOLEAN
  BY Zenon DEF TypeOK
<1>2. Register(ss) \/ Deregister(ss) => registered' \subseteq Sockets /\ edge' \subseteq registered'
  BY <1>1, Zenon DEF Register, Deregister
<1>3. BackpressureOn => /\ registered' \subseteq Sockets /\ edge' \subseteq registered'
                        /\ backpressure' = TRUE
  BY <1>1, Zenon DEF BackpressureOn, Deregister
<1>4. BackpressureOff => /\ registered' \subseteq Sockets /\ edge' \subseteq registered'
                         /\ backpressure' = FALSE
  BY <1>1, Zenon DEF BackpressureOff, Register
<1>. QED BY <1>2, <1>3, <1>4, Zenon

\* The next event, the next command of either queue.
LEMMA NextEvent ==
  ASSUME TypeOK, batch # <<>>
  PROVE  /\ Tail(batch) \in Seq(Sockets \cup Events) /\ Head(batch) \in Sockets \cup Events
         /\ \A x : x \in Range(batch) <=> x \in Range(Tail(batch)) \/ x = Head(batch)
BY TailAt, RangeTail, Zenon DEF TypeOK

\* The command in front is one of those the queue may hold.
LEMMA NextCommand ==
  ASSUME TypeOK
  PROVE  /\ acceptQ # <<>> => /\ Tail(acceptQ) \in Seq(AcceptCommand)
                              /\ Head(acceptQ).cmd = "Worker" => Head(acceptQ).worker \in Workers
         /\ serverQ # <<>> => /\ Tail(serverQ) \in Seq(ServerCommand)
                              /\ Head(serverQ) \in ServerCommand
<1>1. acceptQ # <<>> => Tail(acceptQ) \in Seq(AcceptCommand) /\ Head(acceptQ) \in AcceptCommand
  BY TailAt, Zenon DEF TypeOK
<1>2. serverQ # <<>> => Tail(serverQ) \in Seq(ServerCommand) /\ Head(serverQ) \in ServerCommand
  BY TailAt, Zenon DEF TypeOK
<1>3. \A c \in AcceptCommand : c.cmd = "Worker" => c.worker \in Workers
  BY Zenon DEF AcceptCommand
<1>. QED BY <1>1, <1>2, <1>3, Zenon

\* A command for the accept thread sets CMD.
LEMMA Told ==
  ASSUME TypeOK, NEW c \in AcceptCommand, ToAccept(c)
  PROVE  /\ acceptQ' \in Seq(AcceptCommand) /\ readyQ' \in Seq(Events) /\ IsInjective(readyQ')
         /\ \A x : x \in Range(readyQ) => x \in Range(readyQ')
<1>1. acceptQ' \in Seq(AcceptCommand)
  BY AppendAt, Zenon DEF ToAccept, TypeOK
<1>2. "CMD" \in Events
  BY Zenon DEF Events
<1>. QED BY <1>1, <1>2, ReadySet, Zenon DEF ToAccept, TypeOK

\* The list once its chosen worker was found gone, and the report.
LEMMA SendErrors ==
  ASSUME TypeOK, ThreadInv, IsInjective(list), list # <<>>, SendErr
  PROVE  /\ list' \in Seq(Workers) /\ Len(list') = Len(list) - 1 /\ IsInjective(list')
         /\ next + 1 \in DOMAIN list /\ Chosen \in Workers
         /\ Range(list') = Range(list) \ {Chosen}
         /\ next' \in Nat /\ (list' # <<>> => next' < Len(list')) /\ (list' = <<>> => next' = 0)
         /\ serverQ' \in Seq(ServerCommand)
         /\ serverQ' = Append(serverQ, [cmd |-> "WorkerFaulted", index |-> windex[Chosen]])
<1>0. list \in Seq(Workers)
  BY Zenon DEF TypeOK
<1>1. /\ next \in Nat /\ Len(list) \in Nat \ {0} /\ next < Len(list)
      /\ list \in Seq(Workers) /\ DOMAIN list = 1..Len(list)
  BY <1>0, InRange
<1>2. next + 1 \in DOMAIN list /\ Chosen \in Workers /\ Chosen = list[next + 1]
  BY <1>1, ElementAt DEF Chosen
<1>3. /\ list' = Removed(list, next + 1)
      /\ next' = IF Len(list) - 1 > 0 /\ Len(list) - 1 <= next THEN 0 ELSE next
  <2>1. (Len(list) - 1) + 1 = Len(list)
    BY <1>1
  <2>. QED BY <2>1, Zenon DEF SendErr, SwapRemove, Removed
<1>4. /\ list' \in Seq(Workers) /\ Len(list') = Len(list) - 1 /\ IsInjective(list')
      /\ Range(list') = Range(list) \ {Chosen}
  BY <1>1, <1>2, <1>3, Swapped, Zenon
<1>5. (list' # <<>> => Len(list') # 0) /\ (list' = <<>> => Len(list') = 0)
  BY <1>4, ElementAt, Zenon
<1>6. next' \in Nat /\ (list' # <<>> => next' < Len(list')) /\ (list' = <<>> => next' = 0)
  BY <1>1, <1>3, <1>4, <1>5
<1>7. [cmd |-> "WorkerFaulted", index |-> windex[Chosen]] \in ServerCommand
  BY <1>2, Zenon DEF TypeOK, ServerCommand
<1>. QED BY <1>2, <1>4, <1>6, <1>7, AppendAt DEF SendErr, TypeOK

\* The server's task replaces a worker by one whose index is free.
LEMMA Replacement ==
  ASSUME SetFacts, TypeOK, PlaceInv, HandleFaulted, NEW h \in DOMAIN workers,
         windex[workers[h]] = Head(serverQ).index
  PROVE  \E new \in Workers, i \in Nat :
           /\ wst[new] = "unused" /\ wst' = [wst EXCEPT ![new] = "running"]
           /\ windex' = [windex EXCEPT ![new] = i]
           /\ workers' \in Seq(Workers)
           /\ Range(workers') = (Range(workers) \ {workers[h]}) \cup {new}
           /\ \A k, m \in DOMAIN workers' :
                windex'[workers'[k]] = windex'[workers'[m]] => k = m
           /\ ToAccept([cmd |-> "Worker", worker |-> new])
<1>. DEFINE hit == {k \in DOMAIN workers : windex[workers[k]] = Head(serverQ).index}
            n == Len(workers)
            Left(k) == [i \in 1..(n - 1) |-> IF i = k THEN workers[n] ELSE workers[i]]
            left == Left(h)
<1>0. workers \in Seq(Workers) /\ Len(workers) \in Nat /\ DOMAIN workers = 1..Len(workers)
  BY ElementAt, Zenon DEF TypeOK
<1>1. workers \in Seq(Workers) /\ h \in Nat /\ DOMAIN workers \subseteq Nat
  BY <1>0
<1>2. hit = {h}
  BY Zenon DEF PlaceInv
<1>3. (CHOOSE k \in hit : \A j \in hit : k <= j) = h
  <2>1. h \in hit /\ \A j \in hit : h <= j
    BY <1>1, <1>2
  <2>. QED BY <1>2, <2>1, Zenon
<1>4. hit # {}
  BY <1>2, Zenon
<1>5. PICK new \in Workers :
        /\ wst[new] = "unused" /\ wst' = [wst EXCEPT ![new] = "running"]
        /\ windex' = [windex EXCEPT ![new] = NewIndex(left)]
        /\ workers' = Append(left, new)
        /\ ToAccept([cmd |-> "Worker", worker |-> new])
  BY <1>3, <1>4, Zenon DEF HandleFaulted
<1>6. IsInjective(workers)
  BY Zenon DEF PlaceInv, IsInjective
<1>l. left = Removed(workers, h)
  BY Zenon DEF Removed
<1>. HIDE DEF left
<1>7. /\ left \in Seq(Workers) /\ IsInjective(left)
      /\ Range(left) = Range(workers) \ {workers[h]}
  BY <1>1, <1>6, <1>l, Swapped, Zenon
<1>8. NewIndex(left) \in Nat /\ \A w \in Range(left) : windex[w] # NewIndex(left)
  BY <1>7, NewIndexFree, Zenon DEF TypeOK
<1>9. new \notin Range(workers)
  BY <1>5, Zenon DEF PlaceInv
<1>10. /\ workers' \in Seq(Workers)
       /\ \A k \in DOMAIN left : k \in DOMAIN workers' /\ workers'[k] = left[k]
       /\ Len(left) + 1 \in DOMAIN workers' /\ workers'[Len(left) + 1] = new
       /\ \A k \in DOMAIN workers' : k \in DOMAIN left \/ k = Len(left) + 1
  <2>. DEFINE q == Append(left, new)
  <2>1. /\ q \in Seq(Workers)
        /\ \A k \in DOMAIN left : k \in DOMAIN q /\ q[k] = left[k]
        /\ Len(left) + 1 \in DOMAIN q /\ q[Len(left) + 1] = new
        /\ \A k \in DOMAIN q : k \in DOMAIN left \/ k = Len(left) + 1
    BY <1>7, AppendAt, Zenon
  <2>2. workers' = q
    BY <1>5, Zenon
  <2>. HIDE DEF q
  <2>. QED BY <2>1, <2>2, Zenon
<1>11. Range(workers') = Range(left) \cup {new}
  <2>1. Range(workers') \subseteq Range(left) \cup {new}
    BY <1>10, Zenon DEF Range
  <2>2. Range(left) \cup {new} \subseteq Range(workers')
    BY <1>10 DEF Range
  <2>. QED BY <2>1, <2>2, Zenon
<1>12. \A k \in DOMAIN left : left[k] \in Range(left)
  BY Zenon DEF Range
<1>13. \A w \in Range(left) : w \in Workers /\ w # new /\ windex'[w] = windex[w]
  <2>1. Range(workers) \subseteq Workers
    BY <1>1, ElementAt, Zenon DEF Range
  <2>. QED BY <1>5, <1>7, <1>9, <2>1, Zenon DEF TypeOK
<1>14. windex'[new] = NewIndex(left)
  BY <1>5, Zenon DEF TypeOK
<1>15. \A k, m \in DOMAIN left : windex[left[k]] = windex[left[m]] => k = m
  <2>1. ASSUME NEW w \in Range(workers), NEW v \in Range(workers), windex[w] = windex[v]
        PROVE  w = v
    BY <2>1 DEF PlaceInv, Range
  <2>. QED BY <1>7, <1>12, <2>1, Zenon DEF IsInjective
<1>16. \A k, m \in DOMAIN workers' : windex'[workers'[k]] = windex'[workers'[m]] => k = m
  <2>1. ASSUME NEW k \in DOMAIN left PROVE windex'[workers'[k]] = windex[left[k]]
                                           /\ windex[left[k]] # windex'[new]
    BY <1>8, <1>10, <1>12, <1>13, <1>14, Zenon
  <2>2. ASSUME NEW k \in DOMAIN workers', NEW m \in DOMAIN workers',
               windex'[workers'[k]] = windex'[workers'[m]]
        PROVE  k = m
    <3>1. CASE k \in DOMAIN left /\ m \in DOMAIN left
      BY <1>15, <2>1, <2>2, <3>1, Zenon
    <3>2. CASE k = Len(left) + 1 /\ m = Len(left) + 1
      BY <3>2, Zenon
    <3>3. CASE k \in DOMAIN left /\ m = Len(left) + 1
      BY <1>10, <2>1, <2>2, <3>3, Zenon
    <3>4. CASE k = Len(left) + 1 /\ m \in DOMAIN left
      BY <1>10, <2>1, <2>2, <3>4, Zenon
    <3>. QED BY <1>10, <3>1, <3>2, <3>3, <3>4, Zenon
  <2>. QED BY <2>2, Zenon
<1>. QED BY <1>5, <1>7, <1>8, <1>10, <1>11, <1>16, Zenon

\* Every step keeps the types.
LEMMA TypeStep ==
  ASSUME SetFacts, TypeOK, ThreadInv, PlaceInv, [Next]_vars PROVE TypeOK'
<1>. USE DEF kernel, thread, builder, works, bounds
<1>0. /\ backlog \in [Sockets -> 0..MaxConns] /\ ops \in 0..MaxOps /\ conns \in 0..MaxConns
      /\ errors \in 0..MaxErrors /\ flips \in 0..MaxFlips
  BY Zenon DEF TypeOK
<1>1. CASE Poll
  <2>1. PICK order \in Bijection(1..Cardinality(edge), edge) : batch' = order \o readyQ
    BY <1>1, Zenon DEF Poll
  <2>2. edge \in SUBSET Sockets
    BY Zenon DEF TypeOK
  <2>3. order \in Seq(edge)
    BY <2>1, <2>2, AllDelivered, Zenon
  <2>4. order \in Seq(Sockets)
    BY <2>3 DEF TypeOK
  <2>5. batch' \in Seq(Sockets \cup Events)
    BY <2>1, <2>4, RangeJoined, Zenon DEF TypeOK
  <2>6. readyQ' \in Seq(Events) /\ IsInjective(readyQ')
    BY <1>1 DEF Poll, IsInjective
  <2>. QED BY <1>1, <2>5, <2>6, Zenon DEF Poll, TypeOK
<1>2. CASE BatchDone
  BY <1>2, Zenon DEF BatchDone, TypeOK
<1>3. CASE SocketEvent
  BY <1>3, NextEvent, Zenon DEF SocketEvent, TypeOK
<1>4. CASE NotifyEvent
  BY <1>4, NextEvent, Registration, Zenon DEF NotifyEvent, TypeOK
<1>5. CASE TimerEvent
  <2>1. {s \in Sockets : retry[s] = "due"} \in SUBSET Sockets
    OBVIOUS
  <2>2. registered' \subseteq Sockets /\ edge' \subseteq registered'
    BY <1>5, <2>1, Registration, Zenon DEF TimerEvent
  <2>3. retry' \in [Sockets -> {"none", "armed", "due"}]
    BY <1>5, Zenon DEF TimerEvent, TypeOK
  <2>. QED BY <1>5, <2>2, <2>3, NextEvent, Zenon DEF TimerEvent, TypeOK
<1>6. CASE CmdEvent
  BY <1>6, NextEvent, Zenon DEF CmdEvent, TypeOK
<1>7. CASE CmdPause
  BY <1>7, NextCommand, Registration, Zenon DEF CmdPause, TypeOK
<1>8. CASE CmdResume
  BY <1>8, NextCommand, Registration, Zenon DEF CmdResume, TypeOK
<1>9. CASE CmdStop
  <2>1. batch' \in Seq(Sockets \cup Events) /\ list' \in Seq(Workers)
    BY <1>9 DEF CmdStop
  <2>. QED BY <1>9, <2>1, NextCommand, Registration, Zenon DEF CmdStop, TypeOK
<1>10. CASE CmdWorker
  <2>1. list' \in Seq(Workers)
    BY <1>10, NextCommand, AppendAt, Zenon DEF CmdWorker, TypeOK
  <2>. QED BY <1>10, <2>1, NextCommand, Registration, Zenon DEF CmdWorker, TypeOK
<1>11. CASE CmdEmpty
  BY <1>11, Zenon DEF CmdEmpty, TypeOK
<1>12. CASE AcceptNone
  BY <1>12, Zenon DEF AcceptNone, TypeOK
<1>13. CASE AcceptConn \/ AcceptConnError
  <2>1. cur \in Sockets /\ backlog[cur] \in 0..MaxConns /\ backlog[cur] > 0
    BY <1>13, Zenon DEF AcceptConn, AcceptConnError, ThreadInv, TypeOK
  <2>2. backlog' \in [Sockets -> 0..MaxConns]
    <3>1. backlog[cur] - 1 \in 0..MaxConns
      BY <2>1, Bounds
    <3>2. backlog' = [backlog EXCEPT ![cur] = backlog[cur] - 1]
      BY <1>13, Zenon DEF AcceptConn, AcceptConnError
    <3>. QED BY <1>0, <3>1, <3>2, Zenon
  <2>3. errors' \in 0..MaxErrors
    BY <1>0, <1>13, Bounds DEF AcceptConn, AcceptConnError
  <2>. QED BY <1>13, <2>2, <2>3, Zenon DEF AcceptConn, AcceptConnError, TypeOK
<1>14. CASE AcceptError
  <2>1. cur \in Sockets
    BY <1>14, Zenon DEF AcceptError, ThreadInv
  <2>2. errors' \in 0..MaxErrors
    BY <1>0, <1>14, Bounds DEF AcceptError
  <2>3. registered' \subseteq Sockets /\ edge' \subseteq registered'
    BY <1>14, <2>1, Registration, Zenon DEF AcceptError
  <2>4. retry' \in [Sockets -> {"none", "armed", "due"}]
    BY <1>14, Zenon DEF AcceptError, TypeOK
  <2>. QED BY <1>14, <2>2, <2>3, <2>4, Zenon DEF AcceptError, TypeOK
<1>15. CASE OfferAvailable
  <2>1. Len(list) \in Nat /\ idx \in Nat /\ idx < Len(list) /\ next \in Nat /\ list # <<>>
    BY <1>15 DEF OfferAvailable, TypeOK
  <2>2. Len(list) <= Cardinality(Workers) /\ Cardinality(Workers) \in Nat
    BY Zenon DEF TypeOK, PlaceInv, SetFacts
  <2>3. idx' \in Nat /\ idx' <= Cardinality(Workers)
    BY <1>15, <2>1, <2>2 DEF OfferAvailable, SendOk
  <2>4. CASE SendOk
    <3>1. next' \in Nat
      BY <2>1, <2>4 DEF SendOk
    <3>. QED BY <1>15, <2>3, <2>4, <3>1, Zenon DEF OfferAvailable, SendOk, SendErr, TypeOK
  <2>5. CASE SendErr
    <3>1. list' \in Seq(Workers) /\ next' \in Nat /\ serverQ' \in Seq(ServerCommand)
      BY <2>1, <2>5, SendErrors, Zenon DEF PlaceInv
    <3>2. ~SendOk
      BY <2>5, Zenon DEF SendOk, SendErr
    <3>3. /\ registered' \subseteq Sockets /\ edge' \subseteq registered'
          /\ backpressure' \in BOOLEAN /\ pc' \in {"accept", "offer"}
      BY <1>15, <2>5, <3>2, Registration, Zenon DEF OfferAvailable, TypeOK
    <3>. QED BY <1>15, <2>3, <3>1, <3>3, Zenon DEF OfferAvailable, TypeOK
  <2>. QED BY <1>15, <2>4, <2>5, Zenon DEF OfferAvailable
<1>16. CASE OfferUnavailable
  <2>1. Len(list) \in Nat /\ idx \in Nat /\ idx < Len(list) /\ next \in Nat
    BY <1>16 DEF OfferUnavailable, TypeOK
  <2>2. Len(list) <= Cardinality(Workers) /\ Cardinality(Workers) \in Nat
    BY Zenon DEF TypeOK, PlaceInv, SetFacts
  <2>3. idx' \in Nat /\ idx' <= Cardinality(Workers) /\ next' \in Nat
    BY <1>16, <2>1, <2>2 DEF OfferUnavailable
  <2>. QED BY <1>16, <2>3, Zenon DEF OfferUnavailable, TypeOK
<1>17. CASE OfferExhausted
  <2>1. 0 \in Nat /\ 0 <= Cardinality(Workers)
    BY DEF SetFacts
  <2>. QED BY <1>17, <2>1, Registration, Zenon DEF OfferExhausted, TypeOK
<1>18. CASE OfferAnyway
  <2>1. 0 \in Nat /\ 0 <= Cardinality(Workers)
    BY DEF SetFacts
  <2>2. CASE list = <<>> /\ pc' = "accept" /\ UNCHANGED <<idx, list, next, serverQ>>
    BY <1>18, <2>2, Zenon DEF OfferAnyway, TypeOK
  <2>3. CASE list # <<>> /\ SendOk
    <3>1. next' \in Nat
      BY <2>3 DEF SendOk, TypeOK
    <3>2. idx' \in Nat /\ idx' <= Cardinality(Workers)
      BY <2>1, <2>3, Zenon DEF SendOk
    <3>. QED BY <1>18, <2>3, <3>1, <3>2, Zenon DEF OfferAnyway, SendOk, TypeOK
  <2>4. CASE list # <<>> /\ SendErr /\ (pc' = IF Len(list) = 1 THEN "accept" ELSE pc) /\ UNCHANGED idx
    <3>1. list' \in Seq(Workers) /\ next' \in Nat /\ serverQ' \in Seq(ServerCommand)
      BY <2>4, SendErrors, Zenon DEF PlaceInv
    <3>. QED BY <1>18, <2>4, <3>1, Zenon DEF OfferAnyway, TypeOK
  <2>. QED BY <1>18, <2>2, <2>3, <2>4, Zenon DEF OfferAnyway
<1>19. CASE HandlePauseResume
  <2>1. Head(serverQ) \in AcceptCommand
    BY <1>19, NextCommand, Zenon DEF HandlePauseResume, ServerCommand, AcceptCommand
  <2>. QED BY <1>19, <2>1, NextCommand, Told, Zenon DEF HandlePauseResume, TypeOK
<1>20. CASE HandleStop
  <2>1. [cmd |-> "Stop"] \in AcceptCommand
    BY Zenon DEF AcceptCommand
  <2>2. Range(workers) \subseteq Workers
    BY ElementAt, Zenon DEF TypeOK
  <2>3. told' \subseteq Workers
    BY <1>20, <2>2, Zenon DEF HandleStop, TypeOK
  <2>4. exit' \in BOOLEAN /\ stopped' \in BOOLEAN /\ sysStop' \in BOOLEAN
    BY <1>20, Zenon DEF HandleStop, TypeOK
  <2>. QED BY <1>20, <2>1, <2>3, <2>4, NextCommand, Told, Zenon DEF HandleStop, TypeOK
<1>21. CASE HandleFaulted
  <2>. DEFINE hit == {k \in DOMAIN workers : windex[workers[k]] = Head(serverQ).index}
  <2>1. CASE hit = {}
    <3>1. UNCHANGED <<workers, wst, windex, acceptQ, readyQ>>
      BY <1>21, <2>1, Zenon DEF HandleFaulted
    <3>2. /\ serverQ # <<>> /\ serverQ' = Tail(serverQ)
          /\ UNCHANGED <<registered, edge, backlog, thread, exit, sysStop, waits, stopped,
                         told, avail, bounds>>
      BY <1>21, Zenon DEF HandleFaulted
    <3>. QED BY <3>1, <3>2, NextCommand, Zenon DEF TypeOK
  <2>2. CASE hit # {}
    <3>1. PICK h \in DOMAIN workers : windex[workers[h]] = Head(serverQ).index
      BY <2>2, Zenon
    <3>2. PICK new \in Workers, i \in Nat :
            /\ wst' = [wst EXCEPT ![new] = "running"] /\ windex' = [windex EXCEPT ![new] = i]
            /\ workers' \in Seq(Workers) /\ ToAccept([cmd |-> "Worker", worker |-> new])
      BY <1>21, <3>1, Replacement, Zenon
    <3>3. [cmd |-> "Worker", worker |-> new] \in AcceptCommand
      BY Zenon DEF AcceptCommand
    <3>4. acceptQ' \in Seq(AcceptCommand) /\ readyQ' \in Seq(Events) /\ IsInjective(readyQ')
      BY <3>2, <3>3, Told, Zenon
    <3>5. /\ wst' \in [Workers -> {"unused", "running", "stopping", "gone"}]
          /\ windex' \in [Workers -> Nat]
      BY <3>2, Zenon DEF TypeOK
    <3>. QED BY <1>21, <3>2, <3>4, <3>5, NextCommand, Zenon DEF HandleFaulted, TypeOK
  <2>. QED BY <2>1, <2>2, Zenon
<1>22. CASE StopCompletes
  BY <1>22, Zenon DEF StopCompletes, TypeOK
<1>23. ASSUME NEW c \in AllOps, Ask(c) PROVE TypeOK'
  <2>1. [cmd |-> c] \in ServerCommand
    BY Zenon DEF ServerCommand
  <2>2. serverQ' \in Seq(ServerCommand)
    BY <1>23, <2>1, AppendAt, Zenon DEF Ask, TypeOK
  <2>3. ops' \in 0..MaxOps
    BY <1>23, ServerAssumption DEF Ask, TypeOK
  <2>. QED BY <1>23, <2>2, <2>3, Zenon DEF Ask, TypeOK
<1>24. ASSUME NEW s \in Sockets, Incoming(s) PROVE TypeOK'
  <2>1. conns' \in 0..MaxConns
    BY <1>0, <1>24, Bounds DEF Incoming
  <2>2. backlog' \in [Sockets -> 0..MaxConns]
    <3>1. backlog[s] + 1 \in 0..MaxConns
      <4>1. backlog[s] \in 0..MaxConns /\ backlog[s] <= conns /\ conns < MaxConns
        BY <1>0, <1>24, Zenon DEF Incoming, ThreadInv
      <4>. QED BY <1>0, <4>1, Bounds
    <3>2. backlog' = [backlog EXCEPT ![s] = backlog[s] + 1]
      BY <1>24, Zenon DEF Incoming
    <3>. QED BY <1>0, <3>1, <3>2, Zenon
  <2>3. edge' \subseteq registered'
    BY <1>24, Zenon DEF Incoming, TypeOK
  <2>. QED BY <1>24, <2>1, <2>2, <2>3, Zenon DEF Incoming, TypeOK
<1>25. ASSUME NEW s \in Sockets, RetryTimer(s) PROVE TypeOK'
  <2>1. readyQ' \in Seq(Events) /\ IsInjective(readyQ')
    BY <1>25, ReadySet, Zenon DEF RetryTimer, TypeOK, Events
  <2>2. retry' \in [Sockets -> {"none", "armed", "due"}]
    BY <1>25, Zenon DEF RetryTimer, TypeOK
  <2>. QED BY <1>25, <2>1, <2>2, Zenon DEF RetryTimer, TypeOK
<1>26. ASSUME NEW w \in Workers, WorkerAvailable(w) PROVE TypeOK'
  <2>1. readyQ' \in Seq(Events) /\ IsInjective(readyQ')
    BY <1>26, ReadySet, Zenon DEF WorkerAvailable, TypeOK, Events
  <2>. QED BY <1>26, <2>1, Zenon DEF WorkerAvailable, TypeOK
<1>27. ASSUME NEW w \in Workers, WorkerUnavailable(w) \/ WorkerDies(w) PROVE TypeOK'
  <2>1. flips' \in 0..MaxFlips
    BY <1>0, <1>27, Bounds DEF WorkerUnavailable, WorkerDies
  <2>2. wst' \in [Workers -> {"unused", "running", "stopping", "gone"}]
    BY <1>27, Zenon DEF WorkerUnavailable, WorkerDies, TypeOK
  <2>. QED BY <1>27, <2>1, <2>2, Zenon DEF WorkerUnavailable, WorkerDies, TypeOK
<1>28. ASSUME NEW w \in Workers, WorkerStops(w) PROVE TypeOK'
  <2>1. wst' \in [Workers -> {"unused", "running", "stopping", "gone"}]
    BY <1>28, Zenon DEF WorkerStops, TypeOK
  <2>. QED BY <1>28, <2>1, Zenon DEF WorkerStops, TypeOK
<1>29. CASE UNCHANGED vars
  BY <1>29, Zenon DEF vars, TypeOK
<1>. QED
  BY <1>1, <1>2, <1>3, <1>4, <1>5, <1>6, <1>7, <1>8, <1>9, <1>10, <1>11, <1>12, <1>13,
       <1>14, <1>15, <1>16, <1>17, <1>18, <1>19, <1>20, <1>21, <1>22, <1>23, <1>24, <1>25,
       <1>26, <1>27, <1>28, <1>29, Zenon DEF Next, AcceptStep, ServerStep

\* The cursor goes round.
LEMMA Cycle ==
  ASSUME NEW n \in Nat \ {0}, NEW i \in 0..(n - 1)
  PROVE  (i + 1) % n = IF i + 1 = n THEN 0 ELSE i + 1
OBVIOUS

\* A worker takes the connection: list and cursor stay in step.
LEMMA SendsOk ==
  ASSUME TypeOK, ThreadInv, list # <<>>, SendOk
  PROVE  next' \in Nat /\ next' < Len(list) /\ list' = list /\ pc' = "accept" /\ idx' = 0
<1>1. Len(list) \in Nat \ {0} /\ next \in 0..(Len(list) - 1)
  BY InRange, Zenon
<1>2. next' = IF next + 1 = Len(list) THEN 0 ELSE next + 1
  BY <1>1, Cycle, Zenon DEF SendOk
<1>. QED BY <1>1, <1>2 DEF SendOk

\* Steps that leave the accept thread alone keep its invariant.
LEMMA ThreadIdle ==
  ASSUME ThreadInv, UNCHANGED <<pc, batch, cur, idx, list, next, backpressure, backlog, conns>>
  PROVE  ThreadInv'
BY Zenon DEF ThreadInv, NextInRange

\* Every step keeps the accept thread's variables together.
LEMMA ThreadStep ==
  ASSUME TypeOK, ThreadInv, PlaceInv, [Next]_vars PROVE ThreadInv'
<1>. USE DEF kernel, thread, builder, works, bounds
<1>1. CASE Poll
  BY <1>1, Zenon DEF ThreadInv, NextInRange, Poll
<1>2. CASE BatchDone
  BY <1>2, Zenon DEF ThreadInv, NextInRange, BatchDone
<1>3. CASE SocketEvent
  BY <1>3, Zenon DEF ThreadInv, NextInRange, SocketEvent
<1>4. CASE NotifyEvent
  BY <1>4, Zenon DEF ThreadInv, NextInRange, NotifyEvent
<1>5. CASE TimerEvent
  BY <1>5, Zenon DEF ThreadInv, NextInRange, TimerEvent
<1>6. CASE CmdEvent
  BY <1>6, Zenon DEF ThreadInv, NextInRange, CmdEvent
<1>7. CASE CmdPause
  BY <1>7, Zenon DEF ThreadInv, NextInRange, CmdPause
<1>8. CASE CmdResume
  BY <1>8, Zenon DEF ThreadInv, NextInRange, CmdResume
<1>9. CASE CmdStop
  BY <1>9, Zenon DEF ThreadInv, NextInRange, CmdStop
<1>10. CASE CmdWorker
  <2>1. /\ list' \in Seq(Workers) /\ Len(list') = Len(list) + 1 /\ Len(list) \in Nat
        /\ list' # <<>> /\ (list = <<>> => Len(list) = 0)
    <3>1. list' = Append(list, Head(acceptQ).worker) /\ Head(acceptQ).worker \in Workers
      BY <1>10, NextCommand, Zenon DEF CmdWorker
    <3>2. list \in Seq(Workers)
      BY Zenon DEF TypeOK
    <3>. QED BY <3>1, <3>2
  <2>2. next \in Nat /\ pc = "cmd" /\ next' = next /\ pc' = pc
    BY <1>10, Zenon DEF CmdWorker, TypeOK
  <2>3. next' < Len(list')
    <3>1. (list # <<>> => next < Len(list)) /\ (list = <<>> => next = 0)
      BY <2>2, Zenon DEF ThreadInv, NextInRange
    <3>. QED BY <2>1, <2>2, <3>1
  <2>. QED BY <1>10, <2>1, <2>3, Zenon DEF ThreadInv, NextInRange, CmdWorker
<1>11. CASE CmdEmpty
  BY <1>11, Zenon DEF ThreadInv, NextInRange, CmdEmpty
<1>12. CASE AcceptNone
  BY <1>12, Zenon DEF ThreadInv, NextInRange, AcceptNone
<1>13. CASE AcceptConn \/ AcceptConnError
  <2>0. cur \in Sockets /\ conns \in Nat /\ conns' = conns /\ \A s \in Sockets : backlog[s] \in Nat
    BY <1>13, Bounds DEF ThreadInv, AcceptConn, AcceptConnError, TypeOK
  <2>a. \A s \in Sockets : backlog'[s] = backlog[s] \/ backlog'[s] = backlog[s] - 1
    BY <1>13, <2>0, Zenon DEF AcceptConn, AcceptConnError, TypeOK
  <2>1. \A s \in Sockets : backlog'[s] <= conns'
    <3>1. \A s \in Sockets : backlog[s] <= conns
      BY Zenon DEF ThreadInv
    <3>. QED BY <2>0, <2>a, <3>1
  <2>. QED BY <1>13, <2>1, Zenon DEF ThreadInv, NextInRange, AcceptConn, AcceptConnError
<1>14. CASE AcceptError
  BY <1>14, Zenon DEF ThreadInv, NextInRange, AcceptError
<1>15. CASE OfferAvailable
  <2>1. list # <<>> /\ Len(list) \in Nat
    BY <1>15, InRange, Zenon DEF OfferAvailable
  <2>2. CASE SendOk
    <3>1. next' < Len(list) /\ list' = list /\ pc' = "accept" /\ idx' = 0
      BY <2>1, <2>2, SendsOk, Zenon
    <3>. QED BY <1>15, <2>1, <3>1, Zenon DEF ThreadInv, NextInRange, OfferAvailable
  <2>3. CASE SendErr
    <3>1. ~SendOk
      BY <2>3, Zenon DEF SendOk, SendErr
    <3>2. (list' # <<>> => next' < Len(list')) /\ (list' = <<>> => next' = 0)
      BY <2>1, <2>3, SendErrors, Zenon DEF PlaceInv
    <3>3. (pc' = "accept" /\ idx' = 0) \/ (pc' = "offer" /\ ~backpressure')
      BY <1>15, <3>1, Zenon DEF OfferAvailable
    <3>. QED BY <1>15, <3>2, <3>3, Zenon DEF ThreadInv, NextInRange, OfferAvailable
  <2>. QED BY <1>15, <2>2, <2>3, Zenon DEF OfferAvailable
<1>16. CASE OfferUnavailable
  <2>1. Len(list) \in Nat \ {0} /\ next \in 0..(Len(list) - 1) /\ list # <<>>
    BY <1>16, InRange, Zenon DEF OfferUnavailable
  <2>2. next' < Len(list)
    BY <1>16, <2>1, Cycle DEF OfferUnavailable
  <2>. QED BY <1>16, <2>1, <2>2, Zenon DEF ThreadInv, NextInRange, OfferUnavailable
<1>17. CASE OfferExhausted
  BY <1>17, Zenon DEF ThreadInv, NextInRange, OfferExhausted
<1>18. CASE OfferAnyway
  <2>1. CASE list = <<>> /\ pc' = "accept" /\ UNCHANGED <<idx, list, next, serverQ>>
    BY <1>18, <2>1, Zenon DEF ThreadInv, NextInRange, OfferAnyway
  <2>2. CASE list # <<>> /\ SendOk
    <3>1. next' < Len(list) /\ list' = list /\ pc' = "accept" /\ idx' = 0
      BY <2>2, SendsOk, Zenon
    <3>. QED BY <1>18, <2>2, <3>1, Zenon DEF ThreadInv, NextInRange, OfferAnyway
  <2>3. CASE list # <<>> /\ SendErr /\ (pc' = IF Len(list) = 1 THEN "accept" ELSE pc) /\ UNCHANGED idx
    <3>1. (list' # <<>> => next' < Len(list')) /\ (list' = <<>> => next' = 0)
      BY <2>3, SendErrors, Zenon DEF PlaceInv
    <3>2. pc' \in {"accept", "offer"} /\ pc = "offer"
      BY <1>18, <2>3, Zenon DEF OfferAnyway
    <3>. QED BY <1>18, <2>3, <3>1, <3>2, Zenon DEF ThreadInv, NextInRange, OfferAnyway
  <2>. QED BY <1>18, <2>1, <2>2, <2>3, Zenon DEF OfferAnyway
<1>19. CASE HandlePauseResume \/ HandleStop \/ HandleFaulted \/ StopCompletes
  BY <1>19, ThreadIdle, Zenon DEF HandlePauseResume, HandleStop, HandleFaulted, StopCompletes
<1>20. ASSUME NEW c \in AllOps, Ask(c) PROVE ThreadInv'
  BY <1>20, ThreadIdle, Zenon DEF Ask
<1>21. ASSUME NEW s \in Sockets, Incoming(s) PROVE ThreadInv'
  <2>0. conns \in Nat /\ \A k \in Sockets : backlog[k] \in Nat /\ backlog[k] <= conns
    BY Bounds DEF ThreadInv, TypeOK
  <2>a. conns' = conns + 1 /\ \A k \in Sockets : backlog'[k] = backlog[k] \/ backlog'[k] = backlog[k] + 1
    BY <1>21, Zenon DEF Incoming, TypeOK
  <2>1. \A k \in Sockets : backlog'[k] <= conns'
    BY <2>0, <2>a
  <2>. QED BY <1>21, <2>1, Zenon DEF ThreadInv, NextInRange, Incoming
<1>22. ASSUME NEW s \in Sockets, RetryTimer(s) PROVE ThreadInv'
  BY <1>22, ThreadIdle, Zenon DEF RetryTimer
<1>23. ASSUME NEW w \in Workers,
              WorkerAvailable(w) \/ WorkerUnavailable(w) \/ WorkerDies(w) \/ WorkerStops(w)
       PROVE  ThreadInv'
  BY <1>23, ThreadIdle, Zenon DEF WorkerAvailable, WorkerUnavailable, WorkerDies, WorkerStops
<1>24. CASE UNCHANGED vars
  BY <1>24, ThreadIdle, Zenon DEF vars
<1>. QED
  BY <1>1, <1>2, <1>3, <1>4, <1>5, <1>6, <1>7, <1>8, <1>9, <1>10, <1>11, <1>12, <1>13,
       <1>14, <1>15, <1>16, <1>17, <1>18, <1>19, <1>20, <1>21, <1>22, <1>23, <1>24, Zenon
       DEF Next, AcceptStep, ServerStep

\* No worker is sent to the accept thread and none is reported: what the queues tell
\* of workers was in them before, at the same place or one further back.
NoNewWorker ==
  \E a \in {0, 1} : \A k \in DOMAIN acceptQ' : k \in Nat /\
    (IsNew(k)' => k + a \in DOMAIN acceptQ /\ acceptQ'[k] = acceptQ[k + a])

NoNewReport ==
  \E b \in {0, 1} : \A k \in DOMAIN serverQ' : k \in Nat /\
    (IsFault(k)' => k + b \in DOMAIN serverQ /\ serverQ'[k] = serverQ[k + b])

\* A step that sends no worker and no report, and leaves or clears the list, keeps the places.
LEMMA PlaceKept ==
  ASSUME PlaceInv, UNCHANGED <<workers, windex>>, NoNewWorker, NoNewReport,
         \A w \in Range(workers) : wst[w] = "gone" => wst'[w] = "gone",
         \A w \in Range(workers) : wst'[w] # "unused",
         list' = list \/ list' = <<>>
  PROVE  PlaceInv'
<1>a. PICK a \in {0, 1} : \A k \in DOMAIN acceptQ' : k \in Nat /\
        (IsNew(k)' => k + a \in DOMAIN acceptQ /\ acceptQ'[k] = acceptQ[k + a])
  BY Zenon DEF NoNewWorker
<1>b. PICK b \in {0, 1} : \A k \in DOMAIN serverQ' : k \in Nat /\
        (IsFault(k)' => k + b \in DOMAIN serverQ /\ serverQ'[k] = serverQ[k + b])
  BY Zenon DEF NoNewReport
<1>1. IsInjective(list') /\ Range(list') \subseteq Range(list)
  <2>1. IsInjective(<<>>) /\ Range(<<>>) = {}
    BY DEF IsInjective, Range
  <2>. QED BY <2>1, Zenon DEF PlaceInv
<1>2. \A k \in DOMAIN acceptQ' : IsNew(k)' => IsNew(k + a) /\ acceptQ'[k].worker = acceptQ[k + a].worker
  BY <1>a, Zenon DEF IsNew
<1>3. \A k \in DOMAIN serverQ' : IsFault(k)' => IsFault(k + b) /\ serverQ'[k].index = serverQ[k + b].index
  BY <1>b, Zenon DEF IsFault
<1>4. \A k \in DOMAIN acceptQ' :
        IsNew(k)' => acceptQ'[k].worker \in Range(workers) \ Range(list')
  BY <1>1, <1>2, <1>a, Zenon DEF PlaceInv
<1>5. \A k, m \in DOMAIN acceptQ' :
        IsNew(k)' /\ IsNew(m)' /\ acceptQ'[k].worker = acceptQ'[m].worker => k = m
  <2>1. ASSUME NEW k \in DOMAIN acceptQ', NEW m \in DOMAIN acceptQ', IsNew(k)', IsNew(m)',
               acceptQ'[k].worker = acceptQ'[m].worker
        PROVE  k = m
    <3>1. k + a = m + a
      BY <1>2, <1>a, <2>1, Zenon DEF PlaceInv
    <3>. QED BY <1>a, <3>1
  <2>. QED BY <2>1, Zenon
<1>6. \A k \in DOMAIN serverQ' : IsFault(k)' => \E w \in Range(workers) : FaultOf(k, w)'
  <2>1. ASSUME NEW k \in DOMAIN serverQ', IsFault(k)'
        PROVE  \E w \in Range(workers) : FaultOf(k, w)'
    <3>1. PICK w \in Range(workers) : FaultOf(k + b, w)
      BY <1>3, <1>b, <2>1, Zenon DEF PlaceInv
    <3>2. windex'[w] = serverQ'[k].index /\ wst'[w] = "gone" /\ w \notin Range(list')
      BY <1>1, <1>3, <2>1, <3>1, Zenon DEF FaultOf
    <3>3. \A m \in DOMAIN acceptQ' : IsNew(m)' => acceptQ'[m].worker # w
      BY <1>2, <1>a, <3>1, Zenon DEF FaultOf
    <3>. QED BY <3>2, <3>3, Zenon DEF FaultOf
  <2>. QED BY <2>1, Zenon
<1>7. \A k, m \in DOMAIN serverQ' :
        IsFault(k)' /\ IsFault(m)' /\ serverQ'[k].index = serverQ'[m].index => k = m
  <2>1. ASSUME NEW k \in DOMAIN serverQ', NEW m \in DOMAIN serverQ', IsFault(k)', IsFault(m)',
               serverQ'[k].index = serverQ'[m].index
        PROVE  k = m
    <3>1. k + b = m + b
      BY <1>3, <1>b, <2>1, Zenon DEF PlaceInv
    <3>. QED BY <1>b, <3>1
  <2>. QED BY <2>1, Zenon
<1>. QED BY <1>1, <1>4, <1>5, <1>6, <1>7, Zenon DEF PlaceInv

\* Taking a command, or sending one of another kind, brings no worker and no report.
LEMMA QueuesMoved ==
  ASSUME TypeOK
  PROVE  /\ acceptQ' = acceptQ => NoNewWorker
         /\ acceptQ # <<>> /\ acceptQ' = Tail(acceptQ) => NoNewWorker
         /\ \A c \in AcceptCommand :
              c.cmd # "Worker" /\ acceptQ' = Append(acceptQ, c) => NoNewWorker
         /\ serverQ' = serverQ => NoNewReport
         /\ serverQ # <<>> /\ serverQ' = Tail(serverQ) => NoNewReport
         /\ \A c \in ServerCommand :
              c.cmd # "WorkerFaulted" /\ serverQ' = Append(serverQ, c) => NoNewReport
<1>1. /\ acceptQ \in Seq(AcceptCommand) /\ serverQ \in Seq(ServerCommand)
      /\ DOMAIN acceptQ = 1..Len(acceptQ) /\ DOMAIN serverQ = 1..Len(serverQ)
  BY DEF TypeOK
<1>2. acceptQ' = acceptQ => NoNewWorker
  BY <1>1 DEF NoNewWorker
<1>3. serverQ' = serverQ => NoNewReport
  BY <1>1 DEF NoNewReport
<1>4. ASSUME acceptQ # <<>>, acceptQ' = Tail(acceptQ) PROVE NoNewWorker
  <2>1. \A k \in DOMAIN acceptQ' :
          k \in Nat /\ k + 1 \in DOMAIN acceptQ /\ acceptQ'[k] = acceptQ[k + 1]
    BY <1>1, <1>4
  <2>. QED BY <2>1, Zenon DEF NoNewWorker
<1>5. ASSUME serverQ # <<>>, serverQ' = Tail(serverQ) PROVE NoNewReport
  <2>1. \A k \in DOMAIN serverQ' :
          k \in Nat /\ k + 1 \in DOMAIN serverQ /\ serverQ'[k] = serverQ[k + 1]
    BY <1>1, <1>5
  <2>. QED BY <2>1, Zenon DEF NoNewReport
<1>6. ASSUME NEW c \in AcceptCommand, c.cmd # "Worker", acceptQ' = Append(acceptQ, c)
      PROVE  NoNewWorker
  <2>1. \A k \in DOMAIN acceptQ' : k \in Nat /\
          (acceptQ'[k] # c => k + 0 \in DOMAIN acceptQ /\ acceptQ'[k] = acceptQ[k + 0])
    BY <1>1, <1>6
  <2>. QED BY <1>6, <2>1, Zenon DEF NoNewWorker, IsNew
<1>7. ASSUME NEW c \in ServerCommand, c.cmd # "WorkerFaulted", serverQ' = Append(serverQ, c)
      PROVE  NoNewReport
  <2>1. \A k \in DOMAIN serverQ' : k \in Nat /\
          (serverQ'[k] # c => k + 0 \in DOMAIN serverQ /\ serverQ'[k] = serverQ[k + 0])
    BY <1>1, <1>7
  <2>. QED BY <1>7, <2>1, Zenon DEF NoNewReport, IsFault
<1>. QED BY <1>2, <1>3, <1>4, <1>5, <1>6, <1>7, Zenon

\* A new worker joins the list.
LEMMA WorkerPlaced ==
  ASSUME TypeOK, PlaceInv, CmdWorker PROVE PlaceInv'
<1>. DEFINE w == Head(acceptQ).worker
<1>0. UNCHANGED <<workers, windex, wst, serverQ>>
  BY Zenon DEF CmdWorker, builder, works
<1>1. /\ acceptQ # <<>> /\ 1 \in DOMAIN acceptQ /\ IsNew(1) /\ w = acceptQ[1].worker
      /\ \A k \in DOMAIN acceptQ' : k + 1 \in DOMAIN acceptQ /\ k + 1 # 1
                                    /\ acceptQ'[k] = acceptQ[k + 1]
      /\ \A k, m \in DOMAIN acceptQ' : k + 1 = m + 1 => k = m
  BY TailAt DEF CmdWorker, TypeOK, IsNew
<1>2. w \in Range(workers) /\ w \notin Range(list) /\ w \in Workers
  BY <1>1, NextCommand, Zenon DEF PlaceInv, IsNew, CmdWorker
<1>3. IsInjective(list') /\ Range(list') = Range(list) \cup {w}
  <2>1. list' = Append(list, w)
    BY Zenon DEF CmdWorker
  <2>2. /\ \A i \in DOMAIN list : i \in DOMAIN list' /\ list'[i] = list[i]
        /\ Len(list) + 1 \in DOMAIN list' /\ list'[Len(list) + 1] = w
        /\ \A i \in DOMAIN list' : i \in DOMAIN list \/ i = Len(list) + 1
    <3>. DEFINE q == Append(list, w)
    <3>0. list \in Seq(Workers)
      BY Zenon DEF TypeOK
    <3>1. /\ \A i \in DOMAIN list : i \in DOMAIN q /\ q[i] = list[i]
          /\ Len(list) + 1 \in DOMAIN q /\ q[Len(list) + 1] = w
          /\ \A i \in DOMAIN q : i \in DOMAIN list \/ i = Len(list) + 1
      BY <1>2, <3>0, AppendAt
    <3>. HIDE DEF q
    <3>. QED BY <2>1, <3>1, Zenon DEF q
  <2>3. \A i \in DOMAIN list : list[i] # w
    BY <1>2, Zenon DEF Range
  <2>4. IsInjective(list')
    BY <2>2, <2>3, Zenon DEF PlaceInv, IsInjective
  <2>. QED BY <2>2, <2>4, Zenon DEF Range
<1>. HIDE DEF w
<1>4. \A k \in DOMAIN acceptQ' : IsNew(k)' =>
        IsNew(k + 1) /\ acceptQ'[k].worker = acceptQ[k + 1].worker /\ acceptQ'[k].worker # w
  <2>1. \A k \in DOMAIN acceptQ' : IsNew(k)' =>
          IsNew(k + 1) /\ acceptQ'[k].worker = acceptQ[k + 1].worker
    BY <1>1, Zenon DEF IsNew
  <2>2. \A k \in DOMAIN acceptQ : IsNew(k) /\ acceptQ[k].worker = w => k = 1
    BY <1>1, Zenon DEF PlaceInv
  <2>. QED BY <1>1, <2>1, <2>2, Zenon
<1>5. \A k \in DOMAIN acceptQ' :
        IsNew(k)' => acceptQ'[k].worker \in Range(workers) \ Range(list')
  <2>1. \A k \in DOMAIN acceptQ : IsNew(k) => acceptQ[k].worker \in Range(workers) \ Range(list)
    BY Zenon DEF PlaceInv
  <2>2. ASSUME NEW k \in DOMAIN acceptQ', IsNew(k)'
        PROVE  acceptQ'[k].worker \in Range(workers) \ Range(list')
    <3>1. acceptQ'[k].worker \in Range(workers) \ Range(list) /\ acceptQ'[k].worker # w
      BY <1>1, <1>4, <2>1, <2>2, Zenon
    <3>. QED BY <1>3, <3>1, Zenon
  <2>. QED BY <2>2, Zenon
<1>6. \A k, m \in DOMAIN acceptQ' :
        IsNew(k)' /\ IsNew(m)' /\ acceptQ'[k].worker = acceptQ'[m].worker => k = m
  BY <1>1, <1>4, Zenon DEF PlaceInv
<1>7. \A k \in DOMAIN serverQ : IsFault(k) => \E v \in Range(workers) : FaultOf(k, v)'
  <2>1. ASSUME NEW k \in DOMAIN serverQ, NEW v \in Range(workers), FaultOf(k, v)
        PROVE  FaultOf(k, v)'
    BY <1>0, <1>1, <1>3, <1>4, <2>1, Zenon DEF FaultOf
  <2>. QED BY <2>1, Zenon DEF PlaceInv
<1>. QED BY <1>0, <1>2, <1>3, <1>5, <1>6, <1>7, Zenon DEF PlaceInv, IsFault

\* A worker found gone is reported and leaves the list.
LEMMA ReportPlaced ==
  ASSUME TypeOK, ThreadInv, PlaceInv, list # <<>>, SendErr,
         UNCHANGED <<workers, windex, wst, acceptQ>>
  PROVE  PlaceInv'
<1>w. PICK w : w = Chosen
  OBVIOUS
<1>n. PICK n : n = Len(serverQ) + 1
  OBVIOUS
<1>. DEFINE e == [cmd |-> "WorkerFaulted", index |-> windex[w]]
<1>1. /\ IsInjective(list') /\ Range(list') = Range(list) \ {w}
      /\ next + 1 \in DOMAIN list /\ serverQ' = Append(serverQ, e)
      /\ w \in Workers
  BY <1>w, SendErrors, Zenon DEF PlaceInv
<1>2. w \in Range(list) /\ w \in Range(workers)
  BY <1>w, <1>1, Zenon DEF Chosen, Range, PlaceInv
<1>3. wst[w] = "gone"
  BY <1>w, <1>1, <1>2, Zenon DEF SendErr, Open, PlaceInv, TypeOK
<1>4. /\ \A k \in DOMAIN serverQ : k \in DOMAIN serverQ' /\ serverQ'[k] = serverQ[k]
      /\ serverQ'[n] = e /\ \A k \in DOMAIN serverQ' : k \in DOMAIN serverQ \/ k = n
  <2>1. e \in ServerCommand
    BY <1>1, Zenon DEF ServerCommand, TypeOK
  <2>. DEFINE q == Append(serverQ, e)
  <2>2. /\ \A k \in DOMAIN serverQ : k \in DOMAIN q /\ q[k] = serverQ[k]
        /\ q[Len(serverQ) + 1] = e /\ \A k \in DOMAIN q : k \in DOMAIN serverQ \/ k = Len(serverQ) + 1
    <3>1. serverQ \in Seq(ServerCommand)
      BY Zenon DEF TypeOK
    <3>. HIDE DEF e
    <3>. QED BY <2>1, <3>1, AppendAt, Zenon
  <2>3. serverQ' = q
    BY <1>1, Zenon
  <2>. HIDE DEF q
  <2>. QED BY <1>n, <2>2, <2>3, Zenon
<1>5. e.cmd = "WorkerFaulted" /\ e.index = windex[w]
  OBVIOUS
<1>. HIDE DEF e
<1>6. \A v \in Range(workers) : windex[v] = windex[w] => v = w
  BY <1>2, Zenon DEF PlaceInv, Range
<1>7. \A k \in DOMAIN serverQ : IsFault(k) => serverQ[k].index # windex[w]
  BY <1>2, <1>6, Zenon DEF PlaceInv, FaultOf
<1>8. \A k \in DOMAIN serverQ' : IsFault(k)' => \E v \in Range(workers) : FaultOf(k, v)'
  <2>1. ASSUME NEW k \in DOMAIN serverQ, IsFault(k)' PROVE \E v \in Range(workers) : FaultOf(k, v)'
    <3>1. PICK v \in Range(workers) : FaultOf(k, v)
      BY <1>4, <2>1, Zenon DEF PlaceInv, IsFault
    <3>2. FaultOf(k, v)'
      BY <1>1, <1>4, <3>1, Zenon DEF FaultOf, IsNew
    <3>. QED BY <3>2, Zenon
  <2>2. FaultOf(n, w)'
    <3>1. \A m \in DOMAIN acceptQ : IsNew(m) => acceptQ[m].worker # w
      BY <1>2, Zenon DEF PlaceInv
    <3>. QED BY <1>1, <1>3, <1>4, <1>5, <3>1, Zenon DEF FaultOf, IsNew
  <2>. QED BY <1>2, <1>4, <2>1, <2>2, Zenon
<1>9. \A k, m \in DOMAIN serverQ' :
        IsFault(k)' /\ IsFault(m)' /\ serverQ'[k].index = serverQ'[m].index => k = m
  BY <1>4, <1>5, <1>7, Zenon DEF PlaceInv, IsFault
<1>. QED BY <1>1, <1>8, <1>9, Zenon DEF PlaceInv, IsNew

\* The worker a report names is replaced by a new one.
LEMMA FaultHandled ==
  ASSUME SetFacts, TypeOK, PlaceInv, HandleFaulted
  PROVE  PlaceInv' /\ Replaced' /\ list' = list
<1>1. /\ serverQ # <<>> /\ 1 \in DOMAIN serverQ /\ IsFault(1) /\ Head(serverQ) = serverQ[1]
      /\ \A k \in DOMAIN serverQ' : k + 1 \in DOMAIN serverQ /\ k + 1 # 1
                                    /\ serverQ'[k] = serverQ[k + 1]
      /\ \A k, m \in DOMAIN serverQ' : k + 1 = m + 1 => k = m
  BY TailAt DEF HandleFaulted, TypeOK, IsFault
<1>2. PICK dead \in Range(workers) : FaultOf(1, dead)
  BY <1>1, Zenon DEF PlaceInv
<1>3. PICK h \in DOMAIN workers : dead = workers[h]
  BY <1>2, Zenon DEF Range
<1>4. windex[workers[h]] = Head(serverQ).index
  BY <1>1, <1>2, <1>3, Zenon DEF FaultOf
<1>5. PICK new \in Workers, i \in Nat :
        /\ wst[new] = "unused" /\ wst' = [wst EXCEPT ![new] = "running"]
        /\ windex' = [windex EXCEPT ![new] = i]
        /\ Range(workers') = (Range(workers) \ {dead}) \cup {new}
        /\ \A k, m \in DOMAIN workers' :
             windex'[workers'[k]] = windex'[workers'[m]] => k = m
        /\ ToAccept([cmd |-> "Worker", worker |-> new])
  BY <1>3, <1>4, Replacement, Zenon
<1>. DEFINE e == [cmd |-> "Worker", worker |-> new]
            n == Len(acceptQ) + 1
<1>6. list' = list
  BY Zenon DEF HandleFaulted, thread
<1>7. new \notin Range(workers) /\ Range(workers) \subseteq Workers
  <2>1. Range(workers) \subseteq Workers
    BY ElementAt, Zenon DEF TypeOK
  <2>. QED BY <1>5, <2>1, Zenon DEF PlaceInv
<1>8. /\ \A w \in Range(workers) : windex'[w] = windex[w] /\ wst'[w] = wst[w]
      /\ wst'[new] = "running"
  BY <1>5, <1>7, Zenon DEF TypeOK
<1>9. /\ \A k \in DOMAIN acceptQ : k \in DOMAIN acceptQ' /\ acceptQ'[k] = acceptQ[k]
      /\ acceptQ'[n] = e /\ n \in DOMAIN acceptQ'
      /\ \A k \in DOMAIN acceptQ' : k \in DOMAIN acceptQ \/ k = n
  <2>1. e \in AcceptCommand
    BY Zenon DEF AcceptCommand
  <2>. DEFINE q == Append(acceptQ, e)
  <2>2. /\ \A k \in DOMAIN acceptQ : k \in DOMAIN q /\ q[k] = acceptQ[k]
        /\ q[n] = e /\ n \in DOMAIN q
        /\ \A k \in DOMAIN q : k \in DOMAIN acceptQ \/ k = n
    <3>1. acceptQ \in Seq(AcceptCommand)
      BY Zenon DEF TypeOK
    <3>. HIDE DEF e
    <3>. QED BY <2>1, <3>1, AppendAt, Zenon
  <2>3. acceptQ' = q
    BY <1>5, Zenon DEF ToAccept
  <2>. HIDE DEF q, e, n
  <2>. QED BY <2>2, <2>3, Zenon
<1>10. e.cmd = "Worker" /\ e.worker = new
  OBVIOUS
<1>. HIDE DEF e, n
<1>11. \A w \in Range(workers') : wst'[w] # "unused"
  BY <1>5, <1>8 DEF PlaceInv
<1>12. Range(list) \subseteq Range(workers') /\ new \notin Range(list)
  BY <1>2, <1>5, <1>7, Zenon DEF PlaceInv, FaultOf
<1>13. \A k \in DOMAIN acceptQ' : IsNew(k)' =>
         \/ k \in DOMAIN acceptQ /\ IsNew(k) /\ acceptQ'[k].worker = acceptQ[k].worker
         \/ k = n /\ acceptQ'[k].worker = new
  BY <1>9, <1>10, Zenon DEF IsNew
<1>14. \A k \in DOMAIN acceptQ : IsNew(k) =>
         /\ acceptQ[k].worker \in Range(workers) \ Range(list)
         /\ acceptQ[k].worker # dead /\ acceptQ[k].worker # new
  BY <1>2, <1>7, Zenon DEF PlaceInv, FaultOf
<1>15. \A k \in DOMAIN acceptQ' :
         IsNew(k)' => acceptQ'[k].worker \in Range(workers') \ Range(list)
  BY <1>5, <1>12, <1>13, <1>14, Zenon
<1>16. \A k, m \in DOMAIN acceptQ' :
         IsNew(k)' /\ IsNew(m)' /\ acceptQ'[k].worker = acceptQ'[m].worker => k = m
  BY <1>13, <1>14, Zenon DEF PlaceInv
<1>17. ASSUME NEW k \in DOMAIN serverQ', IsFault(k)'
       PROVE  \E v \in Range(workers') : FaultOf(k, v)'
  <2>1. PICK v \in Range(workers) : FaultOf(k + 1, v)
    BY <1>1, <1>17, Zenon DEF PlaceInv, IsFault
  <2>2. serverQ[k + 1].index # serverQ[1].index
    BY <1>1, <1>17, Zenon DEF PlaceInv, IsFault
  <2>3. v # dead /\ v # new
    BY <1>2, <1>7, <2>1, <2>2, Zenon DEF FaultOf
  <2>4. \A m \in DOMAIN acceptQ' : IsNew(m)' => acceptQ'[m].worker # v
    BY <1>13, <2>1, <2>3, Zenon DEF FaultOf
  <2>5. FaultOf(k, v)'
    BY <1>1, <1>6, <1>8, <2>1, <2>4, Zenon DEF FaultOf
  <2>. QED BY <1>5, <2>1, <2>3, <2>5, Zenon
<1>18. \A k, m \in DOMAIN serverQ' :
         IsFault(k)' /\ IsFault(m)' /\ serverQ'[k].index = serverQ'[m].index => k = m
  <2>1. \A k \in DOMAIN serverQ' : IsFault(k)' =>
          IsFault(k + 1) /\ serverQ'[k].index = serverQ[k + 1].index
    BY <1>1, Zenon DEF IsFault
  <2>2. ASSUME NEW k \in DOMAIN serverQ', NEW m \in DOMAIN serverQ', IsFault(k)', IsFault(m)',
               serverQ'[k].index = serverQ'[m].index
        PROVE  k + 1 = m + 1
    BY <1>1, <2>1, <2>2, Zenon DEF PlaceInv
  <2>. QED BY <1>1, <2>2, Zenon
<1>19. PlaceInv'
  BY <1>5, <1>6, <1>11, <1>12, <1>15, <1>16, <1>17, <1>18, Zenon DEF PlaceInv
<1>20. Replaced'
  BY <1>9, <1>10, Zenon DEF Replaced
<1>. QED BY <1>6, <1>19, <1>20, Zenon

\* What no step of this kind touches.
LEMMA PlaceIdle ==
  ASSUME TypeOK, PlaceInv, UNCHANGED <<workers, windex, wst, list, acceptQ, serverQ>>
  PROVE  PlaceInv'
<1>1. NoNewWorker /\ NoNewReport
  BY QueuesMoved, Zenon
<1>2. \A w \in Range(workers) : wst'[w] # "unused"
  BY Zenon DEF PlaceInv
<1>. QED BY <1>1, <1>2, PlaceKept, Zenon

\* Every step keeps each worker at its place.
LEMMA PlaceStep ==
  ASSUME SetFacts, TypeOK, ThreadInv, PlaceInv, [Next]_vars PROVE PlaceInv'
<1>. USE DEF kernel, thread, builder, works, bounds
<1>0. \A w \in Range(workers) : wst[w] # "unused"
  BY Zenon DEF PlaceInv
<1>1. CASE CmdPause \/ CmdResume \/ CmdStop
  <2>1. /\ acceptQ # <<>> /\ acceptQ' = Tail(acceptQ) /\ serverQ' = serverQ
        /\ UNCHANGED <<workers, windex, wst>> /\ (list' = list \/ list' = <<>>)
    BY <1>1, Zenon DEF CmdPause, CmdResume, CmdStop
  <2>2. NoNewWorker /\ NoNewReport
    BY <2>1, QueuesMoved, Zenon
  <2>. QED BY <1>0, <2>1, <2>2, PlaceKept, Zenon
<1>2. CASE HandlePauseResume
  <2>1. /\ serverQ # <<>> /\ serverQ' = Tail(serverQ) /\ acceptQ' = Append(acceptQ, Head(serverQ))
        /\ UNCHANGED <<workers, windex, wst, list>> /\ Head(serverQ).cmd \in {"Pause",
                       "Resume"}
    BY <1>2, Zenon DEF HandlePauseResume, ToAccept
  <2>2. Head(serverQ) \in AcceptCommand /\ Head(serverQ).cmd # "Worker"
    <3>1. Head(serverQ) \in ServerCommand
      BY <2>1, NextCommand, Zenon
    <3>. QED BY <2>1, <3>1, Zenon DEF ServerCommand, AcceptCommand
  <2>3. NoNewWorker /\ NoNewReport
    BY <2>1, <2>2, QueuesMoved, Zenon
  <2>. QED BY <1>0, <2>1, <2>3, PlaceKept, Zenon
<1>3. CASE HandleStop
  <2>1. /\ serverQ # <<>> /\ serverQ' = Tail(serverQ) /\ acceptQ' = Append(acceptQ, [cmd |-> "Stop"])
        /\ UNCHANGED <<workers, windex, wst, list>>
    BY <1>3, Zenon DEF HandleStop, ToAccept
  <2>2. [cmd |-> "Stop"] \in AcceptCommand /\ [cmd |-> "Stop"].cmd # "Worker"
    BY Zenon DEF AcceptCommand
  <2>3. NoNewWorker /\ NoNewReport
    BY <2>1, <2>2, QueuesMoved, Zenon
  <2>. QED BY <1>0, <2>1, <2>3, PlaceKept, Zenon
<1>4. ASSUME NEW c \in AllOps, Ask(c) PROVE PlaceInv'
  <2>1. /\ serverQ' = Append(serverQ, [cmd |-> c]) /\ acceptQ' = acceptQ
        /\ UNCHANGED <<workers, windex, wst, list>>
    BY <1>4, Zenon DEF Ask
  <2>2. [cmd |-> c] \in ServerCommand /\ [cmd |-> c].cmd # "WorkerFaulted"
    BY <1>4, Zenon DEF ServerCommand, AllOps
  <2>3. NoNewWorker /\ NoNewReport
    BY <2>1, <2>2, QueuesMoved, Zenon
  <2>. QED BY <1>0, <2>1, <2>3, PlaceKept, Zenon
<1>5. ASSUME NEW w \in Workers, WorkerDies(w) \/ WorkerStops(w) PROVE PlaceInv'
  <2>1. UNCHANGED <<workers, windex, list, acceptQ, serverQ>>
    BY <1>5, Zenon DEF WorkerDies, WorkerStops
  <2>2. \A v \in Range(workers) : (wst[v] = "gone" => wst'[v] = "gone") /\ wst'[v] # "unused"
    <3>1. Range(workers) \subseteq Workers /\ wst \in [Workers -> {"unused", "running", "stopping", "gone"}]
      BY ElementAt, Zenon DEF TypeOK
    <3>2. \E x \in {"stopping", "gone"} : wst' = [wst EXCEPT ![w] = x]
      BY <1>5, Zenon DEF WorkerDies, WorkerStops
    <3>3. wst[w] # "gone"
      BY <1>5, Zenon DEF WorkerDies, WorkerStops, Open
    <3>. QED BY <1>0, <3>1, <3>2, <3>3, Zenon
  <2>3. NoNewWorker /\ NoNewReport
    BY <2>1, QueuesMoved, Zenon
  <2>. QED BY <2>1, <2>2, <2>3, PlaceKept, Zenon
<1>6. CASE OfferAvailable
  <2>1. list # <<>> /\ UNCHANGED <<workers, windex, wst, acceptQ>>
    BY <1>6, InRange, Zenon DEF OfferAvailable
  <2>2. CASE SendErr
    BY <2>1, <2>2, ReportPlaced, Zenon
  <2>3. CASE SendOk
    BY <2>1, <2>3, PlaceIdle, Zenon DEF SendOk
  <2>. QED BY <1>6, <2>2, <2>3, Zenon DEF OfferAvailable
<1>7. CASE OfferAnyway
  <2>1. UNCHANGED <<workers, windex, wst, acceptQ>>
    BY <1>7, Zenon DEF OfferAnyway
  <2>2. CASE list # <<>> /\ SendErr
    BY <2>1, <2>2, ReportPlaced, Zenon
  <2>3. CASE SendOk
    BY <2>1, <2>3, PlaceIdle, Zenon DEF SendOk
  <2>4. CASE UNCHANGED <<idx, list, next, serverQ>>
    BY <2>1, <2>4, PlaceIdle, Zenon
  <2>. QED BY <1>7, <2>2, <2>3, <2>4, Zenon DEF OfferAnyway
<1>8. CASE CmdWorker
  BY <1>8, WorkerPlaced, Zenon
<1>9. CASE HandleFaulted
  BY <1>9, FaultHandled, Zenon
<1>10. CASE \/ Poll \/ BatchDone \/ SocketEvent \/ NotifyEvent \/ TimerEvent \/ CmdEvent
            \/ CmdEmpty \/ AcceptNone \/ AcceptConn \/ AcceptConnError \/ AcceptError
            \/ OfferUnavailable \/ OfferExhausted \/ StopCompletes \/ UNCHANGED vars
  <2>1. UNCHANGED <<workers, windex, wst, list, acceptQ, serverQ>>
    BY <1>10, Zenon DEF Poll, BatchDone, SocketEvent, NotifyEvent, TimerEvent, CmdEvent,
         CmdEmpty, AcceptNone, AcceptConn, AcceptConnError, AcceptError, OfferUnavailable,
         OfferExhausted, StopCompletes, vars
  <2>. QED BY <2>1, PlaceIdle, Zenon
<1>11. ASSUME NEW s \in Sockets, Incoming(s) \/ RetryTimer(s) PROVE PlaceInv'
  BY <1>11, PlaceIdle, Zenon DEF Incoming, RetryTimer
<1>12. ASSUME NEW w \in Workers, WorkerAvailable(w) \/ WorkerUnavailable(w) PROVE PlaceInv'
  BY <1>12, PlaceIdle, Zenon DEF WorkerAvailable, WorkerUnavailable
<1>. QED
  BY <1>1, <1>2, <1>3, <1>4, <1>5, <1>6, <1>7, <1>8, <1>9, <1>10, <1>11, <1>12, Zenon
       DEF Next, AcceptStep, ServerStep

\* What is on its way to the accept thread stays on its way as its queues move.
LEMMA ReportsMoved ==
  ASSUME TypeOK
  PROVE  /\ \A c \in ServerCommand : serverQ' = Append(serverQ, c) =>
              (Reported \/ c.cmd = "WorkerFaulted" => Reported')
         /\ serverQ # <<>> /\ serverQ' = Tail(serverQ) /\ Head(serverQ).cmd # "WorkerFaulted" =>
              (Reported => Reported')
         /\ \A c \in AcceptCommand : acceptQ' = Append(acceptQ, c) =>
              (Replaced \/ c.cmd = "Worker" => Replaced')
         /\ acceptQ # <<>> /\ acceptQ' = Tail(acceptQ) /\ Head(acceptQ).cmd # "Worker" =>
              (Replaced => Replaced')
<1>1. acceptQ \in Seq(AcceptCommand) /\ serverQ \in Seq(ServerCommand)
  BY Zenon DEF TypeOK
<1>2. ASSUME NEW c \in ServerCommand, serverQ' = Append(serverQ, c),
             Reported \/ c.cmd = "WorkerFaulted"
      PROVE  Reported'
  <2>1. /\ \A i \in DOMAIN serverQ : i \in DOMAIN serverQ' /\ serverQ'[i] = serverQ[i]
        /\ Len(serverQ) + 1 \in DOMAIN serverQ' /\ serverQ'[Len(serverQ) + 1] = c
    BY <1>1, <1>2, AppendAt
  <2>. QED BY <1>2, <2>1, Zenon DEF Reported
<1>3. ASSUME serverQ # <<>>, serverQ' = Tail(serverQ), Head(serverQ).cmd # "WorkerFaulted", Reported
      PROVE  Reported'
  <2>1. /\ Head(serverQ) = serverQ[1]
        /\ \A i \in DOMAIN serverQ : i # 1 => i - 1 \in DOMAIN serverQ' /\ serverQ'[i - 1] = serverQ[i]
    BY <1>1, <1>3, TailAt
  <2>. QED BY <1>3, <2>1, Zenon DEF Reported
<1>4. ASSUME NEW c \in AcceptCommand, acceptQ' = Append(acceptQ, c),
             Replaced \/ c.cmd = "Worker"
      PROVE  Replaced'
  <2>1. /\ \A i \in DOMAIN acceptQ : i \in DOMAIN acceptQ' /\ acceptQ'[i] = acceptQ[i]
        /\ Len(acceptQ) + 1 \in DOMAIN acceptQ' /\ acceptQ'[Len(acceptQ) + 1] = c
    BY <1>1, <1>4, AppendAt
  <2>. QED BY <1>4, <2>1, Zenon DEF Replaced
<1>5. ASSUME acceptQ # <<>>, acceptQ' = Tail(acceptQ), Head(acceptQ).cmd # "Worker", Replaced
      PROVE  Replaced'
  <2>1. /\ Head(acceptQ) = acceptQ[1]
        /\ \A i \in DOMAIN acceptQ : i # 1 => i - 1 \in DOMAIN acceptQ' /\ acceptQ'[i - 1] = acceptQ[i]
    BY <1>1, <1>5, TailAt
  <2>. QED BY <1>5, <2>1, Zenon DEF Replaced
<1>. QED BY <1>2, <1>3, <1>4, <1>5, Zenon

\* A worker found gone is reported.
LEMMA ErrReported ==
  ASSUME TypeOK, ThreadInv, PlaceInv, list # <<>>, SendErr PROVE Reported'
<1>. DEFINE e == [cmd |-> "WorkerFaulted", index |-> windex[Chosen]]
<1>1. serverQ' = Append(serverQ, e) /\ Chosen \in Workers
  BY SendErrors, Zenon DEF PlaceInv
<1>2. e \in ServerCommand /\ e.cmd = "WorkerFaulted"
  BY <1>1, Zenon DEF ServerCommand, TypeOK
<1>. QED BY <1>1, <1>2, ReportsMoved, Zenon

\* Only the arrival of the new worker ends what a report began.
LEMMA ReportsKept ==
  ASSUME SetFacts, TypeOK, ThreadInv, PlaceInv, [Next]_vars, ~CmdWorker, Reported \/ Replaced
  PROVE  Reported' \/ Replaced'
<1>. USE DEF kernel, thread, builder, works, bounds
<1>0. acceptQ' = acceptQ /\ serverQ' = serverQ => Reported' \/ Replaced'
  BY Zenon DEF Reported, Replaced
<1>1. CASE CmdPause \/ CmdResume \/ CmdStop
  <2>1. acceptQ # <<>> /\ acceptQ' = Tail(acceptQ) /\ serverQ' = serverQ
    BY <1>1, Zenon DEF CmdPause, CmdResume, CmdStop
  <2>2. Head(acceptQ).cmd # "Worker"
    BY <1>1, Zenon DEF CmdPause, CmdResume, CmdStop
  <2>3. Replaced => Replaced'
    BY <2>1, <2>2, ReportsMoved, Zenon
  <2>. QED BY <2>1, <2>3, Zenon DEF Reported
<1>2. CASE HandlePauseResume
  <2>1. /\ serverQ # <<>> /\ serverQ' = Tail(serverQ) /\ acceptQ' = Append(acceptQ, Head(serverQ))
        /\ Head(serverQ).cmd \in {"Pause", "Resume"}
    BY <1>2, Zenon DEF HandlePauseResume, ToAccept
  <2>2. Head(serverQ) \in AcceptCommand /\ Head(serverQ).cmd # "WorkerFaulted"
    <3>1. Head(serverQ) \in ServerCommand
      BY <2>1, NextCommand, Zenon
    <3>. QED BY <2>1, <3>1, Zenon DEF ServerCommand, AcceptCommand
  <2>. QED BY <2>1, <2>2, ReportsMoved, Zenon
<1>3. CASE HandleStop
  <2>1. /\ serverQ # <<>> /\ serverQ' = Tail(serverQ) /\ acceptQ' = Append(acceptQ, [cmd |-> "Stop"])
        /\ Head(serverQ).cmd \in {"StopGraceful", "StopForced", "Term", "Int"}
    BY <1>3, Zenon DEF HandleStop, ToAccept
  <2>2. [cmd |-> "Stop"] \in AcceptCommand /\ Head(serverQ).cmd # "WorkerFaulted"
    BY <2>1, Zenon DEF AcceptCommand
  <2>. QED BY <2>1, <2>2, ReportsMoved, Zenon
<1>4. CASE HandleFaulted
  BY <1>4, FaultHandled, Zenon
<1>5. ASSUME NEW c \in AllOps, Ask(c) PROVE Reported' \/ Replaced'
  <2>1. serverQ' = Append(serverQ, [cmd |-> c]) /\ acceptQ' = acceptQ
    BY <1>5, Zenon DEF Ask
  <2>2. [cmd |-> c] \in ServerCommand
    BY Zenon DEF ServerCommand
  <2>. QED BY <2>1, <2>2, ReportsMoved, Zenon DEF Replaced
<1>6. CASE OfferAvailable \/ OfferAnyway
  <2>1. CASE list # <<>> /\ SendErr
    BY <2>1, ErrReported, Zenon
  <2>2. CASE serverQ' = serverQ
    BY <1>0, <1>6, <2>2, Zenon DEF OfferAvailable, OfferAnyway
  <2>3. OfferAvailable => list # <<>>
    BY InRange, Zenon DEF OfferAvailable
  <2>. QED BY <1>6, <2>1, <2>2, <2>3, Zenon DEF OfferAvailable, OfferAnyway, SendOk
<1>7. CASE \/ Poll \/ BatchDone \/ SocketEvent \/ NotifyEvent \/ TimerEvent \/ CmdEvent
           \/ CmdEmpty \/ AcceptNone \/ AcceptConn \/ AcceptConnError \/ AcceptError
           \/ OfferUnavailable \/ OfferExhausted \/ StopCompletes \/ UNCHANGED vars
  BY <1>0, <1>7, Zenon DEF Poll, BatchDone, SocketEvent, NotifyEvent, TimerEvent, CmdEvent,
       CmdEmpty, AcceptNone, AcceptConn, AcceptConnError, AcceptError, OfferUnavailable,
       OfferExhausted, StopCompletes, vars
<1>8. ASSUME NEW s \in Sockets, Incoming(s) \/ RetryTimer(s) PROVE Reported' \/ Replaced'
  BY <1>0, <1>8, Zenon DEF Incoming, RetryTimer
<1>9. ASSUME NEW w \in Workers,
             WorkerAvailable(w) \/ WorkerUnavailable(w) \/ WorkerDies(w) \/ WorkerStops(w)
      PROVE  Reported' \/ Replaced'
  BY <1>0, <1>9, Zenon DEF WorkerAvailable, WorkerUnavailable, WorkerDies, WorkerStops
<1>. QED
  BY <1>1, <1>2, <1>3, <1>4, <1>5, <1>6, <1>7, <1>8, <1>9, Zenon DEF Next, AcceptStep,
       ServerStep

Notified == "NOTIFY" \in Range(readyQ) \/ "NOTIFY" \in Range(batch)

\* Only the accept thread's handling of it ends a NOTIFY.
LEMMA NotifyKept ==
  ASSUME SetFacts, TypeOK, ThreadInv, [Next]_vars, ~NotifyEvent, ~CmdStop, Notified
  PROVE  Notified'
<1>. USE DEF kernel, thread, builder, works, bounds
<1>0. batch' = batch /\ (\A x : x \in Range(readyQ) => x \in Range(readyQ')) => Notified'
  BY Zenon DEF Notified
<1>1. readyQ' = readyQ /\ batch' = batch => Notified'
  BY Zenon DEF Notified
<1>2. CASE Poll
  <2>1. PICK order \in Bijection(1..Cardinality(edge), edge) : batch' = order \o readyQ
    BY <1>2, Zenon DEF Poll
  <2>2. "NOTIFY" \notin Range(batch)
    <3>1. batch = <<>>
      BY <1>2, Zenon DEF Poll, ThreadInv
    <3>. QED BY <3>1 DEF Range
  <2>3. edge \in SUBSET Sockets
    BY Zenon DEF TypeOK
  <2>4. order \in Seq(edge) /\ readyQ \in Seq(Events)
    BY <2>1, <2>3, AllDelivered, Zenon DEF TypeOK
  <2>. QED BY <2>1, <2>2, <2>4, RangeJoined, Zenon DEF Notified
<1>3. CASE SocketEvent \/ TimerEvent \/ CmdEvent
  <2>1. batch # <<>> /\ batch' = Tail(batch) /\ readyQ' = readyQ
    BY <1>3, Zenon DEF SocketEvent, TimerEvent, CmdEvent
  <2>2. Head(batch) # "NOTIFY"
    <3>1. "NOTIFY" \notin Sockets
      BY ServerAssumption, Zenon DEF Events
    <3>. QED BY <1>3, <3>1, Zenon DEF SocketEvent, TimerEvent, CmdEvent
  <2>. QED BY <2>1, <2>2, NextEvent, Zenon DEF Notified
<1>4. CASE HandlePauseResume
  <2>1. Head(serverQ) \in AcceptCommand
    <3>1. Head(serverQ) \in ServerCommand /\ Head(serverQ).cmd \in {"Pause", "Resume"}
      BY <1>4, NextCommand, Zenon DEF HandlePauseResume
    <3>. QED BY <3>1, Zenon DEF ServerCommand, AcceptCommand
  <2>. QED BY <1>0, <1>4, <2>1, Told, Zenon DEF HandlePauseResume
<1>5. CASE HandleStop
  <2>1. [cmd |-> "Stop"] \in AcceptCommand
    BY Zenon DEF AcceptCommand
  <2>. QED BY <1>0, <1>5, <2>1, Told, Zenon DEF HandleStop
<1>6. CASE HandleFaulted
  <2>1. \A w \in Workers : [cmd |-> "Worker", worker |-> w] \in AcceptCommand
    BY Zenon DEF AcceptCommand
  <2>2. readyQ' = readyQ \/ \E w \in Workers : ToAccept([cmd |-> "Worker", worker |-> w])
    BY <1>6, Zenon DEF HandleFaulted
  <2>3. batch' = batch
    BY <1>6, Zenon DEF HandleFaulted
  <2>. QED BY <1>0, <1>1, <2>1, <2>2, <2>3, Told, Zenon
<1>7. ASSUME NEW s \in Sockets, RetryTimer(s) PROVE Notified'
  <2>1. "TIMER" \in Events
    BY Zenon DEF Events
  <2>. QED BY <1>0, <1>7, <2>1, ReadySet, Zenon DEF RetryTimer, TypeOK
<1>8. ASSUME NEW w \in Workers, WorkerAvailable(w) PROVE Notified'
  <2>1. "NOTIFY" \in Events
    BY Zenon DEF Events
  <2>. QED BY <1>0, <1>8, <2>1, ReadySet, Zenon DEF WorkerAvailable, TypeOK
<1>9. CASE \/ BatchDone \/ CmdPause \/ CmdResume \/ CmdWorker
           \/ CmdEmpty \/ AcceptNone \/ AcceptConn \/ AcceptConnError \/ AcceptError
           \/ OfferAvailable \/ OfferAnyway
           \/ OfferUnavailable \/ OfferExhausted \/ StopCompletes \/ UNCHANGED vars
  BY <1>1, <1>9, Zenon DEF BatchDone, CmdPause, CmdResume, CmdWorker, OfferAvailable,
       CmdEmpty, AcceptNone, AcceptConn, AcceptConnError, AcceptError, OfferUnavailable,
       OfferExhausted, OfferAnyway, StopCompletes, vars
<1>10. ASSUME NEW s \in Sockets, Incoming(s) PROVE Notified'
  BY <1>1, <1>10, Zenon DEF Incoming
<1>11. ASSUME NEW w \in Workers, WorkerUnavailable(w) \/ WorkerDies(w) \/ WorkerStops(w)
       PROVE  Notified'
  BY <1>1, <1>11, Zenon DEF WorkerUnavailable, WorkerDies, WorkerStops
<1>12. ASSUME NEW c \in AllOps, Ask(c) PROVE Notified'
  BY <1>1, <1>12, Zenon DEF Ask
<1>. QED
  BY <1>2, <1>3, <1>4, <1>5, <1>6, <1>7, <1>8, <1>9, <1>10, <1>11, <1>12, Zenon DEF Next,
       AcceptStep, ServerStep

\* The steps that leave a round of accept_one as it is, or only begin or go on with it.
LEMMA Calm ==
  ASSUME TypeOK, ThreadInv, [Next]_vars, ~CmdWorker, ~CmdStop, ~NotifyEvent, ~HandleFaulted,
         ~OfferExhausted, ~(list # <<>> /\ SendErr), \A w \in Workers : ~WorkerAvailable(w)
  PROVE  /\ list' = list /\ (pc' # "exited" => pc # "exited")
         /\ (backpressure' => backpressure) /\ avail' \subseteq avail
         /\ \A w \in Workers : wst'[w] \in {"running", "stopping"} => Open(w)
         /\ pc' = "offer" /\ ~backpressure' =>
              \/ AcceptConn \/ OfferUnavailable
              \/ pc = "offer" /\ ~backpressure /\ idx' = idx /\ next' = next
<1>. USE DEF kernel, thread, builder, works, bounds
<1>. DEFINE Goal ==
         /\ list' = list /\ (pc' # "exited" => pc # "exited")
         /\ (backpressure' => backpressure) /\ avail' \subseteq avail
         /\ \A w \in Workers : wst'[w] \in {"running", "stopping"} => Open(w)
         /\ pc' = "offer" /\ ~backpressure' =>
              \/ AcceptConn \/ OfferUnavailable
              \/ pc = "offer" /\ ~backpressure /\ idx' = idx /\ next' = next
<1>0. wst' = wst => \A w \in Workers : wst'[w] \in {"running", "stopping"} => Open(w)
  BY Zenon DEF Open
<1>1. CASE AcceptConn \/ OfferUnavailable
  <2>1. list' = list /\ pc # "exited" /\ backpressure' = backpressure /\ avail' = avail /\ wst' = wst
    BY <1>1, Zenon DEF AcceptConn, OfferUnavailable
  <2>. QED BY <1>0, <1>1, <2>1, Zenon
<1>2. CASE OfferAvailable \/ OfferAnyway
  <2>1. OfferAvailable => list # <<>>
    BY InRange, Zenon DEF OfferAvailable
  <2>2. list' = list /\ pc = "offer" /\ backpressure' = backpressure /\ avail' = avail /\ wst' = wst
        /\ pc' = "accept"
    BY <1>2, <2>1, Zenon DEF OfferAvailable, OfferAnyway, SendOk
  <2>. QED BY <1>0, <2>2, Zenon
<1>3. CASE Poll \/ BatchDone \/ SocketEvent \/ CmdEvent \/ CmdEmpty \/ AcceptNone \/ AcceptError
  <2>1. list' = list /\ backpressure' = backpressure /\ avail' = avail /\ wst' = wst
    BY <1>3, Zenon DEF Poll, BatchDone, SocketEvent, CmdEvent, CmdEmpty, AcceptNone,
         AcceptError
  <2>2. pc # "exited" /\ pc' # "offer"
    BY <1>3, Zenon DEF Poll, BatchDone, SocketEvent, CmdEvent, CmdEmpty, AcceptNone,
         AcceptError
  <2>. QED BY <1>0, <2>1, <2>2, Zenon
<1>4. CASE TimerEvent \/ CmdPause \/ CmdResume \/ AcceptConnError \/ HandlePauseResume
           \/ StopCompletes \/ UNCHANGED vars
  <2>1. UNCHANGED <<list, backpressure, avail, wst, pc, idx, next>>
    BY <1>4, Zenon DEF TimerEvent, CmdPause, CmdResume, AcceptConnError, HandlePauseResume,
         StopCompletes, vars
  <2>. QED BY <1>0, <2>1, Zenon
<1>5. CASE HandleStop
  <2>1. UNCHANGED <<list, backpressure, avail, wst, pc, idx, next>>
    BY <1>5, Zenon DEF HandleStop
  <2>. QED BY <1>0, <2>1, Zenon
<1>6. ASSUME NEW c \in AllOps, Ask(c) PROVE Goal
  BY <1>0, <1>6, Zenon DEF Ask
<1>7. ASSUME NEW s \in Sockets, Incoming(s) \/ RetryTimer(s) PROVE Goal
  <2>1. UNCHANGED <<list, backpressure, avail, wst, pc, idx, next>>
    BY <1>7, Zenon DEF Incoming, RetryTimer
  <2>. QED BY <1>0, <2>1, Zenon
<1>8. ASSUME NEW w \in Workers, WorkerUnavailable(w) PROVE Goal
  BY <1>0, <1>8, Zenon DEF WorkerUnavailable
<1>9. ASSUME NEW w \in Workers, WorkerDies(w) \/ WorkerStops(w) PROVE Goal
  <2>1. UNCHANGED <<list, backpressure, pc, idx, next>> /\ avail' \subseteq avail
    BY <1>9, Zenon DEF WorkerDies, WorkerStops
  <2>2. \A v \in Workers : wst'[v] \in {"running", "stopping"} => Open(v)
    BY <1>9, Zenon DEF WorkerDies, WorkerStops, Open, TypeOK
  <2>. QED BY <2>1, <2>2, Zenon
<1>. QED
  BY <1>1, <1>2, <1>3, <1>4, <1>5, <1>6, <1>7, <1>8, <1>9, Zenon DEF Next, AcceptStep,
       ServerStep

\* A round of accept_one begins with no position tried, each unavailable worker adds its
\* position, and the round is exhausted when it has had all of them.
LEMMA Rounds ==
  ASSUME TypeOK, ThreadInv, NEW i \in DOMAIN list
  PROVE  /\ AcceptConn => ~Tried(i)'
         /\ OfferUnavailable /\ Tried(i)' => i = next + 1 \/ Tried(i)
         /\ OfferExhausted => Tried(i)
<1>0. DOMAIN list = 1..Len(list) /\ list # <<>>
  BY DEF TypeOK
<1>1. /\ Len(list) \in Nat \ {0} /\ next \in 0..(Len(list) - 1) /\ idx \in Nat
      /\ i \in 1..Len(list) /\ list # <<>>
  BY <1>0, InRange, Zenon
<1>2. AcceptConn => ~Tried(i)'
  <2>1. AcceptConn => idx' = 0 /\ next' = next /\ list' = list
    BY Zenon DEF AcceptConn, ThreadInv
  <2>. QED BY <1>1, <2>1 DEF Tried
<1>3. ASSUME OfferUnavailable, Tried(i)', i # next + 1 PROVE Tried(i)
  <2>1. /\ idx' = idx + 1 /\ list' = list
        /\ next' = IF next + 1 = Len(list) THEN 0 ELSE next + 1
    BY <1>1, <1>3, Cycle, Zenon DEF OfferUnavailable
  <2>. QED BY <1>1, <1>3, <2>1 DEF Tried
<1>4. OfferExhausted => Tried(i)
  BY <1>1 DEF OfferExhausted, Tried
<1>. QED BY <1>2, <1>3, <1>4, Zenon

\* Every step keeps what will lift the backpressure.
LEMMA LiftStep ==
  ASSUME SetFacts, TypeOK, ThreadInv, PlaceInv, LiftInv, [Next]_vars PROVE LiftInv'
<1>. USE DEF kernel, thread, builder, works, bounds
<1>0. Lifting <=> Notified \/ Reported \/ Replaced
  BY Zenon DEF Lifting, Notified
<1>1. (Lifting <=> Notified \/ Reported \/ Replaced)'
  BY Zenon DEF Lifting, Notified
<1>2. ASSUME Lifting, ~CmdWorker, ~NotifyEvent, ~CmdStop PROVE Lifting'
  BY <1>0, <1>1, <1>2, NotifyKept, ReportsKept, Zenon
<1>3. CASE CmdWorker
  <2>1. Head(acceptQ).worker \in Workers
    BY <1>3, NextCommand, Zenon DEF CmdWorker
  <2>2. list' = Append(list, Head(acceptQ).worker)
    BY <1>3, Zenon DEF CmdWorker
  <2>3. list' # <<>>
    <3>1. list \in Seq(Workers)
      BY Zenon DEF TypeOK
    <3>. QED BY <2>1, <2>2, <3>1
  <2>4. pc' = "cmd" /\ ~backpressure'
    BY <1>3, Zenon DEF CmdWorker, BackpressureOff
  <2>. QED BY <2>3, <2>4, Zenon DEF LiftInv
<1>4. CASE CmdStop
  <2>1. pc' = "exited"
    BY <1>4, Zenon DEF CmdStop
  <2>. QED BY <2>1, Zenon DEF LiftInv
<1>5. CASE NotifyEvent
  <2>1. pc = "event" /\ pc' = pc /\ ~backpressure' /\ UNCHANGED <<list, serverQ, acceptQ>>
    BY <1>5, Zenon DEF NotifyEvent, BackpressureOff
  <2>. QED BY <2>1, Zenon DEF LiftInv, Reported, Replaced
<1>6. CASE list # <<>> /\ SendErr
  <2>1. Reported'
    BY <1>6, ErrReported, Zenon
  <2>. QED BY <1>1, <2>1, Zenon DEF LiftInv
<1>7. CASE HandleFaulted
  <2>1. Replaced'
    BY <1>7, FaultHandled, Zenon
  <2>. QED BY <1>1, <2>1, Zenon DEF LiftInv
<1>8. ASSUME NEW w \in Workers, WorkerAvailable(w), ~CmdWorker PROVE LiftInv'
  <2>1. "NOTIFY" \in Events
    BY Zenon DEF Events
  <2>2. Lifting'
    BY <1>8, <2>1, ReadySet, Zenon DEF WorkerAvailable, TypeOK, Lifting
  <2>3. list' = list /\ pc' = pc
    BY <1>8, Zenon DEF WorkerAvailable
  <2>. QED BY <1>8, <2>2, <2>3, ReportsKept, Zenon DEF LiftInv
<1>9. ASSUME OfferExhausted, ~CmdWorker, ~NotifyEvent, ~CmdStop PROVE LiftInv'
  <2>1. pc = "offer" /\ ~backpressure /\ backpressure' = TRUE
        /\ UNCHANGED <<list, pc, avail, wst>>
    BY <1>9, Zenon DEF OfferExhausted, BackpressureOn
  <2>2. list = <<>> => Reported \/ Replaced
    BY <2>1, Zenon DEF LiftInv
  <2>3. list' = <<>> => (Reported \/ Replaced)'
    BY <1>9, <2>1, <2>2, ReportsKept, Zenon
  <2>4. ASSUME NEW w \in Range(list), w \in avail PROVE Lifting'
    <3>1. PICK i \in DOMAIN list : w = list[i]
      BY Zenon DEF Range
    <3>2. Tried(i)
      BY <1>9, Rounds, Zenon
    <3>. QED BY <1>2, <1>9, <2>1, <2>4, <3>1, <3>2, Zenon DEF LiftInv
  <2>. QED BY <2>1, <2>3, <2>4, Zenon DEF LiftInv
<1>10. ASSUME ~CmdWorker, ~CmdStop, ~NotifyEvent, ~HandleFaulted, ~OfferExhausted,
              ~(list # <<>> /\ SendErr), \A w \in Workers : ~WorkerAvailable(w)
       PROVE  LiftInv'
  <2>1. /\ list' = list /\ (pc' # "exited" => pc # "exited")
        /\ (backpressure' => backpressure) /\ avail' \subseteq avail
        /\ \A w \in Workers : wst'[w] \in {"running", "stopping"} => Open(w)
        /\ pc' = "offer" /\ ~backpressure' =>
             \/ AcceptConn \/ OfferUnavailable
             \/ pc = "offer" /\ ~backpressure /\ idx' = idx /\ next' = next
    BY <1>10, Calm, Zenon
  <2>2. list' = <<>> /\ pc' # "exited" => (Reported \/ Replaced)'
    BY <1>10, <2>1, ReportsKept, Zenon DEF LiftInv
  <2>3. Range(list) \subseteq Workers
    BY ElementAt, Zenon DEF TypeOK
  <2>4. ASSUME backpressure', pc' # "exited", NEW w \in Range(list), Open(w)', w \in avail'
        PROVE  Lifting'
    <3>1. Open(w) /\ w \in avail
      BY <2>1, <2>3, <2>4, Zenon DEF Open
    <3>. QED BY <1>2, <1>10, <2>1, <2>4, <3>1, Zenon DEF LiftInv
  <2>5. ASSUME pc' = "offer", ~backpressure', NEW i \in DOMAIN list, Tried(i)', list[i] \in avail'
        PROVE  Lifting'
    <3>1. pc = "offer" /\ ~backpressure /\ Tried(i)
      <4>1. CASE AcceptConn
        BY <2>5, <4>1, Rounds, Zenon
      <4>2. CASE OfferUnavailable
        <5>1. list[next + 1] \notin avail /\ pc = "offer" /\ ~backpressure
          BY <4>2, Zenon DEF OfferUnavailable, Chosen
        <5>. QED BY <2>1, <2>5, <4>2, <5>1, Rounds, Zenon
      <4>3. CASE pc = "offer" /\ ~backpressure /\ idx' = idx /\ next' = next
        BY <2>1, <2>5, <4>3, Zenon DEF Tried
      <4>. QED BY <2>1, <2>5, <4>1, <4>2, <4>3, Zenon
    <3>. QED BY <1>2, <1>10, <2>1, <2>5, <3>1, Zenon DEF LiftInv
  <2>. QED BY <2>1, <2>2, <2>4, <2>5, Zenon DEF LiftInv
<1>. QED BY <1>3, <1>4, <1>5, <1>6, <1>7, <1>8, <1>9, <1>10, Zenon

\* The sockets that a step does not concern.
LEMMA SocketsIdle ==
  ASSUME NoSocketForgotten, EventNotLost,
         UNCHANGED <<registered, edge, backlog, pc, batch, cur, backpressure, retry, paused>>
  PROVE  NoSocketForgotten' /\ EventNotLost'
BY Zenon DEF NoSocketForgotten, EventNotLost

\* Registering some sockets loses no event, and registering all forgets none.
LEMMA Registered ==
  ASSUME TypeOK, EventNotLost, NEW ss \in SUBSET Sockets, pc \notin {"accept", "offer"},
         UNCHANGED backlog, \A s \in Sockets : s \in Range(batch) => s \in Range(batch')
  PROVE  /\ Register(ss) \/ BackpressureOff => EventNotLost'
         /\ UNCHANGED <<registered, edge>> => EventNotLost'
<1>1. \A s \in registered : backlog[s] > 0 => s \in edge \/ s \in Range(batch)
  BY Zenon DEF EventNotLost
<1>2. registered \subseteq Sockets
  BY Zenon DEF TypeOK
<1>3. ASSUME NEW tt \in SUBSET Sockets, Register(tt) PROVE EventNotLost'
  BY <1>1, <1>2, <1>3, Zenon DEF EventNotLost, Register
<1>4. UNCHANGED <<registered, edge>> => EventNotLost'
  BY <1>1, <1>2, Zenon DEF EventNotLost
<1>5. BackpressureOff => EventNotLost'
  BY <1>3, <1>4, Zenon DEF BackpressureOff
<1>. QED BY <1>3, <1>4, <1>5, Zenon

\* Every step keeps the sockets tended.
LEMMA SocketStep ==
  ASSUME SetFacts, TypeOK, ThreadInv, NoSocketForgotten, EventNotLost, [Next]_vars
  PROVE  NoSocketForgotten' /\ EventNotLost'
<1>. USE DEF kernel, thread, builder, works, bounds
<1>0. /\ registered \subseteq Sockets /\ edge \subseteq registered
      /\ \A s \in Sockets : s \notin Events
  BY ServerAssumption, Zenon DEF TypeOK
<1>a. registered' = registered \ Sockets => EventNotLost'
  BY <1>0, Zenon DEF EventNotLost
<1>1. CASE Poll
  <2>1. PICK order \in Bijection(1..Cardinality(edge), edge) : batch' = order \o readyQ
    BY <1>1, Zenon DEF Poll
  <2>2. edge \in SUBSET Sockets
    BY Zenon DEF TypeOK
  <2>3. /\ order \in Seq(edge) /\ readyQ \in Seq(Events)
        /\ \A s \in edge : s \in Range(order)
    BY <2>1, <2>2, AllDelivered, Zenon DEF TypeOK
  <2>4. \A s \in edge : s \in Range(batch')
    BY <2>1, <2>3, RangeJoined, Zenon
  <2>5. \A s : s \notin Range(batch)
    <3>1. batch = <<>>
      BY <1>1, Zenon DEF Poll, ThreadInv
    <3>. QED BY <3>1 DEF Range
  <2>6. pc = "poll" /\ UNCHANGED <<registered, backlog>>
    BY <1>1, Zenon DEF Poll
  <2>7. \A s \in registered : backlog[s] > 0 => s \in edge
    BY <2>5, <2>6, Zenon DEF EventNotLost
  <2>8. EventNotLost'
    BY <2>4, <2>6, <2>7, Zenon DEF EventNotLost
  <2>9. NoSocketForgotten'
    BY <1>1, Zenon DEF Poll, NoSocketForgotten
  <2>. QED BY <2>8, <2>9, Zenon
<1>2. CASE BatchDone \/ CmdEmpty
  <2>1. pc \notin {"accept", "offer"} /\ pc # "exited"
    BY <1>2, Zenon DEF BatchDone, CmdEmpty
  <2>2. UNCHANGED <<registered, edge, backlog, batch, cur, backpressure, retry, paused>>
    BY <1>2, Zenon DEF BatchDone, CmdEmpty
  <2>. QED BY <2>1, <2>2, Zenon DEF NoSocketForgotten, EventNotLost
<1>3. CASE SocketEvent
  <2>1. \A s : s \in Range(batch) => s \in Range(batch') \/ cur' = s
    BY <1>3, NextEvent, Zenon DEF SocketEvent
  <2>2. pc \notin {"accept", "offer"} /\ pc # "exited" /\ pc' \in {"accept", "offer"}
    BY <1>3, Zenon DEF SocketEvent
  <2>3. UNCHANGED <<registered, edge, backlog, backpressure, retry, paused>>
    BY <1>3, Zenon DEF SocketEvent
  <2>. QED BY <2>1, <2>2, <2>3, Zenon DEF NoSocketForgotten, EventNotLost
<1>4. CASE NotifyEvent \/ TimerEvent \/ CmdEvent
  <2>1. batch # <<>> /\ batch' = Tail(batch) /\ UNCHANGED backlog /\ Head(batch) \in Events
    BY <1>4, Zenon DEF NotifyEvent, TimerEvent, CmdEvent, Events
  <2>2. \A s \in Sockets : s \in Range(batch) => s \in Range(batch')
    BY <1>0, <2>1, NextEvent, Zenon
  <2>3. pc \notin {"accept", "offer"} /\ pc # "exited"
    BY <1>4, Zenon DEF NotifyEvent, TimerEvent, CmdEvent
  <2>4. EventNotLost'
    <3>1. {s \in Sockets : retry[s] = "due"} \in SUBSET Sockets
      OBVIOUS
    <3>. QED BY <1>4, <2>1, <2>2, <2>3, <3>1, Registered, Zenon DEF NotifyEvent, TimerEvent,
         CmdEvent
  <2>5. CASE NotifyEvent
    BY <2>3, <2>4, <2>5, Zenon DEF NotifyEvent, BackpressureOff, Register, NoSocketForgotten
  <2>6. CASE TimerEvent
    <3>1. \A s \in Sockets : s \in registered \/ retry[s] # "none" =>
            s \in registered' \/ retry'[s] # "none"
      BY <2>6, Zenon DEF TimerEvent, Register
    <3>. QED BY <2>3, <2>4, <2>6, <3>1, Zenon DEF TimerEvent, NoSocketForgotten
  <2>7. CASE CmdEvent
    BY <2>3, <2>4, <2>7, Zenon DEF CmdEvent, NoSocketForgotten
  <2>. QED BY <1>4, <2>5, <2>6, <2>7, Zenon
<1>5. CASE CmdPause \/ CmdStop
  BY <1>a, <1>5, Zenon DEF CmdPause, CmdStop, Deregister, NoSocketForgotten
<1>6. CASE CmdResume \/ CmdWorker
  <2>1. pc \notin {"accept", "offer"} /\ pc # "exited"
    BY <1>6, Zenon DEF CmdResume, CmdWorker
  <2>2. EventNotLost'
    <3>1. Sockets \in SUBSET Sockets
      OBVIOUS
    <3>. QED BY <1>6, <2>1, <3>1, Registered, Zenon DEF CmdResume, CmdWorker
  <2>3. NoSocketForgotten'
    BY <1>6, <2>1, Zenon DEF CmdResume, CmdWorker, BackpressureOff, Register, NoSocketForgotten
  <2>. QED BY <2>2, <2>3, Zenon
<1>7. CASE AcceptNone
  <2>1. ~(backlog[cur] > 0) /\ pc # "exited"
    BY <1>7 DEF AcceptNone
  <2>2. UNCHANGED <<registered, edge, backlog, batch, backpressure, retry, paused>>
    BY <1>7, Zenon DEF AcceptNone
  <2>. QED BY <2>1, <2>2, Zenon DEF NoSocketForgotten, EventNotLost
<1>8. CASE AcceptConn \/ AcceptConnError
  <2>1. \A s \in Sockets : s = cur \/ backlog'[s] = backlog[s]
    BY <1>8, Zenon DEF AcceptConn, AcceptConnError, TypeOK
  <2>2. pc \in {"accept", "offer"} /\ pc' \in {"accept", "offer"} /\ pc # "exited"
    BY <1>8, Zenon DEF AcceptConn, AcceptConnError
  <2>3. UNCHANGED <<registered, edge, batch, cur, backpressure, retry, paused>>
    BY <1>8, Zenon DEF AcceptConn, AcceptConnError
  <2>. QED BY <1>0, <2>1, <2>2, <2>3, Zenon DEF NoSocketForgotten, EventNotLost
<1>9. CASE AcceptError
  <2>1. /\ registered' = registered \ {cur} /\ edge' = edge \ {cur}
        /\ UNCHANGED <<backlog, batch, backpressure, paused>> /\ pc = "accept" /\ pc' = "event"
    BY <1>9, Zenon DEF AcceptError, Deregister
  <2>2. \A s \in Sockets : IF s = cur THEN retry'[s] = "armed" ELSE retry'[s] = retry[s]
    BY <1>9, Zenon DEF AcceptError, TypeOK
  <2>3. EventNotLost'
    BY <2>1, Zenon DEF EventNotLost
  <2>4. NoSocketForgotten'
    BY <2>1, <2>2, Zenon DEF NoSocketForgotten
  <2>. QED BY <2>3, <2>4, Zenon
<1>10. CASE OfferAvailable \/ OfferUnavailable \/ OfferExhausted \/ OfferAnyway
  <2>1. /\ pc = "offer" /\ pc' \in {"accept", "offer"}
        /\ UNCHANGED <<backlog, batch, cur, retry, paused>>
        /\ \/ UNCHANGED <<registered, edge, backpressure>>
           \/ BackpressureOn
    BY <1>10, Zenon DEF OfferAvailable, OfferUnavailable, OfferExhausted, OfferAnyway, SendOk
  <2>2. CASE UNCHANGED <<registered, edge, backpressure>>
    <3>1. pc # "exited" /\ pc \in {"accept", "offer"}
      BY <2>1, Zenon
    <3>. QED BY <2>1, <2>2, <3>1, Zenon DEF NoSocketForgotten, EventNotLost
  <2>3. CASE BackpressureOn
    BY <1>a, <2>3, Zenon DEF BackpressureOn, Deregister, NoSocketForgotten
  <2>. QED BY <2>1, <2>2, <2>3, Zenon
<1>11. CASE HandlePauseResume \/ HandleStop \/ HandleFaulted \/ StopCompletes \/ UNCHANGED vars
  BY <1>11, SocketsIdle, Zenon DEF HandlePauseResume, HandleStop, HandleFaulted,
       StopCompletes, vars
<1>12. ASSUME NEW c \in AllOps, Ask(c) PROVE NoSocketForgotten' /\ EventNotLost'
  BY <1>12, SocketsIdle, Zenon DEF Ask
<1>13. ASSUME NEW s \in Sockets, Incoming(s) PROVE NoSocketForgotten' /\ EventNotLost'
  <2>1. \A t \in Sockets : t # s => backlog'[t] = backlog[t]
    BY <1>13, Zenon DEF Incoming, TypeOK
  <2>2. UNCHANGED <<registered, pc, batch, cur, backpressure, retry, paused>>
        /\ edge \subseteq edge' /\ (s \in registered => s \in edge')
    BY <1>13, Zenon DEF Incoming
  <2>. QED BY <1>0, <2>1, <2>2, Zenon DEF NoSocketForgotten, EventNotLost
<1>14. ASSUME NEW s \in Sockets, RetryTimer(s) PROVE NoSocketForgotten' /\ EventNotLost'
  <2>1. \A t \in Sockets : retry[t] # "none" => retry'[t] # "none"
    BY <1>14, Zenon DEF RetryTimer, TypeOK
  <2>2. UNCHANGED <<registered, edge, backlog, pc, batch, cur, backpressure, paused>>
    BY <1>14, Zenon DEF RetryTimer
  <2>. QED BY <2>1, <2>2, Zenon DEF NoSocketForgotten, EventNotLost
<1>15. ASSUME NEW w \in Workers,
              WorkerAvailable(w) \/ WorkerUnavailable(w) \/ WorkerDies(w) \/ WorkerStops(w)
       PROVE  NoSocketForgotten' /\ EventNotLost'
  BY <1>15, SocketsIdle, Zenon DEF WorkerAvailable, WorkerUnavailable, WorkerDies, WorkerStops
<1>. QED
  BY <1>1, <1>2, <1>3, <1>4, <1>5, <1>6, <1>7, <1>8, <1>9, <1>10, <1>11, <1>12, <1>13,
       <1>14, <1>15, Zenon DEF Next, AcceptStep, ServerStep

\* A server that has started.
LEMMA ServerInitInv ==
  ASSUME SetFacts, Init PROVE ServerInv
<1>1. Threads \in Nat \ {0} /\ 1..Threads \subseteq Workers /\ Workers \subseteq Nat
  BY ServerAssumption DEF SetFacts
<1>2. /\ list \in Seq(Workers) /\ workers = list /\ Len(list) = Threads /\ list # <<>>
      /\ DOMAIN list = 1..Threads /\ \A i \in 1..Threads : list[i] = i
  <2>1. list = [i \in 1..Threads |-> i] /\ workers = list
    BY Zenon DEF Init
  <2>2. list \in Seq(Workers) /\ Len(list) = Threads
    BY <1>1, <2>1
  <2>. QED BY <1>1, <2>1, <2>2, Zenon
<1>3. /\ readyQ = <<>> /\ batch = <<>> /\ acceptQ = <<>> /\ serverQ = <<>> /\ pc = "poll"
      /\ idx = 0 /\ next = 0 /\ backpressure = FALSE /\ paused = FALSE /\ conns = 0
      /\ registered = Sockets /\ edge = {} /\ backlog = [s \in Sockets |-> 0]
      /\ retry = [s \in Sockets |-> "none"]
  BY Zenon DEF Init
<1>4. TypeOK
  <2>1. /\ IsInjective(readyQ) /\ readyQ \in Seq(Events) /\ batch \in Seq(Sockets \cup Events)
        /\ acceptQ \in Seq(AcceptCommand) /\ serverQ \in Seq(ServerCommand)
    BY <1>3 DEF IsInjective
  <2>2. windex \in [Workers -> Nat] /\ idx \in Nat /\ idx <= Cardinality(Workers) /\ next \in Nat
    <3>1. \A w \in Workers : w - 1 \in Nat
      BY ServerAssumption DEF SetFacts
    <3>2. windex = [w \in Workers |-> w - 1]
      BY Zenon DEF Init
    <3>. QED BY <1>3, <3>1, <3>2 DEF SetFacts
  <2>3. /\ backlog \in [Sockets -> 0..MaxConns] /\ ops \in 0..MaxOps /\ conns \in 0..MaxConns
        /\ errors \in 0..MaxErrors /\ flips \in 0..MaxFlips
    BY Bounds DEF Init
  <2>4. /\ wst \in [Workers -> {"unused", "running", "stopping", "gone"}]
        /\ retry \in [Sockets -> {"none", "armed", "due"}]
        /\ pc \in {"poll", "event", "cmd", "accept", "offer", "exited"}
    BY Zenon DEF Init
  <2>5. exit \in BOOLEAN
    BY ServerAssumption, Zenon DEF Init
  <2>. QED BY <1>2, <1>3, <2>1, <2>2, <2>3, <2>4, <2>5, Zenon DEF TypeOK, Init
<1>5. ThreadInv
  BY <1>1, <1>2, <1>3 DEF ThreadInv, NextInRange
<1>6. PlaceInv
  <2>1. Range(workers) = 1..Threads
    BY <1>2 DEF Range
  <2>2. \A w \in 1..Threads : wst[w] = "running" /\ windex[w] = w - 1
    BY <1>1 DEF Init
  <2>3. \A i, j \in DOMAIN workers : windex[workers[i]] = windex[workers[j]] => i = j
    BY <1>1, <1>2, <2>2
  <2>4. IsInjective(list) /\ Range(list) \subseteq Range(workers)
    BY <1>2, Zenon DEF IsInjective
  <2>5. DOMAIN acceptQ = {} /\ DOMAIN serverQ = {}
    BY <1>3
  <2>. QED BY <2>1, <2>2, <2>3, <2>4, <2>5, Zenon DEF PlaceInv
<1>7. LiftInv
  BY <1>2, <1>3, Zenon DEF LiftInv
<1>8. NoSocketForgotten /\ EventNotLost
  BY <1>3 DEF NoSocketForgotten, EventNotLost
<1>. QED BY <1>4, <1>5, <1>6, <1>7, <1>8, Zenon DEF ServerInv

\* What the invariant says of the list of workers and of backpressure.
LEMMA ServerInvSound ==
  ASSUME ServerInv PROVE ServerSound
<1>1. FaultsNameTheDead
  <2>1. ASSUME NEW w \in Range(workers), NEW v \in Range(workers), windex[v] = windex[w]
        PROVE  v = w
    BY <2>1, Zenon DEF ServerInv, PlaceInv, Range
  <2>. QED BY <2>1, Zenon DEF ServerInv, PlaceInv, FaultsNameTheDead, IsFault, FaultOf
<1>2. BackpressureEnds
  BY Zenon DEF ServerInv, LiftInv, Lifting, BackpressureEnds
<1>. QED BY <1>1, <1>2, Zenon DEF ServerInv, ThreadInv, ServerSound, WorkerListSound,
     SocketsTended

-----------------------------------------------------------------------------
(* The facts about finite sets *)

FST == INSTANCE FiniteSetTheorems

\* The instance speaks of the same finite sets.
LEMMA SameSets ==
  \A S : (IsFiniteSet(S) <=> FST!IsFiniteSet(S)) /\ Cardinality(S) = FST!Cardinality(S)
BY Zenon DEF IsFiniteSet, FST!IsFiniteSet, Cardinality, FST!Cardinality

\* The size of an interval.
LEMMA Interval ==
  ASSUME NEW m \in Nat, NEW n \in Nat, m <= n + 1
  PROVE  FST!IsFiniteSet(m..n) /\ FST!Cardinality(m..n) = n - m + 1
BY FST!FS_Interval

\* A list without repetitions is no longer than there are workers.
LEMMA ListFits ==
  ASSUME NEW q \in Seq(Workers), IsInjective(q)
  PROVE  Len(q) <= Cardinality(Workers)
<1>1. Len(q) \in Nat /\ q \in [1..Len(q) -> Workers]
  OBVIOUS
<1>2. q \in FST!Injection(1..Len(q), Workers)
  BY <1>1, Zenon DEF IsInjective, FST!Injection, FST!IsInjective
<1>3. FST!IsFiniteSet(1..Len(q)) /\ FST!Cardinality(1..Len(q)) = Len(q)
  BY <1>1, Interval
<1>4. FST!IsFiniteSet(Workers)
  BY ServerAssumption, SameSets, Zenon
<1>5. FST!Cardinality(1..Len(q)) <= FST!Cardinality(Workers)
  BY <1>2, <1>4, FST!FS_Injection, Zenon
<1>. QED BY <1>3, <1>5, SameSets, Zenon

\* A non-empty set of numbers has a least one.
LEMMA Least ==
  ASSUME NEW S \in SUBSET Nat, S # {}
  PROVE  \E i \in S : \A j \in S : i <= j
<1>1. \E i \in S : \A j \in S : ~(<<j, i>> \in FST!OpToRel(<, Nat))
  BY FST!NatLessThanWellFounded, FST!WFMin, Zenon
<1>2. \A i, j \in Nat : ~(<<j, i>> \in FST!OpToRel(<, Nat)) => i <= j
  BY DEF FST!OpToRel
<1>. QED BY <1>1, <1>2, Zenon

\* Of n + 1 numbers, n indices leave one free.
LEMMA IndexLeft ==
  ASSUME NEW n \in Nat, NEW f \in [1..n -> Nat]
  PROVE  \E i \in n..(2 * n) : /\ \A k \in 1..n : f[k] # i
                               /\ \A j \in n..(i - 1) : \E k \in 1..n : f[k] = j
<1>. DEFINE free == {i \in n..(2 * n) : \A k \in 1..n : f[k] # i}
            used == {f[k] : k \in 1..n}
<1>1. FST!IsFiniteSet(used) /\ FST!Cardinality(used) <= n
  <2>1. f \in FST!Surjection(1..n, used)
    BY Zenon DEF FST!Surjection
  <2>2. FST!IsFiniteSet(1..n) /\ FST!Cardinality(1..n) = n
    BY Interval
  <2>. QED BY <2>1, <2>2, FST!FS_Surjection
<1>2. FST!IsFiniteSet(n..(2 * n)) /\ FST!Cardinality(n..(2 * n)) = n + 1
  BY Interval
<1>3. free # {}
  <2>. SUFFICES ASSUME free = {} PROVE FALSE
    OBVIOUS
  <2>1. n..(2 * n) \subseteq used
    OBVIOUS
  <2>2. FST!Cardinality(n..(2 * n)) <= FST!Cardinality(used)
    BY <1>1, <2>1, FST!FS_Subset, Zenon
  <2>3. FST!Cardinality(used) \in Nat
    BY <1>1, FST!FS_CardinalityType, Zenon
  <2>. QED BY <1>1, <1>2, <2>2, <2>3
<1>4. free \subseteq Nat
  OBVIOUS
<1>5. PICK i \in free : \A j \in free : i <= j
  BY <1>3, <1>4, Least, Zenon
<1>6. ASSUME NEW j \in n..(i - 1) PROVE \E k \in 1..n : f[k] = j
  <2>1. j \in n..(2 * n) /\ j \notin free
    BY <1>4, <1>5
  <2>. QED BY <2>1, Zenon
<1>. QED BY <1>5, <1>6, Zenon

\* The hypothesis of the steps.
LEMMA FiniteSetFacts == SetFacts
<1>1. Cardinality(Workers) \in Nat
  BY ServerAssumption, SameSets, FST!FS_CardinalityType, Zenon
<1>2. ASSUME NEW S \in SUBSET Sockets PROVE Cardinality(S) \in Nat
  BY ServerAssumption, SameSets, FST!FS_Subset, FST!FS_CardinalityType, Zenon
<1>. QED BY <1>1, <1>2, ListFits, IndexLeft, Zenon DEF SetFacts

(***************************************************************************)
(* The cursor of accept_one stays within the list, a WorkerFaulted names   *)
(* one worker, which is gone, backpressure always has something on its way *)
(* that lifts it, no socket stays deregistered and no event of a socket is *)
(* lost, for any number of sockets, workers, connections, errors and       *)
(* commands: accept.rs and builder.rs.                                     *)
(***************************************************************************)
THEOREM ServerCorrect == Spec => []ServerSound
<1>1. Init => ServerInv
  BY FiniteSetFacts, ServerInitInv, Zenon
<1>2. ServerInv /\ [Next]_vars => ServerInv'
  BY FiniteSetFacts, TypeStep, ThreadStep, PlaceStep, LiftStep, SocketStep, Zenon DEF ServerInv
<1>3. ServerInv => ServerSound
  BY ServerInvSound, Zenon
<1>. QED BY <1>1, <1>2, <1>3, PTL DEF Spec
=============================================================================
