--------------------------- MODULE ArbiterSystem ---------------------------
(***************************************************************************)
(* The System and its Arbiters (src/fiber/arbiter.rs, system.rs and the    *)
(* runners of builder.rs).  An arbiter is a thread with a LocalSet and an  *)
(* ArbiterController that executes the commands sent to it; the System     *)
(* thread has such a controller too, next to the SystemArbiter that keeps  *)
(* the registry of arbiters and ends the system.                           *)
(*                                                                         *)
(* A controller takes one command per step.  While it has commands it      *)
(* keeps its thread, so the thread neither returns from block_on nor polls *)
(* another fiber; the other threads go on sending.                         *)
(***************************************************************************)
EXTENDS Integers, Sequences, Functions, TLAPS

CONSTANTS
  Arbs,         \* ids that COUNT hands to Arbiter::new, from 1 on
  Jobs,         \* futures and functions, numbered in the order they are sent
  Codes,        \* exit codes given to System::stop_with_code
  Modes,        \* how the program may use the runner.  "run": SystemRunner::run
                \* ends it; "drop": only block_on is used; "async":
                \* System::run_in_fiber in the user's LocalSet
  StopOnPanic,  \* Builder::stop_on_panic
  MaxStops, MaxExits, MaxBlocks  \* bounds on the user's calls

Sys == 0
Threads == Arbs \cup {Sys}
NoCode == -1

ASSUME ArbiterAssumption ==
  /\ Arbs \subseteq Nat \ {Sys} /\ Jobs \subseteq Nat \ {0} /\ Codes \subseteq Nat
  /\ Modes \subseteq {"run", "drop", "async"} /\ StopOnPanic \in BOOLEAN
  /\ MaxStops \in Nat /\ MaxExits \in Nat /\ MaxBlocks \in Nat

VARIABLES
  arb,       \* thread of each arbiter: "none", "starting", "running", "done"
  ctl,       \* ArbiterController: "none", "boxed" outside a LocalSet, "live", "gone"
  q,         \* commands sent to each controller
  polling,   \* the controller that keeps the thread: "none", "arbiter", "system"
  mode,      \* the one of Modes that this program has chosen
  rt,        \* runner: "built", "block_on", "running", "stopped"
  running,   \* RUNNING of the System's thread
  parked,    \* Q of the System's thread: jobs, and Sys for the controller
  sysq,      \* SystemCommands
  sysOpen,   \* the SystemArbiter, their receiver, exists
  arbiters,  \* its registry
  code,      \* sent to the runner through SystemArbiter::stop
  job,       \* what became of each job
  kind, at,  \* how it was given to an arbiter, and the thread of that arbiter
  forgotten, \* jobs whose exec future was dropped before its answer
  stops, exits, blocks,  \* calls made so far
  stopSent,  \* history: controllers that were sent a Stop
  late,      \* history: jobs sent to a controller after a Stop
  firstExit  \* history: the first code that reached sysq

runner == <<mode, rt, running, parked, blocks>>
system == <<sysq, sysOpen, arbiters, code, firstExit>>
given == <<kind, at, forgotten, late>>
vars == <<arb, ctl, q, polling, runner, system, job, given, stops, exits, stopSent>>

\* The LocalSet of a thread is being polled.
Executing(t) ==
  IF t = Sys THEN mode = "async" \/ rt \in {"block_on", "running"}
             ELSE arb[t] = "running"

Receiving(t) == ctl[t] \in {"boxed", "live"}
Free(t) == Executing(t) /\ polling[t] = "none"

NextJob(j) == job[j] = "new" /\ \A i \in Jobs : i < j => job[i] # "new"

\* ArbiterCommand: Stop, or the job that Execute and ExecuteFn carry.
Stop == 0
Command == {Stop} \cup Jobs

Init ==
  /\ arb = [a \in Arbs |-> "none"]
  /\ ctl = [t \in Threads |-> IF t = Sys THEN "boxed" ELSE "none"]
  /\ q = [t \in Threads |-> <<>>] /\ polling = [t \in Threads |-> "none"]
  /\ mode \in Modes /\ rt = "built" /\ running = FALSE /\ parked = <<Sys>> /\ blocks = 0
  /\ sysq = <<>> /\ sysOpen = TRUE /\ arbiters = {} /\ code = NoCode
  /\ job = [j \in Jobs |-> "new"] /\ kind = [j \in Jobs |-> "none"]
  /\ at = [j \in Jobs |-> Sys] /\ forgotten = {} /\ late = {}
  /\ stops = 0 /\ exits = 0 /\ stopSent = {} /\ firstExit = NoCode
-----------------------------------------------------------------------------
(* The user's calls, from any thread.                                      *)

\* Arbiter::send, exec_fn and exec.  A command that cannot be sent is dropped.
Send(t, j, k) ==
  /\ NextJob(j) /\ ctl[t] # "none"
  /\ job' = [job EXCEPT ![j] = IF Receiving(t) THEN "queued" ELSE "canceled"]
  /\ kind' = [kind EXCEPT ![j] = k] /\ at' = [at EXCEPT ![j] = t]
  /\ late' = IF t \in stopSent THEN late \cup {j} ELSE late
  /\ q' = IF Receiving(t) THEN [q EXCEPT ![t] = Append(@, j)] ELSE q
  /\ UNCHANGED <<arb, ctl, polling, runner, system, forgotten, stops, exits, stopSent>>

\* The future that exec returned is dropped.
ForgetExec(j) ==
  /\ kind[j] = "exec" /\ job[j] = "queued" /\ j \notin forgotten
  /\ forgotten' = forgotten \cup {j}
  /\ UNCHANGED <<arb, ctl, q, polling, runner, system, job, kind, at, late, stops,
                 exits, stopSent>>

\* Arbiter::spawn, called on thread t.
Spawn(t, j) ==
  /\ NextJob(j) /\ (t = Sys \/ Executing(t))
  /\ LET now == t # Sys \/ running IN
     /\ job' = [job EXCEPT ![j] = IF now THEN "spawned" ELSE "parked"]
     /\ parked' = IF now THEN parked ELSE Append(parked, j)
  /\ kind' = [kind EXCEPT ![j] = "spawn"] /\ at' = [at EXCEPT ![j] = t]
  /\ UNCHANGED <<arb, ctl, q, polling, mode, rt, running, blocks, system, forgotten,
                 late, stops, exits, stopSent>>

\* Arbiter::stop, for the arbiters in S.
SendStop(S) ==
  LET told == {t \in S : Receiving(t)} IN
  /\ q' = [t \in Threads |-> IF t \in told THEN Append(q[t], Stop) ELSE q[t]]
  /\ stopSent' = stopSent \cup told

StopArbiter(t) ==
  /\ ctl[t] # "none" /\ stops < MaxStops
  /\ stops' = stops + 1 /\ SendStop({t})
  /\ UNCHANGED <<arb, ctl, polling, runner, system, job, given, exits>>

\* System::current().sys().unbounded_send
SendSystem(cmd) ==
  /\ sysq' = IF sysOpen THEN Append(sysq, cmd) ELSE sysq
  /\ firstExit' = IF sysOpen /\ cmd.op = "Exit" /\ firstExit = NoCode
                  THEN cmd.arg ELSE firstExit

\* System::stop_with_code
StopSystem(c) ==
  /\ exits < MaxExits /\ exits' = exits + 1
  /\ SendSystem([op |-> "Exit", arg |-> c])
  /\ UNCHANGED <<arb, ctl, q, polling, runner, sysOpen, arbiters, code, job, given,
                 stops, stopSent>>

\* Arbiter::new, up to the spawn of its thread.
NewArbiter(a) ==
  /\ arb[a] = "none" /\ \A b \in Arbs : b < a => arb[b] # "none"
  /\ arb' = [arb EXCEPT ![a] = "starting"]
  /\ ctl' = [ctl EXCEPT ![a] = "boxed"]
  /\ UNCHANGED <<q, polling, runner, system, job, given, stops, exits, stopSent>>
-----------------------------------------------------------------------------
(* An arbiter's thread, and the ArbiterController of any thread.           *)

\* The thread spawns its controller and registers with the System.
Start(a) ==
  /\ arb[a] = "starting"
  /\ arb' = [arb EXCEPT ![a] = "running"] /\ ctl' = [ctl EXCEPT ![a] = "live"]
  /\ SendSystem([op |-> "Register", arg |-> a])
  /\ UNCHANGED <<q, polling, runner, sysOpen, arbiters, code, job, given, stops,
                 exits, stopSent>>

\* ArbiterController::poll has a command to read.
WakeController(t) ==
  /\ Free(t) /\ ctl[t] = "live" /\ q[t] # <<>>
  /\ polling' = [polling EXCEPT ![t] = "arbiter"]
  /\ UNCHANGED <<arb, ctl, q, runner, system, job, given, stops, exits, stopSent>>

Reads(t) == polling[t] = "arbiter" /\ q[t] # <<>>

\* The jobs after controller t and its receiver are dropped, j having ended as st.
AfterDrop(t, j, st) ==
  [i \in Jobs |-> IF i = j THEN st
                  ELSE IF at[i] = t /\ job[i] = "queued" THEN "canceled" ELSE job[i]]

\* ArbiterCommand::Stop; a job sent after it is canceled with the receiver.
TakeStop(t) ==
  /\ Reads(t) /\ Head(q[t]) = Stop
  /\ ctl' = [ctl EXCEPT ![t] = "gone"] /\ q' = [q EXCEPT ![t] = <<>>]
  /\ polling' = [polling EXCEPT ![t] = "none"]
  /\ job' = AfterDrop(t, Stop, "")
  /\ UNCHANGED <<arb, runner, system, given, stops, exits, stopSent>>

\* ArbiterCommand::Execute spawns the future, ExecuteFn calls the function.
TakeJob(t) ==
  /\ Reads(t) /\ Head(q[t]) # Stop
  /\ LET j == Head(q[t]) IN
     job' = [job EXCEPT ![j] = IF kind[j] = "send" THEN "spawned"
                               ELSE IF j \in forgotten THEN "skipped" ELSE "ran"]
  /\ q' = [q EXCEPT ![t] = Tail(@)]
  /\ UNCHANGED <<arb, ctl, polling, runner, system, given, stops, exits, stopSent>>

\* The function panics, and the unwinding drops the controller.
JobPanics(t) ==
  /\ Reads(t) /\ Head(q[t]) # Stop
  /\ LET j == Head(q[t]) IN
     /\ kind[j] # "send" /\ j \notin forgotten
     /\ job' = AfterDrop(t, j, "panicked")
  /\ ctl' = [ctl EXCEPT ![t] = "gone"] /\ q' = [q EXCEPT ![t] = <<>>]
  /\ polling' = [polling EXCEPT ![t] = "none"]
  /\ IF StopOnPanic THEN SendSystem([op |-> "Exit", arg |-> 1])
                    ELSE UNCHANGED <<sysq, firstExit>>
  /\ UNCHANGED <<arb, runner, sysOpen, arbiters, code, given, stops, exits, stopSent>>

ControllerPending(t) ==
  /\ polling[t] = "arbiter" /\ q[t] = <<>>
  /\ polling' = [polling EXCEPT ![t] = "none"]
  /\ UNCHANGED <<arb, ctl, q, runner, system, job, given, stops, exits, stopSent>>

\* A spawned future completes or panics; the fiber's harness catches the panic.
RunFiber(j, st) ==
  /\ job[j] = "spawned" /\ Free(at[j])
  /\ job' = [job EXCEPT ![j] = st]
  /\ UNCHANGED <<arb, ctl, q, polling, runner, system, given, stops, exits, stopSent>>

\* The jobs after the LocalSet of thread t is dropped with what it holds.
DropLocalSet(t) ==
  [j \in Jobs |->
     IF at[j] = t /\ (job[j] = "spawned" \/ (job[j] = "queued" /\ ctl[t] # "boxed"))
     THEN "canceled" ELSE job[j]]

\* Mutant: a finished arbiter stays registered.
M_EndSilent(a) ==
  /\ Free(a) /\ ctl[a] = "gone"
  /\ arb' = [arb EXCEPT ![a] = "done"] /\ job' = DropLocalSet(a)
  /\ UNCHANGED <<ctl, q, polling, runner, system, given, stops, exits, stopSent>>

\* block_on(stop_rx) returns since the controller, and stop with it, is gone.
End(a) ==
  /\ Free(a) /\ ctl[a] = "gone"
  /\ SendSystem([op |-> "Unregister", arg |-> a])
  /\ arb' = [arb EXCEPT ![a] = "done"] /\ job' = DropLocalSet(a)
  /\ UNCHANGED <<ctl, q, polling, runner, sysOpen, arbiters, code, given, stops,
                 exits, stopSent>>
-----------------------------------------------------------------------------
(* The SystemArbiter.                                                      *)

WakeSystem ==
  /\ Free(Sys) /\ sysOpen /\ sysq # <<>>
  /\ polling' = [polling EXCEPT ![Sys] = "system"]
  /\ UNCHANGED <<arb, ctl, q, runner, system, job, given, stops, exits, stopSent>>

SysReads(op) ==
  /\ polling[Sys] = "system" /\ sysq # <<>> /\ Head(sysq).op = op
  /\ sysq' = Tail(sysq)
  /\ UNCHANGED <<arb, ctl, polling, runner, sysOpen, firstExit, job, given,
                 stops, exits>>

\* Mutant: only the event loop of the System is stopped.
M_SysExitAlone ==
  /\ SysReads("Exit")
  /\ code' = IF code = NoCode THEN Head(sysq).arg ELSE code
  /\ UNCHANGED <<arbiters, q, stopSent>>

SysExit ==
  /\ SysReads("Exit") /\ SendStop(arbiters)
  /\ code' = IF code = NoCode THEN Head(sysq).arg ELSE code
  /\ UNCHANGED arbiters

SysRegister ==
  /\ SysReads("Register") /\ arbiters' = arbiters \cup {Head(sysq).arg}
  /\ UNCHANGED <<q, stopSent, code>>

SysUnregister ==
  /\ SysReads("Unregister") /\ arbiters' = arbiters \ {Head(sysq).arg}
  /\ UNCHANGED <<q, stopSent, code>>

SystemPending ==
  /\ polling[Sys] = "system" /\ sysq = <<>>
  /\ polling' = [polling EXCEPT ![Sys] = "none"]
  /\ UNCHANGED <<arb, ctl, q, runner, system, job, given, stops, exits, stopSent>>
-----------------------------------------------------------------------------
(* The runners.                                                            *)

\* Arbiter::run_system: what was spawned too early goes to the LocalSet.
RunSystem(next) ==
  /\ rt' = next /\ running' = TRUE /\ parked' = <<>>
  /\ job' = [j \in Jobs |-> IF job[j] = "parked" THEN "spawned" ELSE job[j]]
  /\ ctl' = IF Sys \in Range(parked) THEN [ctl EXCEPT ![Sys] = "live"] ELSE ctl
  /\ UNCHANGED <<mode, arb, q, polling, system, given, stops, exits, stopSent>>

\* SystemRunner::run, AsyncSystemRunner::run_nonblocking
Run ==
  /\ mode # "drop" /\ rt = "built" /\ polling[Sys] = "none"
  /\ RunSystem("running") /\ UNCHANGED blocks

\* SystemRunner::block_on
BlockOn ==
  /\ mode # "async" /\ rt = "built" /\ blocks < MaxBlocks
  /\ blocks' = blocks + 1 /\ RunSystem("block_on")

BlockOnReturns ==
  /\ rt = "block_on" /\ polling[Sys] = "none"
  /\ rt' = "built" /\ running' = FALSE
  /\ UNCHANGED <<arb, ctl, q, mode, polling, parked, blocks, system, job, given,
                 stops, exits, stopSent>>

\* The runtime is dropped: SystemArbiter, controller and fibers go with it.
DropRuntime ==
  /\ sysOpen' = FALSE /\ sysq' = <<>> /\ arbiters' = {}
  /\ job' = DropLocalSet(Sys)
  /\ IF ctl[Sys] = "boxed" THEN UNCHANGED <<ctl, q>>
     ELSE ctl' = [ctl EXCEPT ![Sys] = "gone"] /\ q' = [q EXCEPT ![Sys] = <<>>]

\* The stop channel has the code; only a SystemRunner owns its LocalSet.
RunReturns ==
  /\ rt = "running" /\ polling[Sys] = "none" /\ code # NoCode
  /\ rt' = "stopped" /\ running' = FALSE
  /\ IF mode = "async" THEN UNCHANGED <<ctl, q, sysq, sysOpen, arbiters, job>>
                         ELSE DropRuntime
  /\ UNCHANGED <<arb, mode, polling, parked, blocks, code, firstExit, given, stops,
                 exits, stopSent>>

\* The SystemRunner is dropped after its last block_on.
DropRunner ==
  /\ mode = "drop" /\ rt = "built"
  /\ rt' = "stopped" /\ DropRuntime
  /\ UNCHANGED <<arb, mode, polling, running, parked, blocks, code, firstExit, given,
                 stops, exits, stopSent>>
-----------------------------------------------------------------------------
Calls ==
  \/ \E t \in Threads, j \in Jobs :
       Spawn(t, j) \/ \E k \in {"send", "exec"} : Send(t, j, k)
  \/ \E j \in Jobs : ForgetExec(j)
  \/ \E t \in Threads : StopArbiter(t)
  \/ \E c \in Codes : StopSystem(c)
  \/ \E a \in Arbs : NewArbiter(a)

Controller(t) ==
  WakeController(t) \/ TakeStop(t) \/ TakeJob(t) \/ JobPanics(t) \/ ControllerPending(t)
SystemArbiter ==
  WakeSystem \/ SysExit \/ SysRegister \/ SysUnregister \/ SystemPending

Next ==
  \/ Calls
  \/ \E t \in Threads : Controller(t)
  \/ \E a \in Arbs : Start(a) \/ End(a)
  \/ \E j \in Jobs, st \in {"ran", "panicked"} : RunFiber(j, st)
  \/ SystemArbiter
  \/ Run \/ BlockOn \/ BlockOnReturns \/ RunReturns \/ DropRunner

Spec == Init /\ [][Next]_vars

(* Threads that are started run; a woken fiber is polled although others on *)
(* its thread are ready as well (SF: they take turns); the runner is        *)
(* must_use and gets run.  Nothing is assumed of the user's other calls.    *)
FairSpec ==
  /\ Spec /\ \A a \in Arbs : WF_vars(Start(a)) /\ WF_vars(End(a))
  /\ \A t \in Threads : SF_vars(Controller(t))
  /\ SF_vars(SystemArbiter)
  /\ WF_vars(Run) /\ WF_vars(RunReturns) /\ WF_vars(DropRunner)
-----------------------------------------------------------------------------
SystemCommand ==
  [op : {"Exit"}, arg : Codes \cup {1}] \cup [op : {"Register", "Unregister"}, arg : Arbs]
Outcome == {"new", "queued", "parked", "spawned", "ran", "skipped", "panicked", "canceled"}

BoolOK == running \in BOOLEAN /\ sysOpen \in BOOLEAN

TypeOK ==
  /\ BoolOK
  /\ arb \in [Arbs -> {"none", "starting", "running", "done"}]
  /\ ctl \in [Threads -> {"none", "boxed", "live", "gone"}]
  /\ q \in [Threads -> Seq(Command)] /\ polling \in [Threads -> {"none", "arbiter", "system"}]
  /\ mode \in Modes /\ rt \in {"built", "block_on", "running", "stopped"}
  /\ parked \in Seq(Jobs \cup {Sys}) /\ blocks \in 0..MaxBlocks
  /\ sysq \in Seq(SystemCommand) /\ arbiters \subseteq Arbs
  /\ code \in Codes \cup {NoCode, 1} /\ firstExit \in Codes \cup {NoCode, 1}
  /\ job \in [Jobs -> Outcome] /\ kind \in [Jobs -> {"none", "send", "exec", "spawn"}]
  /\ at \in [Jobs -> Threads] /\ forgotten \subseteq Jobs /\ late \subseteq Jobs
  /\ stops \in 0..MaxStops /\ exits \in 0..MaxExits /\ stopSent \subseteq Threads

Pending(op, a) == \E i \in 1..Len(sysq) : sysq[i].op = op /\ sysq[i].arg = a

(* The registry of SystemArbiter, together with the commands it has not    *)
(* read, is right about every thread: a running arbiter is registered or   *)
(* about to be, and a finished one is not or is about to be removed.  An   *)
(* Unregister that overtook its Register would leave a dead entry.         *)
RegistryHonest ==
  sysOpen => \A a \in Arbs :
    /\ arb[a] = "running" => a \in arbiters \/ Pending("Register", a)
    /\ arb[a] = "done" /\ (a \in arbiters \/ Pending("Register", a))
         => Pending("Unregister", a)

(* The runner returns the code of the first stop_with_code that reached    *)
(* the system, whatever stops and panics follow (stop.take()).             *)
FirstExitWins == code # NoCode => code = firstExit

(* Arbiter::stop is a barrier: what is sent after it is never executed,    *)
(* not even while the thread still winds down.                             *)
NothingAfterStop ==
  \A j \in late : job[j] \in {"queued", "canceled"}

(* exec resolves to Canceled only if the arbiter can execute nothing any   *)
(* more: its controller has been dropped.                                  *)
CanceledMeansGone ==
  \A j \in Jobs : kind[j] = "exec" /\ job[j] = "canceled" => ctl[at[j]] = "gone"

(* RUNNING tells Arbiter::spawn that a LocalSet is current (spawn_local    *)
(* panics otherwise), and whatever was spawned before it was set has been  *)
(* handed over.                                                            *)
RunningMeansExecuting == running => Executing(Sys) /\ parked = <<>>

(* What the system knows of its arbiters, and what it returns in the end.  *)
SystemSound == TypeOK /\ RegistryHonest /\ FirstExitWins

(* What callers are told of their jobs is so, however stops, panics and    *)
(* nested block_ons interleave with the sends.                             *)
JobsTruthful == NothingAfterStop /\ CanceledMeansGone /\ RunningMeansExecuting

(* Every exec is answered, with a result or with Canceled, whatever stops, *)
(* panics and exits come in between; the one exception is a system that is *)
(* dropped without ever having been run.                                   *)
ExecAnswered ==
  \A j \in Jobs : job[j] = "queued"
    ~> (job[j] # "queued" \/ (rt = "stopped" /\ ctl[Sys] = "boxed"))

(* An arbiter that was sent a Stop ends, so join() on it returns.          *)
StopEndsArbiter == \A a \in Arbs : a \in stopSent ~> arb[a] = "done"

(* An Exit that the SystemArbiter reads ends every arbiter in its registry,*)
(* also when the runner returns and drops the registry right after it.     *)
ExitStopsRegistered ==
  \A a \in Arbs :
    (a \in arbiters /\ polling[Sys] = "system" /\ sysq # <<>> /\ Head(sysq).op = "Exit")
      ~> arb[a] = "done"

(* Threads that were told to end do, by whoever told them.                 *)
ThreadsEnd == StopEndsArbiter /\ ExitStopsRegistered

\* The registry is right, the first exit code wins, and callers are told the truth.
ArbiterSound == SystemSound /\ JobsTruthful
\* Every exec is answered, and threads that were told to end do.
ArbiterProgress == ExecAnswered /\ ThreadsEnd
-----------------------------------------------------------------------------
(***************************************************************************)
(* ArbiterSound for any arbiters, jobs, codes and bounds.  The inductive   *)
(* invariant says where the controller of each thread is, what the queues  *)
(* of commands say about the jobs in them, and in which order the          *)
(* SystemCommands that matter to each other are.                           *)
(***************************************************************************)
ThreadInv ==
  /\ \A a \in Arbs : /\ arb[a] = "none" <=> ctl[a] = "none"
                     /\ arb[a] = "starting" <=> ctl[a] = "boxed"
  /\ ctl[Sys] # "none" /\ (Sys \in Range(parked) => ctl[Sys] = "boxed")
  /\ \A t \in Threads : /\ polling[t] # "none" => Executing(t)
                        /\ polling[t] = "arbiter" => ctl[t] = "live"
  /\ running => rt \in {"block_on", "running"} /\ parked = <<>>

\* A job in a queue is one of the queue's thread, is there once, and comes after a Stop if
\* it is late.
InOrder(t, i) ==
  q[t][i] # Stop =>
    /\ at[q[t][i]] = t /\ job[q[t][i]] = "queued"
    /\ q[t][i] \in late => \E k \in 1..(i - 1) : q[t][k] = Stop
    /\ \A k \in 1..(i - 1) : q[t][k] # q[t][i]

QueueInv ==
  /\ \A t \in Threads : ctl[t] = "gone" => q[t] = <<>>
  /\ \A t \in Threads : \A i \in 1..Len(q[t]) : InOrder(t, i)
  /\ \A t \in stopSent : /\ ctl[t] # "none"
                         /\ Receiving(t) => \E k \in 1..Len(q[t]) : q[t][k] = Stop

JobInv ==
  /\ NothingAfterStop /\ CanceledMeansGone
  /\ \A j \in Jobs : kind[j] = "exec" => job[j] \notin {"parked", "spawned"}

\* An Unregister is sent at the end of its thread, and never before the Register.
RegisteredFirst ==
  \A i, k \in 1..Len(sysq) :
    sysq[i].op = "Unregister" /\ sysq[k].op = "Register" /\ sysq[i].arg = sysq[k].arg => k < i

RegistryInv ==
  /\ RegistryHonest /\ RegisteredFirst
  /\ \A a \in Arbs : Pending("Unregister", a) => arb[a] = "done"

\* The first Exit of the queue is the first of all until one has been read.
ExitInv ==
  /\ FirstExitWins /\ (sysq # <<>> => sysOpen)
  /\ firstExit = NoCode => code = NoCode /\ \A i \in 1..Len(sysq) : sysq[i].op # "Exit"
  /\ sysOpen /\ code = NoCode /\ firstExit # NoCode =>
       \E i \in 1..Len(sysq) : /\ sysq[i].op = "Exit" /\ sysq[i].arg = firstExit
                               /\ \A k \in 1..(i - 1) : sysq[k].op # "Exit"

ArbiterInv == TypeOK /\ ThreadInv /\ QueueInv /\ JobInv /\ RegistryInv /\ ExitInv

LEMMA AppendAt ==
  ASSUME NEW S, NEW s \in Seq(S), NEW e \in S
  PROVE  /\ Append(s, e) \in Seq(S) /\ Len(s) \in Nat /\ Len(Append(s, e)) = Len(s) + 1
         /\ \A i \in 1..Len(s) : Append(s, e)[i] = s[i]
         /\ Append(s, e)[Len(s) + 1] = e
OBVIOUS

LEMMA TailAt ==
  ASSUME NEW S, NEW s \in Seq(S), s # <<>>
  PROVE  /\ Tail(s) \in Seq(S) /\ Len(s) \in Nat \ {0} /\ Len(Tail(s)) = Len(s) - 1
         /\ Head(s) = s[1] /\ Head(s) \in S
         /\ \A i \in 1..Len(Tail(s)) : Tail(s)[i] = s[i + 1]
OBVIOUS

LEMMA ElementAt ==
  ASSUME NEW S, NEW s \in Seq(S) PROVE Len(s) \in Nat /\ \A i \in 1..Len(s) : s[i] \in S
OBVIOUS

LEMMA EmptyAt == ASSUME NEW S PROVE <<>> \in Seq(S) /\ Len(<<>>) = 0
OBVIOUS

\* What Arbiter::stop leaves in the queues.
LEMMA StopsSent ==
  ASSUME TypeOK, NEW S \in SUBSET Threads, SendStop(S)
  PROVE  q' \in [Threads -> Seq(Command)] /\ stopSent' \subseteq Threads
<1>1. \A t \in Threads : q[t] \in Seq(Command) /\ Append(q[t], Stop) \in Seq(Command)
  BY AppendAt, Zenon DEF TypeOK, Command
<1> QED BY <1>1, Zenon DEF SendStop, TypeOK

LEMMA SystemSent ==
  ASSUME TypeOK, NEW cmd \in SystemCommand, SendSystem(cmd)
  PROVE  sysq' \in Seq(SystemCommand) /\ firstExit' \in Codes \cup {NoCode, 1}
<1>1. Append(sysq, cmd) \in Seq(SystemCommand)
  BY AppendAt, Zenon DEF TypeOK
<1>2. sysq' \in Seq(SystemCommand)
  BY <1>1, Zenon DEF TypeOK, SendSystem
<1>3. cmd.op = "Exit" => cmd.arg \in Codes \cup {1}
  BY Zenon DEF SystemCommand
<1> QED BY <1>2, <1>3, Zenon DEF TypeOK, SendSystem

LEMMA SystemRead ==
  ASSUME TypeOK, sysq # <<>>, sysq' = Tail(sysq)
  PROVE  /\ sysq' \in Seq(SystemCommand) /\ Head(sysq) \in SystemCommand
         /\ Head(sysq).op = "Exit" => Head(sysq).arg \in Codes \cup {1}
         /\ Head(sysq).op # "Exit" => Head(sysq).arg \in Arbs
<1>1. sysq' \in Seq(SystemCommand) /\ Head(sysq) \in SystemCommand
  BY TailAt, Zenon DEF TypeOK
<1> QED BY <1>1, Zenon DEF SystemCommand

\* Every step keeps the types.
LEMMA TypeStep ==
  ASSUME TypeOK, [Next]_vars PROVE TypeOK'
<1>1. ASSUME NEW t \in Threads, NEW j \in Jobs, Spawn(t, j) PROVE TypeOK'
  <2>1. BoolOK'
    BY <1>1, Zenon DEF Spawn, TypeOK, BoolOK, runner, system, given
  <2>2. parked' \in Seq(Jobs \cup {Sys})
    <3>1. Append(parked, j) \in Seq(Jobs \cup {Sys})
      BY AppendAt, Zenon DEF TypeOK
    <3> QED BY <1>1, <3>1, Zenon DEF Spawn, TypeOK
  <2> QED BY <1>1, <2>1, <2>2, Zenon DEF Spawn, TypeOK, runner, system, given, Outcome
<1>2. ASSUME NEW t \in Threads, NEW j \in Jobs, NEW k \in {"send", "exec"}, Send(t, j, k) PROVE
             TypeOK'
  <2>1. BoolOK'
    BY <1>2, Zenon DEF Send, TypeOK, BoolOK, runner, system, given
  <2>2. q' \in [Threads -> Seq(Command)]
    <3>1. q[t] \in Seq(Command) /\ Append(q[t], j) \in Seq(Command)
      BY AppendAt, Zenon DEF TypeOK, Command
    <3> QED BY <1>2, <3>1, Zenon DEF Send, TypeOK
  <2> QED BY <1>2, <2>1, <2>2, Zenon DEF Send, TypeOK, runner, system, given, Outcome
<1>3. ASSUME NEW j \in Jobs, ForgetExec(j) PROVE TypeOK'
  <2>1. BoolOK'
    BY <1>3, Zenon DEF ForgetExec, TypeOK, BoolOK, runner, system, given
  <2> QED BY <1>3, <2>1, Zenon DEF ForgetExec, TypeOK, runner, system, given
<1>4. ASSUME NEW t \in Threads, StopArbiter(t) PROVE TypeOK'
  <2>1. BoolOK'
    BY <1>4, Zenon DEF StopArbiter, TypeOK, BoolOK, runner, system, given
  <2>2. q' \in [Threads -> Seq(Command)] /\ stopSent' \subseteq Threads
    BY <1>4, StopsSent, Zenon DEF StopArbiter
  <2>3. stops' \in 0..MaxStops
    BY <1>4, ArbiterAssumption DEF StopArbiter, TypeOK
  <2> QED BY <1>4, <2>1, <2>2, <2>3, Zenon DEF StopArbiter, TypeOK, runner, system, given
<1>5. ASSUME NEW c \in Codes, StopSystem(c) PROVE TypeOK'
  <2>1. BoolOK'
    BY <1>5, Zenon DEF StopSystem, TypeOK, BoolOK, runner, system, given
  <2>2. [op |-> "Exit", arg |-> c] \in SystemCommand
    BY Zenon DEF SystemCommand
  <2>3. sysq' \in Seq(SystemCommand) /\ firstExit' \in Codes \cup {NoCode, 1}
    BY <1>5, <2>2, SystemSent, Zenon DEF StopSystem
  <2>4. exits' \in 0..MaxExits
    BY <1>5, ArbiterAssumption DEF StopSystem, TypeOK
  <2> QED BY <1>5, <2>1, <2>3, <2>4, Zenon DEF StopSystem, TypeOK, runner, system, given
<1>6. ASSUME NEW a \in Arbs, NewArbiter(a) PROVE TypeOK'
  <2>1. BoolOK'
    BY <1>6, Zenon DEF NewArbiter, TypeOK, BoolOK, runner, system, given
  <2>2. a \in Threads
    BY Zenon DEF Threads
  <2> QED BY <1>6, <2>1, <2>2, Zenon DEF NewArbiter, TypeOK, runner, system, given
<1>7. ASSUME NEW t \in Threads, WakeController(t) PROVE TypeOK'
  <2>1. BoolOK'
    BY <1>7, Zenon DEF WakeController, TypeOK, BoolOK, runner, system, given
  <2> QED BY <1>7, <2>1, Zenon DEF WakeController, TypeOK, runner, system, given
<1>8. ASSUME NEW t \in Threads, TakeStop(t) PROVE TypeOK'
  <2>1. BoolOK'
    BY <1>8, Zenon DEF TakeStop, TypeOK, BoolOK, runner, system, given
  <2>2. Stop \notin Jobs
    BY ArbiterAssumption, Zenon DEF Stop
  <2>3. q' \in [Threads -> Seq(Command)]
    BY <1>8, EmptyAt, Zenon DEF TakeStop, TypeOK
  <2> QED BY <1>8, <2>1, <2>2, <2>3 DEF TakeStop, TypeOK, runner, system, given, AfterDrop,
       Reads, Outcome
<1>9. ASSUME NEW t \in Threads, TakeJob(t) PROVE TypeOK'
  <2>1. BoolOK'
    BY <1>9, Zenon DEF TakeJob, TypeOK, BoolOK, runner, system, given
  <2>2. Head(q[t]) \in Jobs /\ Tail(q[t]) \in Seq(Command)
    BY <1>9, TailAt DEF TakeJob, Reads, TypeOK, Command
  <2>3. q' \in [Threads -> Seq(Command)]
    BY <1>9, <2>2, Zenon DEF TakeJob, TypeOK
  <2> QED BY <1>9, <2>1, <2>2, <2>3, Zenon DEF TakeJob, TypeOK, runner, system, given,
       Reads, Outcome
<1>10. ASSUME NEW t \in Threads, JobPanics(t) PROVE TypeOK'
  <2>1. BoolOK'
    BY <1>10, Zenon DEF JobPanics, TypeOK, BoolOK, runner, system, given
  <2>2. [op |-> "Exit", arg |-> 1] \in SystemCommand
    BY Zenon DEF SystemCommand
  <2>3. sysq' \in Seq(SystemCommand) /\ firstExit' \in Codes \cup {NoCode, 1}
    BY <1>10, <2>2, SystemSent, Zenon DEF JobPanics, TypeOK
  <2>4. q' \in [Threads -> Seq(Command)]
    BY <1>10, EmptyAt, Zenon DEF JobPanics, TypeOK
  <2> QED BY <1>10, <2>1, <2>3, <2>4, Zenon DEF JobPanics, TypeOK, runner, system, given,
       Reads, AfterDrop, Outcome
<1>11. ASSUME NEW t \in Threads, ControllerPending(t) PROVE TypeOK'
  <2>1. BoolOK'
    BY <1>11, Zenon DEF ControllerPending, TypeOK, BoolOK, runner, system, given
  <2> QED BY <1>11, <2>1, Zenon DEF ControllerPending, TypeOK, runner, system, given
<1>12. ASSUME NEW a \in Arbs, Start(a) PROVE TypeOK'
  <2>1. BoolOK'
    BY <1>12, Zenon DEF Start, TypeOK, BoolOK, runner, system, given
  <2>2. [op |-> "Register", arg |-> a] \in SystemCommand
    BY Zenon DEF SystemCommand
  <2>3. sysq' \in Seq(SystemCommand) /\ firstExit' \in Codes \cup {NoCode, 1}
    BY <1>12, <2>2, SystemSent, Zenon DEF Start
  <2>4. a \in Threads
    BY Zenon DEF Threads
  <2> QED BY <1>12, <2>1, <2>3, <2>4, Zenon DEF Start, TypeOK, runner, system, given
<1>13. ASSUME NEW a \in Arbs, End(a) PROVE TypeOK'
  <2>1. BoolOK'
    BY <1>13, Zenon DEF End, TypeOK, BoolOK, runner, system, given
  <2>2. [op |-> "Unregister", arg |-> a] \in SystemCommand
    BY Zenon DEF SystemCommand
  <2>3. sysq' \in Seq(SystemCommand) /\ firstExit' \in Codes \cup {NoCode, 1}
    BY <1>13, <2>2, SystemSent, Zenon DEF End
  <2>4. a \in Threads
    BY Zenon DEF Threads
  <2> QED BY <1>13, <2>1, <2>3, <2>4, Zenon DEF End, TypeOK, runner, system, given,
       DropLocalSet, Outcome
<1>14. ASSUME NEW j \in Jobs, NEW st \in {"ran", "panicked"}, RunFiber(j, st) PROVE TypeOK'
  <2>1. BoolOK'
    BY <1>14, Zenon DEF RunFiber, TypeOK, BoolOK, runner, system, given
  <2> QED BY <1>14, <2>1, Zenon DEF RunFiber, TypeOK, runner, system, given, Outcome
<1>15. CASE WakeSystem
  <2>1. BoolOK'
    BY <1>15, Zenon DEF WakeSystem, TypeOK, BoolOK, runner, system, given
  <2> QED BY <1>15, <2>1, Zenon DEF WakeSystem, TypeOK, runner, system, given, Threads
<1>16. CASE SysExit
  <2>1. BoolOK'
    BY <1>16, Zenon DEF SysExit, SysReads, TypeOK, BoolOK, runner, system, given
  <2>2. sysq' \in Seq(SystemCommand) /\ Head(sysq).arg \in Codes \cup {1}
    BY <1>16, SystemRead, Zenon DEF SysExit, SysReads
  <2>3. q' \in [Threads -> Seq(Command)] /\ stopSent' \subseteq Threads
    BY <1>16, StopsSent, Zenon DEF SysExit, TypeOK, Threads
  <2> QED BY <1>16, <2>1, <2>2, <2>3, Zenon DEF SysExit, SysReads, TypeOK, runner, system,
       given
<1>17. CASE SysRegister
  <2>1. BoolOK'
    BY <1>17, Zenon DEF SysRegister, SysReads, TypeOK, BoolOK, runner, system, given
  <2>2. sysq' \in Seq(SystemCommand) /\ Head(sysq).arg \in Arbs
    BY <1>17, SystemRead, Zenon DEF SysRegister, SysReads
  <2> QED BY <1>17, <2>1, <2>2, Zenon DEF SysRegister, SysReads, TypeOK, runner, system, given
<1>18. CASE SysUnregister
  <2>1. BoolOK'
    BY <1>18, Zenon DEF SysUnregister, SysReads, TypeOK, BoolOK, runner, system, given
  <2>2. sysq' \in Seq(SystemCommand) /\ Head(sysq).arg \in Arbs
    BY <1>18, SystemRead, Zenon DEF SysUnregister, SysReads
  <2> QED BY <1>18, <2>1, <2>2, Zenon DEF SysUnregister, SysReads, TypeOK, runner, system,
       given
<1>19. CASE SystemPending
  <2>1. BoolOK'
    BY <1>19, Zenon DEF SystemPending, TypeOK, BoolOK, runner, system, given
  <2> QED BY <1>19, <2>1, Zenon DEF SystemPending, TypeOK, runner, system, given
<1>20. CASE Run
  <2>1. BoolOK'
    BY <1>20, Zenon DEF Run, RunSystem, TypeOK, BoolOK, runner, system, given
  <2>2. ctl' \in [Threads -> {"none", "boxed", "live", "gone"}] /\ parked' \in Seq(Jobs \cup {Sys})
    BY <1>20 DEF Run, RunSystem, TypeOK, Threads
  <2> QED BY <1>20, <2>1, <2>2, Zenon DEF Run, RunSystem, TypeOK, runner, system, given,
       Outcome
<1>21. CASE BlockOn
  <2>1. BoolOK'
    BY <1>21, Zenon DEF BlockOn, RunSystem, TypeOK, BoolOK, runner, system, given
  <2>2. ctl' \in [Threads -> {"none", "boxed", "live", "gone"}] /\ parked' \in Seq(Jobs \cup {Sys})
    BY <1>21 DEF BlockOn, RunSystem, TypeOK, Threads
  <2>3. blocks' \in 0..MaxBlocks
    BY <1>21, ArbiterAssumption DEF BlockOn, TypeOK
  <2> QED BY <1>21, <2>1, <2>2, <2>3, Zenon DEF BlockOn, RunSystem, TypeOK, runner, system,
       given, Outcome
<1>22. CASE BlockOnReturns
  <2>1. BoolOK'
    BY <1>22, Zenon DEF BlockOnReturns, TypeOK, BoolOK, runner, system, given
  <2> QED BY <1>22, <2>1, Zenon DEF BlockOnReturns, TypeOK, runner, system, given
<1>23. CASE RunReturns
  <2>1. BoolOK'
    BY <1>23, Zenon DEF RunReturns, TypeOK, BoolOK, runner, system, given, DropRuntime
  <2>2. <<>> \in Seq(Command) /\ <<>> \in Seq(SystemCommand)
    BY EmptyAt, Zenon
  <2>3. ctl' \in [Threads -> {"none", "boxed", "live", "gone"}] /\ q' \in [Threads -> Seq(Command)]
    BY <1>23, <2>2, Zenon DEF RunReturns, DropRuntime, TypeOK
  <2>4. sysq' \in Seq(SystemCommand)
    BY <1>23, <2>2, Zenon DEF RunReturns, DropRuntime, TypeOK
  <2> QED BY <1>23, <2>1, <2>3, <2>4 DEF RunReturns, TypeOK, runner, system, given,
       DropRuntime, DropLocalSet, Outcome
<1>24. CASE DropRunner
  <2>1. BoolOK'
    BY <1>24, Zenon DEF DropRunner, TypeOK, BoolOK, runner, system, given, DropRuntime
  <2>2. <<>> \in Seq(Command) /\ <<>> \in Seq(SystemCommand)
    BY EmptyAt, Zenon
  <2>3. ctl' \in [Threads -> {"none", "boxed", "live", "gone"}] /\ q' \in [Threads -> Seq(Command)]
    BY <1>24, <2>2, Zenon DEF DropRunner, DropRuntime, TypeOK
  <2>4. sysq' \in Seq(SystemCommand)
    BY <1>24, <2>2, Zenon DEF DropRunner, DropRuntime, TypeOK
  <2> QED BY <1>24, <2>1, <2>3, <2>4, Zenon DEF DropRunner, TypeOK, runner, system, given,
       DropRuntime, DropLocalSet, Outcome
<1>25. CASE UNCHANGED vars
  BY <1>25, Zenon DEF vars, runner, system, given, TypeOK, BoolOK
<1> QED BY <1>1, <1>2, <1>3, <1>4, <1>5, <1>6, <1>7, <1>8, <1>9, <1>10, <1>11, <1>12, <1>13,
     <1>14, <1>15, <1>16, <1>17, <1>18, <1>19, <1>20, <1>21, <1>22, <1>23, <1>24, <1>25,
     Zenon DEF Next, Calls, Controller, SystemArbiter

LEMMA AppendedRange ==
  ASSUME NEW S, NEW s \in Seq(S), NEW e \in S, NEW x \in Range(Append(s, e)), x # e
  PROVE  x \in Range(s)
BY AppendAt DEF Range

\* Every step leaves the controllers where their threads say they are.
LEMMA ThreadStep ==
  ASSUME TypeOK, ThreadInv, [Next]_vars PROVE ThreadInv'
<1>0. UNCHANGED <<arb, ctl, parked, polling, mode, rt, running>> => ThreadInv'
  BY DEF ThreadInv, Executing
<1>1. ASSUME NEW t \in Threads, NEW j \in Jobs, Spawn(t, j) PROVE ThreadInv'
  <2>1. Sys \in Range(parked') => Sys \in Range(parked)
    <3>1. j \in Jobs \cup {Sys} /\ Sys # j
      BY ArbiterAssumption, Zenon DEF Sys
    <3> QED BY <1>1, <3>1, AppendedRange, Zenon DEF Spawn, TypeOK
  <2>2. running => parked' = parked
    BY <1>1, Zenon DEF Spawn
  <2> QED BY <1>1, <2>1, <2>2, Zenon DEF Spawn, ThreadInv, Executing
<1>2. ASSUME NEW t \in Threads, NEW j \in Jobs, NEW k \in {"send", "exec"}, Send(t, j, k) PROVE
             ThreadInv'
  BY <1>0, <1>2, Zenon DEF Send, runner, system, given
<1>3. ASSUME NEW j \in Jobs, ForgetExec(j) PROVE ThreadInv'
  BY <1>0, <1>3, Zenon DEF ForgetExec, runner, system, given
<1>4. ASSUME NEW t \in Threads, StopArbiter(t) PROVE ThreadInv'
  BY <1>0, <1>4, Zenon DEF StopArbiter, runner, system, given
<1>5. ASSUME NEW c \in Codes, StopSystem(c) PROVE ThreadInv'
  BY <1>0, <1>5, Zenon DEF StopSystem, runner, system, given
<1>6. ASSUME NEW a \in Arbs, NewArbiter(a) PROVE ThreadInv'
  BY <1>6, ArbiterAssumption DEF NewArbiter, TypeOK, ThreadInv, Executing, Threads, runner,
       system, given, Sys
<1>7. ASSUME NEW t \in Threads, WakeController(t) PROVE ThreadInv'
  BY <1>7, ArbiterAssumption, Zenon DEF WakeController, TypeOK, ThreadInv, Executing,
       Threads, runner, system, given, Free
<1>8. ASSUME NEW t \in Threads, TakeStop(t) PROVE ThreadInv'
  BY <1>8, ArbiterAssumption, Zenon DEF TakeStop, TypeOK, ThreadInv, Executing, Threads,
       runner, system, given, Reads
<1>9. ASSUME NEW t \in Threads, TakeJob(t) PROVE ThreadInv'
  BY <1>0, <1>9, Zenon DEF TakeJob, runner, system, given
<1>10. ASSUME NEW t \in Threads, JobPanics(t) PROVE ThreadInv'
  BY <1>10, ArbiterAssumption, Zenon DEF JobPanics, TypeOK, ThreadInv, Executing, Threads,
       runner, system, given, Reads
<1>11. ASSUME NEW t \in Threads, ControllerPending(t) PROVE ThreadInv'
  BY <1>11, ArbiterAssumption, Zenon DEF ControllerPending, TypeOK, ThreadInv, Executing,
       Threads, runner, system, given
<1>12. ASSUME NEW a \in Arbs, Start(a) PROVE ThreadInv'
  BY <1>12, ArbiterAssumption DEF Start, TypeOK, ThreadInv, Executing, Threads, runner,
       system, given, Sys
<1>13. ASSUME NEW a \in Arbs, End(a) PROVE ThreadInv'
  BY <1>13, ArbiterAssumption DEF End, TypeOK, ThreadInv, Executing, Threads, runner,
       system, given, Free, Sys
<1>14. ASSUME NEW j \in Jobs, NEW st \in {"ran", "panicked"}, RunFiber(j, st) PROVE ThreadInv'
  BY <1>0, <1>14, Zenon DEF RunFiber, runner, system, given
<1>15. CASE WakeSystem
  BY <1>15, ArbiterAssumption, Zenon DEF WakeSystem, TypeOK, ThreadInv, Executing, Threads,
       runner, system, given, Free
<1>16. CASE SysExit
  BY <1>0, <1>16, Zenon DEF SysExit, SysReads, runner, system, given
<1>17. CASE SysRegister
  BY <1>0, <1>17, Zenon DEF SysRegister, SysReads, runner, system, given
<1>18. CASE SysUnregister
  BY <1>0, <1>18, Zenon DEF SysUnregister, SysReads, runner, system, given
<1>19. CASE SystemPending
  BY <1>19, ArbiterAssumption, Zenon DEF SystemPending, TypeOK, ThreadInv, Executing,
       Threads, runner, system, given
<1>20. CASE Run
  <2>1. Sys \notin Range(parked')
    BY <1>20 DEF Run, RunSystem, Range
  <2> QED BY <1>20, <2>1, ArbiterAssumption, Zenon DEF Run, RunSystem, TypeOK, ThreadInv,
       Executing, Threads
<1>21. CASE BlockOn
  <2>1. Sys \notin Range(parked')
    BY <1>21 DEF BlockOn, RunSystem, Range
  <2> QED BY <1>21, <2>1, ArbiterAssumption, Zenon DEF BlockOn, RunSystem, TypeOK,
       ThreadInv, Executing, Threads
<1>22. CASE BlockOnReturns
  BY <1>22, ArbiterAssumption, Zenon DEF BlockOnReturns, TypeOK, ThreadInv, Executing,
       Threads, runner, system, given
<1>23. CASE RunReturns
  BY <1>23, ArbiterAssumption DEF RunReturns, TypeOK, ThreadInv, Executing, Threads, runner,
       system, given, DropRuntime
<1>24. CASE DropRunner
  BY <1>24, ArbiterAssumption DEF DropRunner, TypeOK, ThreadInv, Executing, Threads, runner,
       system, given, DropRuntime
<1>25. CASE UNCHANGED vars
  BY <1>0, <1>25, Zenon DEF vars, runner, system, given
<1> QED BY <1>1, <1>2, <1>3, <1>4, <1>5, <1>6, <1>7, <1>8, <1>9, <1>10, <1>11, <1>12, <1>13,
     <1>14, <1>15, <1>16, <1>17, <1>18, <1>19, <1>20, <1>21, <1>22, <1>23, <1>24, <1>25,
     Zenon DEF Next, Calls, Controller, SystemArbiter

\* What is in a queue: a Stop or a job.
LEMMA Commands ==
  ASSUME TypeOK, NEW t \in Threads
  PROVE  /\ q[t] \in Seq(Command) /\ Len(q[t]) \in Nat
         /\ \A i \in 1..Len(q[t]) : q[t][i] # Stop => q[t][i] \in Jobs
<1>1. q[t] \in Seq(Command)
  BY Zenon DEF TypeOK
<1> QED BY <1>1, ElementAt, Zenon DEF Command

\* A step that neither sends nor reads commands keeps QueueInv if it leaves alone the jobs
\* in the queues and lets go only of controllers with an empty one.
LEMMA QueuesKept ==
  ASSUME TypeOK, QueueInv, UNCHANGED <<q, stopSent>>,
         \A t \in Threads : ctl'[t] = "gone" => q[t] = <<>>,
         \A t \in stopSent : ctl'[t] # "none" /\ (Receiving(t)' => Receiving(t)),
         \A j \in Jobs : job[j] = "queued" /\ q[at[j]] # <<>>
           => job'[j] = "queued" /\ at'[j] = at[j] /\ (j \in late' => j \in late)
  PROVE  QueueInv'
<1>1. ASSUME NEW t \in Threads, NEW i \in 1..Len(q[t]) PROVE InOrder(t, i)'
  <2>1. SUFFICES ASSUME q[t][i] # Stop PROVE InOrder(t, i)'
    BY Zenon DEF InOrder, Stop
  <2>2. InOrder(t, i) /\ q[t][i] \in Jobs /\ q[t] # <<>>
    BY <2>1, Commands DEF QueueInv
  <2>3. /\ job'[q[t][i]] = "queued" /\ at'[q[t][i]] = t
        /\ q[t][i] \in late' => q[t][i] \in late
    BY <2>1, <2>2, Zenon DEF InOrder
  <2> QED BY <2>1, <2>2, <2>3, Zenon DEF InOrder, Stop
<1> QED BY <1>1, Zenon DEF QueueInv, Stop

\* The controller of t is dropped with its receiver.
LEMMA QueueDropped ==
  ASSUME TypeOK, QueueInv, NEW t \in Threads, q' = [q EXCEPT ![t] = <<>>],
         ctl' = [ctl EXCEPT ![t] = "gone"], UNCHANGED <<at, late, stopSent>>,
         \A j \in Jobs : at[j] # t => job'[j] = job[j]
  PROVE  QueueInv'
<1>1. q'[t] = <<>> /\ ctl'[t] = "gone"
  BY Zenon DEF TypeOK
<1>2. \A u \in Threads : u # t => q'[u] = q[u] /\ ctl'[u] = ctl[u]
  BY Zenon DEF TypeOK
<1>3. ASSUME NEW u \in Threads, NEW i \in 1..Len(q'[u]) PROVE InOrder(u, i)'
  <2>1. u # t
    BY <1>1, <1>3, EmptyAt
  <2>2. q'[u] = q[u] /\ InOrder(u, i)
    BY <1>2, <1>3, <2>1, Zenon DEF QueueInv
  <2>3. q[u][i] # Stop => q[u][i] \in Jobs
    BY <1>3, <2>2, Commands, Zenon
  <2>4. q[u][i] # Stop => job'[q[u][i]] = job[q[u][i]]
    BY <2>1, <2>2, <2>3, Zenon DEF InOrder
  <2> QED BY <2>2, <2>4 DEF InOrder, Stop
<1>4. \A u \in stopSent' : /\ ctl'[u] # "none"
                           /\ Receiving(u)' => \E k \in 1..Len(q'[u]) : q'[u][k] = Stop'
  BY <1>1, <1>2 DEF QueueInv, Receiving, TypeOK, Stop
<1> QED BY <1>1, <1>2, <1>3, <1>4 DEF QueueInv

\* Arbiter::stop appends a Stop, which is in order wherever it is.
LEMMA QueueStopped ==
  ASSUME TypeOK, QueueInv, NEW S \in SUBSET Threads, SendStop(S),
         UNCHANGED <<ctl, job, at, late>>
  PROVE  QueueInv'
<1>1. ASSUME NEW t \in Threads, ~ (t \in S /\ Receiving(t))
      PROVE  q'[t] = q[t] /\ (t \in stopSent' => t \in stopSent)
  BY <1>1, Zenon DEF SendStop
<1>2. ASSUME NEW t \in S, Receiving(t)
      PROVE  /\ Len(q'[t]) = Len(q[t]) + 1 /\ q'[t][Len(q[t]) + 1] = Stop
             /\ Len(q[t]) \in Nat /\ \A i \in 1..Len(q[t]) : q'[t][i] = q[t][i]
  <2>1. q'[t] = Append(q[t], Stop)
    BY <1>2, Zenon DEF SendStop
  <2>2. q[t] \in Seq(Command) /\ Stop \in Command
    BY Zenon DEF TypeOK, Command
  <2> QED BY <2>1, <2>2, AppendAt
<1>3. ASSUME NEW t \in Threads, NEW i \in 1..Len(q'[t]) PROVE InOrder(t, i)'
  <2>1. CASE t \in S /\ Receiving(t)
    <3>1. CASE i = Len(q[t]) + 1
      BY <1>2, <2>1, <3>1, Zenon DEF InOrder, Stop
    <3>2. CASE i # Len(q[t]) + 1
      <4>1. i \in 1..Len(q[t]) /\ q'[t][i] = q[t][i]
        BY <1>2, <1>3, <2>1, <3>2
      <4>2. \A k \in 1..(i - 1) : q'[t][k] = q[t][k]
        BY <1>2, <2>1, <4>1
      <4>3. InOrder(t, i)
        BY <4>1, Zenon DEF QueueInv
      <4> QED BY <4>1, <4>2, <4>3, Zenon DEF InOrder, Stop
    <3> QED BY <3>1, <3>2, Zenon
  <2>2. CASE ~ (t \in S /\ Receiving(t))
    BY <1>1, <1>3, <2>2 DEF QueueInv, InOrder, Stop
  <2> QED BY <2>1, <2>2, Zenon
<1>4. ASSUME NEW t \in Threads, ctl'[t] = "gone" PROVE q'[t] = <<>>
  BY <1>1, <1>4, Zenon DEF QueueInv, Receiving
<1>5. ASSUME NEW t \in stopSent' 
      PROVE  /\ ctl'[t] # "none"
             /\ Receiving(t)' => \E k \in 1..Len(q'[t]) : q'[t][k] = Stop
  <2>1. CASE t \in S /\ Receiving(t)
    <3>1. Len(q[t]) + 1 \in 1..Len(q'[t]) /\ q'[t][Len(q[t]) + 1] = Stop
      BY <1>2, <2>1
    <3> QED BY <2>1, <3>1, Zenon DEF Receiving
  <2>2. CASE ~ (t \in S /\ Receiving(t))
    <3>1. t \in stopSent /\ t \in Threads
      BY <1>1, <1>5, <2>2, StopsSent, Zenon
    <3> QED BY <1>1, <2>2, <3>1, Zenon DEF QueueInv, Receiving
  <2> QED BY <2>1, <2>2, Zenon
<1> QED BY <1>3, <1>4, <1>5, Zenon DEF QueueInv, Stop

LEMMA HeadInOrder ==
  ASSUME TypeOK, QueueInv, NEW t \in Threads, q[t] # <<>>, Head(q[t]) # Stop
  PROVE  /\ Head(q[t]) \in Jobs /\ at[Head(q[t])] = t /\ job[Head(q[t])] = "queued"
         /\ Head(q[t]) \notin late
         /\ \A i \in 2..Len(q[t]) : q[t][i] # Head(q[t])
<1>1. q[t] \in Seq(Command)
  BY Commands, Zenon
<1>2. Head(q[t]) = q[t][1] /\ Len(q[t]) \in Nat \ {0} /\ Head(q[t]) \in Command
  BY <1>1, TailAt, Zenon
<1>3. 1 \in 1..Len(q[t])
  BY <1>2
<1>4. InOrder(t, 1)
  BY <1>3, Zenon DEF QueueInv
<1>5. /\ Head(q[t]) \in Jobs /\ at[Head(q[t])] = t /\ job[Head(q[t])] = "queued"
      /\ Head(q[t]) \notin late
  BY <1>2, <1>4 DEF InOrder, Command
<1>6. ASSUME NEW i \in 2..Len(q[t]) PROVE q[t][i] # Head(q[t])
  <2>1. InOrder(t, i)
    BY <1>2, <1>6 DEF QueueInv
  <2>2. 1 \in 1..(i - 1)
    BY <1>2, <1>6
  <2> QED BY <1>2, <2>1, <2>2, Zenon DEF InOrder
<1> QED BY <1>5, <1>6, Zenon

\* The controller takes a job: what is behind it stays in order.
LEMMA JobTaken ==
  ASSUME TypeOK, QueueInv, NEW t \in Threads, TakeJob(t)
  PROVE  QueueInv'
<1> DEFINE j == Head(q[t])
<1>1. /\ j \in Jobs /\ at[j] = t /\ j \notin late
      /\ \A i \in 2..Len(q[t]) : q[t][i] # j
  BY HeadInOrder, Zenon DEF TakeJob, Reads
<1>2. /\ q' = [q EXCEPT ![t] = Tail(q[t])] /\ UNCHANGED <<ctl, at, late, stopSent>>
      /\ \A i \in Jobs : i # j => job'[i] = job[i]
      /\ q[t] # <<>> /\ j # Stop
  BY Zenon DEF TakeJob, Reads, given, TypeOK
<1>3. /\ Len(q[t]) \in Nat \ {0} /\ Len(q'[t]) = Len(q[t]) - 1 /\ j = q[t][1]
      /\ \A i \in 1..Len(q'[t]) : q'[t][i] = q[t][i + 1]
  <2>1. q[t] \in Seq(Command) /\ q'[t] = Tail(q[t]) /\ q[t] # <<>>
    BY <1>2, Zenon DEF TypeOK
  <2>2. /\ Len(q[t]) \in Nat \ {0} /\ Len(Tail(q[t])) = Len(q[t]) - 1 /\ j = q[t][1]
        /\ \A i \in 1..Len(Tail(q[t])) : Tail(q[t])[i] = q[t][i + 1]
    BY <2>1, TailAt, Zenon
  <2> HIDE DEF j
  <2> QED BY <2>1, <2>2, Zenon
<1>4. \A u \in Threads : u # t => q'[u] = q[u]
  BY <1>2, Zenon DEF TypeOK
<1> HIDE DEF j
<1>5. ASSUME NEW u \in Threads, NEW i \in 1..Len(q'[u]) PROVE InOrder(u, i)'
  <2>1. CASE u = t
    <3>1. /\ i \in Nat /\ i + 1 \in 2..Len(q[t]) /\ q'[t][i] = q[t][i + 1]
          /\ i + 1 \in 1..Len(q[t])
      BY <1>3, <1>5, <2>1
    <3>2. InOrder(t, i + 1)
      BY <3>1, Zenon DEF QueueInv
    <3>3. SUFFICES ASSUME q[t][i + 1] # Stop PROVE InOrder(t, i)'
      BY <2>1, <3>1, Zenon DEF InOrder, Stop
    <3>4. q[t][i + 1] \in Jobs /\ q[t][i + 1] # j
      BY <1>1, <3>1, <3>3, Commands, Zenon
    <3>5. at'[q'[t][i]] = t /\ job'[q'[t][i]] = "queued"
      BY <1>2, <3>1, <3>2, <3>3, <3>4, Zenon DEF InOrder
    <3>6. \A k \in 1..(i - 1) : q'[t][k] # q'[t][i]
      <4>1. ASSUME NEW k \in 1..(i - 1)
            PROVE  k + 1 \in 1..((i + 1) - 1) /\ q'[t][k] = q[t][k + 1]
        <5>1. k \in 1..Len(q'[t])
          BY <1>3, <1>5, <2>1, <4>1
        <5>2. k + 1 \in 1..((i + 1) - 1)
          BY <3>1, <4>1
        <5> QED BY <1>3, <5>1, <5>2, Zenon
      <4> QED BY <3>1, <3>2, <3>3, <4>1, Zenon DEF InOrder
    <3>7. ASSUME q'[t][i] \in late' PROVE \E k \in 1..(i - 1) : q'[t][k] = Stop
      <4>1. PICK k \in 1..((i + 1) - 1) : q[t][k] = Stop
        BY <1>2, <3>1, <3>2, <3>3, <3>7 DEF InOrder
      <4>2. k - 1 \in 1..(i - 1) /\ k - 1 \in 1..Len(q'[t])
        <5>1. k # 1 /\ k \in 1..i /\ i \in 1..Len(q'[t]) /\ Len(q'[t]) \in Nat
          BY <1>2, <1>3, <1>5, <2>1, <3>1, <4>1
        <5> QED BY <5>1
      <4>3. q'[t][k - 1] = q[t][(k - 1) + 1] /\ (k - 1) + 1 = k
        BY <1>3, <4>1, <4>2
      <4> QED BY <4>1, <4>2, <4>3, Zenon
    <3> QED BY <2>1, <3>5, <3>6, <3>7, Zenon DEF InOrder, Stop
  <2>2. CASE u # t
    <3>1. q'[u] = q[u] /\ InOrder(u, i)
      BY <1>4, <1>5, <2>2, Zenon DEF QueueInv
    <3>2. q[u][i] # Stop => q[u][i] \in Jobs
      BY <1>5, <3>1, Commands, Zenon
    <3>3. q[u][i] # Stop => job'[q[u][i]] = job[q[u][i]]
      BY <1>1, <1>2, <2>2, <3>1, <3>2, Zenon DEF InOrder
    <3>4. at' = at /\ late' = late
      BY <1>2, Zenon
    <3> QED BY <3>1, <3>3, <3>4, Zenon DEF InOrder, Stop
  <2> QED BY <2>1, <2>2, Zenon
<1>6. ASSUME NEW u \in Threads, ctl'[u] = "gone" PROVE q'[u] = <<>>
  BY <1>2, <1>4, <1>6, Zenon DEF QueueInv
<1>7. ASSUME NEW u \in stopSent'
      PROVE  ctl'[u] # "none" /\ (Receiving(u)' => \E k \in 1..Len(q'[u]) : q'[u][k] = Stop)
  <2>1. u \in stopSent /\ u \in Threads /\ ctl'[u] # "none"
    BY <1>2, <1>7, Zenon DEF QueueInv, TypeOK
  <2>2. CASE u = t
    <3>1. ASSUME Receiving(t) PROVE \E k \in 1..Len(q'[t]) : q'[t][k] = Stop
      <4>1. PICK k \in 1..Len(q[t]) : q[t][k] = Stop
        BY <2>1, <2>2, <3>1, Zenon DEF QueueInv
      <4>2. k - 1 \in 1..Len(q'[t]) /\ (k - 1) + 1 = k
        BY <1>2, <1>3, <4>1
      <4>3. q'[t][k - 1] = q[t][(k - 1) + 1]
        BY <1>3, <4>2, Zenon
      <4> QED BY <4>1, <4>2, <4>3, Zenon
    <3> QED BY <1>2, <2>1, <2>2, <3>1, Zenon DEF Receiving
  <2>3. CASE u # t
    BY <1>2, <1>4, <2>1, <2>3 DEF QueueInv, Receiving
  <2> QED BY <2>1, <2>2, <2>3, Zenon
<1> QED BY <1>5, <1>6, <1>7, Zenon DEF QueueInv, Stop

\* A job goes to the end of the queue, behind the Stop that makes it late.
LEMMA JobSent ==
  ASSUME TypeOK, QueueInv, JobInv, NEW t \in Threads, NEW j \in Jobs,
         NEW k \in {"send", "exec"}, Send(t, j, k)
  PROVE  QueueInv'
<1>1. /\ job[j] = "new" /\ UNCHANGED <<ctl, stopSent>>
      /\ \A i \in Jobs : i # j => job'[i] = job[i] /\ at'[i] = at[i] /\ (i \in late' => i \in late)
  BY Zenon DEF Send, NextJob, TypeOK
<1>2. CASE ~ Receiving(t)
  <2>1. \A i \in Jobs : job[i] = "queued" => i # j
    BY <1>1, Zenon
  <2>2. UNCHANGED <<q, stopSent>>
    BY <1>2, Zenon DEF Send
  <2> QED BY <1>1, <2>1, <2>2, QueuesKept, Zenon DEF QueueInv, Receiving
<1>3. CASE Receiving(t)
  <2>1. /\ Len(q'[t]) = Len(q[t]) + 1 /\ q'[t][Len(q[t]) + 1] = j
        /\ Len(q[t]) \in Nat /\ \A i \in 1..Len(q[t]) : q'[t][i] = q[t][i]
    <3>1. q[t] \in Seq(Command) /\ j \in Command /\ q'[t] = Append(q[t], j)
      BY <1>3, Zenon DEF Send, TypeOK, Command
    <3> QED BY <3>1, AppendAt
  <2>2. \A u \in Threads : u # t => q'[u] = q[u]
    BY <1>3, Zenon DEF Send, TypeOK
  <2>3. /\ at'[j] = t /\ job'[j] = "queued" /\ (j \in late' => t \in stopSent \/ j \in late)
    BY <1>3, Zenon DEF Send, TypeOK
  <2>4. ASSUME NEW u \in Threads, NEW i \in 1..Len(q[u]), q'[u][i] = q[u][i],
               \A n \in 1..(i - 1) : q'[u][n] = q[u][n]
        PROVE  InOrder(u, i)'
    <3>1. InOrder(u, i) /\ (q[u][i] # Stop => q[u][i] \in Jobs)
      BY <2>4, Commands, Zenon DEF QueueInv
    <3>2. q[u][i] # Stop => /\ job'[q[u][i]] = "queued" /\ at'[q[u][i]] = u
                            /\ q[u][i] \in late' => q[u][i] \in late
      BY <1>1, <3>1, Zenon DEF InOrder
    <3> QED BY <2>4, <3>1, <3>2, Zenon DEF InOrder, Stop
  <2>5. ASSUME NEW u \in Threads, NEW i \in 1..Len(q'[u]) PROVE InOrder(u, i)'
    <3>1. CASE u # t
      <4>1. q'[u] = q[u]
        BY <2>2, <3>1, Zenon
      <4> QED BY <2>4, <2>5, <4>1, Zenon
    <3>2. CASE u = t /\ i # Len(q[t]) + 1
      <4>1. i \in 1..Len(q[t]) /\ \A n \in 1..(i - 1) : n \in 1..Len(q[t])
        BY <2>1, <2>5, <3>2
      <4> QED BY <2>1, <2>4, <3>2, <4>1, Zenon
    <3>3. CASE u = t /\ i = Len(q[t]) + 1
      <4>1. i - 1 = Len(q[t]) /\ q'[t][i] = j
        BY <2>1, <3>3
      <4>2. \A n \in 1..(i - 1) : q'[t][n] = q[t][n] /\ q[t][n] # j
        <5>1. ASSUME NEW n \in 1..Len(q[t]) PROVE q[t][n] # j
          BY <1>1, <5>1, ArbiterAssumption DEF QueueInv, InOrder, Stop
        <5> QED BY <2>1, <4>1, <5>1, Zenon
      <4>3. ASSUME j \in late' PROVE \E n \in 1..(i - 1) : q'[t][n] = Stop
        <5>1. t \in stopSent
          BY <1>1, <2>3, <4>3, Zenon DEF JobInv, NothingAfterStop
        <5>2. PICK n \in 1..Len(q[t]) : q[t][n] = Stop
          BY <1>3, <5>1, Zenon DEF QueueInv
        <5> QED BY <4>1, <4>2, <5>2, Zenon
      <4> QED BY <2>3, <3>3, <4>1, <4>2, <4>3, Zenon DEF InOrder, Stop
    <3> QED BY <3>1, <3>2, <3>3, Zenon
  <2>6. ASSUME NEW u \in Threads, ctl'[u] = "gone" PROVE q'[u] = <<>>
    BY <1>1, <1>3, <2>2, <2>6, Zenon DEF QueueInv, Receiving
  <2>7. ASSUME NEW u \in stopSent'
        PROVE  ctl'[u] # "none" /\ (Receiving(u)' => \E n \in 1..Len(q'[u]) : q'[u][n] = Stop)
    <3>1. u \in stopSent /\ u \in Threads /\ ctl'[u] # "none"
      BY <1>1, <2>7, Zenon DEF QueueInv, TypeOK
    <3>2. CASE u = t
      <4>1. PICK n \in 1..Len(q[t]) : q[t][n] = Stop
        BY <1>3, <3>1, <3>2, Zenon DEF QueueInv
      <4>2. n \in 1..Len(q'[t]) /\ q'[t][n] = Stop
        BY <2>1, <4>1
      <4> QED BY <3>1, <3>2, <4>2, Zenon
    <3>3. CASE u # t
      BY <1>1, <2>2, <3>1, <3>3 DEF QueueInv, Receiving
    <3> QED BY <3>1, <3>2, <3>3, Zenon
  <2> QED BY <2>5, <2>6, <2>7, Zenon DEF QueueInv, Stop
<1> QED BY <1>2, <1>3, Zenon

\* Every step keeps the queues in order.
LEMMA QueueStep ==
  ASSUME TypeOK, ThreadInv, QueueInv, JobInv, [Next]_vars PROVE QueueInv'
<1>0. UNCHANGED <<q, stopSent, ctl, job, at, late>> => QueueInv'
  BY DEF QueueInv, InOrder, Receiving, Stop
<1>1. ASSUME NEW t \in Threads, NEW j \in Jobs, Spawn(t, j) PROVE QueueInv'
  <2>1. UNCHANGED <<q, stopSent>>
    BY <1>1, Zenon DEF Spawn, runner, system, given
  <2>2. \A u \in Threads : ctl'[u] = "gone" => q[u] = <<>>
    BY <1>1, Zenon DEF Spawn, QueueInv, TypeOK
  <2>3. \A u \in stopSent : ctl'[u] # "none" /\ (Receiving(u)' => Receiving(u))
    BY <1>1, Zenon DEF Spawn, QueueInv, TypeOK, Receiving
  <2>4. \A i \in Jobs : job[i] = "queued" /\ q[at[i]] # <<>>
          => job'[i] = "queued" /\ at'[i] = at[i] /\ (i \in late' => i \in late)
    BY <1>1, Zenon DEF Spawn, QueueInv, TypeOK, given, NextJob
  <2> QED BY <2>1, <2>2, <2>3, <2>4, QueuesKept, Zenon
<1>2. ASSUME NEW t \in Threads, NEW j \in Jobs, NEW k \in {"send", "exec"}, Send(t, j, k) PROVE
             QueueInv'
  BY <1>2, JobSent, Zenon
<1>3. ASSUME NEW j \in Jobs, ForgetExec(j) PROVE QueueInv'
  BY <1>0, <1>3, Zenon DEF ForgetExec, runner, system, given
<1>4. ASSUME NEW t \in Threads, StopArbiter(t) PROVE QueueInv'
  <2>1. {t} \in SUBSET Threads
    OBVIOUS
  <2> QED BY <1>4, <2>1, QueueStopped, Zenon DEF StopArbiter, given
<1>5. ASSUME NEW c \in Codes, StopSystem(c) PROVE QueueInv'
  BY <1>0, <1>5, Zenon DEF StopSystem, runner, system, given
<1>6. ASSUME NEW a \in Arbs, NewArbiter(a) PROVE QueueInv'
  <2>1. UNCHANGED <<q, stopSent>>
    BY <1>6, Zenon DEF NewArbiter, runner, system, given
  <2>2. \A u \in Threads : ctl'[u] = "gone" => q[u] = <<>>
    BY <1>6, ArbiterAssumption, Zenon DEF NewArbiter, QueueInv, TypeOK, ThreadInv, Threads
  <2>3. \A u \in stopSent : ctl'[u] # "none" /\ (Receiving(u)' => Receiving(u))
    BY <1>6, ArbiterAssumption DEF NewArbiter, QueueInv, TypeOK, Receiving, ThreadInv, Threads
  <2>4. \A i \in Jobs : job[i] = "queued" /\ q[at[i]] # <<>>
          => job'[i] = "queued" /\ at'[i] = at[i] /\ (i \in late' => i \in late)
    BY <1>6, Zenon DEF NewArbiter, QueueInv, TypeOK, given
  <2> QED BY <2>1, <2>2, <2>3, <2>4, QueuesKept, Zenon
<1>7. ASSUME NEW t \in Threads, WakeController(t) PROVE QueueInv'
  BY <1>0, <1>7, Zenon DEF WakeController, runner, system, given
<1>8. ASSUME NEW t \in Threads, TakeStop(t) PROVE QueueInv'
  <2>1. \A j \in Jobs : at[j] # t => job'[j] = job[j]
    BY <1>8, ArbiterAssumption, Zenon DEF TakeStop, AfterDrop, Stop
  <2>2. /\ q' = [q EXCEPT ![t] = <<>>] /\ ctl' = [ctl EXCEPT ![t] = "gone"]
        /\ UNCHANGED <<at, late, stopSent>>
    BY <1>8, Zenon DEF TakeStop, given
  <2> QED BY <2>1, <2>2, QueueDropped, Zenon
<1>9. ASSUME NEW t \in Threads, TakeJob(t) PROVE QueueInv'
  BY <1>9, JobTaken, Zenon
<1>10. ASSUME NEW t \in Threads, JobPanics(t) PROVE QueueInv'
  <2>1. at[Head(q[t])] = t
    BY <1>10, HeadInOrder, Zenon DEF JobPanics, Reads
  <2>2. \A j \in Jobs : at[j] # t => job'[j] = job[j]
    BY <1>10, <2>1, Zenon DEF JobPanics, AfterDrop
  <2>3. /\ q' = [q EXCEPT ![t] = <<>>] /\ ctl' = [ctl EXCEPT ![t] = "gone"]
        /\ UNCHANGED <<at, late, stopSent>>
    BY <1>10, Zenon DEF JobPanics, given
  <2> QED BY <2>2, <2>3, QueueDropped, Zenon
<1>11. ASSUME NEW t \in Threads, ControllerPending(t) PROVE QueueInv'
  BY <1>0, <1>11, Zenon DEF ControllerPending, runner, system, given
<1>12. ASSUME NEW a \in Arbs, Start(a) PROVE QueueInv'
  <2>1. UNCHANGED <<q, stopSent>>
    BY <1>12, Zenon DEF Start, runner, system, given
  <2>2. \A u \in Threads : ctl'[u] = "gone" => q[u] = <<>>
    BY <1>12, ArbiterAssumption, Zenon DEF Start, QueueInv, TypeOK, ThreadInv, Threads
  <2>3. \A u \in stopSent : ctl'[u] # "none" /\ (Receiving(u)' => Receiving(u))
    BY <1>12, ArbiterAssumption, Zenon DEF Start, QueueInv, TypeOK, Receiving, ThreadInv,
         Threads
  <2>4. \A i \in Jobs : job[i] = "queued" /\ q[at[i]] # <<>>
          => job'[i] = "queued" /\ at'[i] = at[i] /\ (i \in late' => i \in late)
    BY <1>12, Zenon DEF Start, QueueInv, TypeOK, given
  <2> QED BY <2>1, <2>2, <2>3, <2>4, QueuesKept, Zenon
<1>13. ASSUME NEW a \in Arbs, End(a) PROVE QueueInv'
  <2>1. UNCHANGED <<q, stopSent>>
    BY <1>13, Zenon DEF End, runner, system, given
  <2>2. \A u \in Threads : ctl'[u] = "gone" => q[u] = <<>>
    BY <1>13, Zenon DEF End, QueueInv, TypeOK
  <2>3. \A u \in stopSent : ctl'[u] # "none" /\ (Receiving(u)' => Receiving(u))
    BY <1>13, Zenon DEF End, QueueInv, TypeOK, Receiving
  <2>4. \A i \in Jobs : job[i] = "queued" /\ q[at[i]] # <<>>
          => job'[i] = "queued" /\ at'[i] = at[i] /\ (i \in late' => i \in late)
    BY <1>13, Zenon DEF End, QueueInv, TypeOK, given, DropLocalSet, Threads
  <2> QED BY <2>1, <2>2, <2>3, <2>4, QueuesKept, Zenon
<1>14. ASSUME NEW j \in Jobs, NEW st \in {"ran", "panicked"}, RunFiber(j, st) PROVE QueueInv'
  <2>1. UNCHANGED <<q, stopSent>>
    BY <1>14, Zenon DEF RunFiber, runner, system, given
  <2>2. \A u \in Threads : ctl'[u] = "gone" => q[u] = <<>>
    BY <1>14, Zenon DEF RunFiber, QueueInv, TypeOK
  <2>3. \A u \in stopSent : ctl'[u] # "none" /\ (Receiving(u)' => Receiving(u))
    BY <1>14, Zenon DEF RunFiber, QueueInv, TypeOK, Receiving
  <2>4. \A i \in Jobs : job[i] = "queued" /\ q[at[i]] # <<>>
          => job'[i] = "queued" /\ at'[i] = at[i] /\ (i \in late' => i \in late)
    BY <1>14, Zenon DEF RunFiber, QueueInv, TypeOK, given
  <2> QED BY <2>1, <2>2, <2>3, <2>4, QueuesKept, Zenon
<1>15. CASE WakeSystem
  BY <1>0, <1>15, Zenon DEF WakeSystem, runner, system, given
<1>16. CASE SysExit
  <2>1. arbiters \in SUBSET Threads
    BY Zenon DEF TypeOK, Threads
  <2> QED BY <1>16, <2>1, QueueStopped, Zenon DEF SysExit, SysReads, given
<1>17. CASE SysRegister
  BY <1>0, <1>17, Zenon DEF SysRegister, SysReads, runner, system, given
<1>18. CASE SysUnregister
  BY <1>0, <1>18, Zenon DEF SysUnregister, SysReads, runner, system, given
<1>19. CASE SystemPending
  BY <1>0, <1>19, Zenon DEF SystemPending, runner, system, given
<1>20. CASE Run
  <2>1. UNCHANGED <<q, stopSent>>
    BY <1>20, Zenon DEF Run, RunSystem, runner, system, given
  <2>2. \A u \in Threads : ctl'[u] = "gone" => q[u] = <<>>
    BY <1>20, Zenon DEF Run, RunSystem, QueueInv, TypeOK, ThreadInv, Threads
  <2>3. \A u \in stopSent : ctl'[u] # "none" /\ (Receiving(u)' => Receiving(u))
    BY <1>20, Zenon DEF Run, RunSystem, QueueInv, TypeOK, Receiving, ThreadInv, Threads
  <2>4. \A i \in Jobs : job[i] = "queued" /\ q[at[i]] # <<>>
          => job'[i] = "queued" /\ at'[i] = at[i] /\ (i \in late' => i \in late)
    BY <1>20, Zenon DEF Run, RunSystem, QueueInv, TypeOK, given
  <2> QED BY <2>1, <2>2, <2>3, <2>4, QueuesKept, Zenon
<1>21. CASE BlockOn
  <2>1. UNCHANGED <<q, stopSent>>
    BY <1>21, Zenon DEF BlockOn, RunSystem, runner, system, given
  <2>2. \A u \in Threads : ctl'[u] = "gone" => q[u] = <<>>
    BY <1>21, Zenon DEF BlockOn, RunSystem, QueueInv, TypeOK, ThreadInv, Threads
  <2>3. \A u \in stopSent : ctl'[u] # "none" /\ (Receiving(u)' => Receiving(u))
    BY <1>21, Zenon DEF BlockOn, RunSystem, QueueInv, TypeOK, Receiving, ThreadInv, Threads
  <2>4. \A i \in Jobs : job[i] = "queued" /\ q[at[i]] # <<>>
          => job'[i] = "queued" /\ at'[i] = at[i] /\ (i \in late' => i \in late)
    BY <1>21, Zenon DEF BlockOn, RunSystem, QueueInv, TypeOK, given
  <2> QED BY <2>1, <2>2, <2>3, <2>4, QueuesKept, Zenon
<1>22. CASE BlockOnReturns
  BY <1>0, <1>22, Zenon DEF BlockOnReturns, runner, system, given
<1>23. CASE RunReturns
  <2>1. CASE UNCHANGED <<ctl, q>>
    <3>1. \A j \in Jobs : job[j] = "queued" /\ q[at[j]] # <<>> => job'[j] = "queued"
      BY <1>23, <2>1 DEF RunReturns, DropRuntime, DropLocalSet, QueueInv, Threads, TypeOK
    <3> QED BY <1>23, <2>1, <3>1, QueuesKept, Zenon DEF RunReturns, QueueInv, given, Receiving
  <2>2. CASE ~ UNCHANGED <<ctl, q>>
    <3>1. \A j \in Jobs : at[j] # Sys => job'[j] = job[j]
      BY <1>23, Zenon DEF RunReturns, DropRuntime, DropLocalSet
    <3>2. Sys \in Threads /\ q' = [q EXCEPT ![Sys] = <<>>] /\ ctl' = [ctl EXCEPT ![Sys] = "gone"]
      BY <1>23, <2>2, Zenon DEF RunReturns, DropRuntime, Threads
    <3>3. UNCHANGED <<at, late, stopSent>>
      BY <1>23, Zenon DEF RunReturns, given
    <3> QED BY <3>1, <3>2, <3>3, QueueDropped, Zenon
  <2> QED BY <2>1, <2>2, Zenon
<1>24. CASE DropRunner
  <2>1. CASE UNCHANGED <<ctl, q>>
    <3>1. \A j \in Jobs : job[j] = "queued" /\ q[at[j]] # <<>> => job'[j] = "queued"
      BY <1>24, <2>1, Zenon DEF DropRunner, DropRuntime, DropLocalSet, QueueInv, Threads,
           TypeOK
    <3> QED BY <1>24, <2>1, <3>1, QueuesKept, Zenon DEF DropRunner, QueueInv, given, Receiving
  <2>2. CASE ~ UNCHANGED <<ctl, q>>
    <3>1. \A j \in Jobs : at[j] # Sys => job'[j] = job[j]
      BY <1>24, Zenon DEF DropRunner, DropRuntime, DropLocalSet
    <3>2. Sys \in Threads /\ q' = [q EXCEPT ![Sys] = <<>>] /\ ctl' = [ctl EXCEPT ![Sys] = "gone"]
      BY <1>24, <2>2, Zenon DEF DropRunner, DropRuntime, Threads
    <3>3. UNCHANGED <<at, late, stopSent>>
      BY <1>24, Zenon DEF DropRunner, given
    <3> QED BY <3>1, <3>2, <3>3, QueueDropped, Zenon
  <2> QED BY <2>1, <2>2, Zenon
<1>25. CASE UNCHANGED vars
  BY <1>0, <1>25, Zenon DEF vars, runner, system, given
<1> QED BY <1>1, <1>2, <1>3, <1>4, <1>5, <1>6, <1>7, <1>8, <1>9, <1>10, <1>11, <1>12, <1>13,
     <1>14, <1>15, <1>16, <1>17, <1>18, <1>19, <1>20, <1>21, <1>22, <1>23, <1>24, <1>25,
     Zenon DEF Next, Calls, Controller, SystemArbiter

\* Every step keeps what callers are told of their jobs true.
LEMMA JobStep ==
  ASSUME TypeOK, ThreadInv, QueueInv, JobInv, [Next]_vars PROVE JobInv'
<1>0. UNCHANGED <<ctl, job, kind, at, late>> => JobInv'
  BY Zenon DEF JobInv, NothingAfterStop, CanceledMeansGone
<1>1. ASSUME NEW t \in Threads, NEW j \in Jobs, Spawn(t, j) PROVE JobInv'
  <2>1. NothingAfterStop'
    BY <1>1, Zenon DEF Spawn, TypeOK, JobInv, NothingAfterStop, given, NextJob
  <2>2. CanceledMeansGone'
    BY <1>1, Zenon DEF Spawn, TypeOK, JobInv, CanceledMeansGone, given, NextJob
  <2>3. \A i \in Jobs : kind'[i] = "exec" => job'[i] \notin {"parked", "spawned"}
    BY <1>1, Zenon DEF Spawn, TypeOK, JobInv, given, NextJob
  <2> QED BY <2>1, <2>2, <2>3, Zenon DEF JobInv
<1>2. ASSUME NEW t \in Threads, NEW j \in Jobs, NEW k \in {"send", "exec"}, Send(t, j, k) PROVE
             JobInv'
  <2>1. NothingAfterStop'
    BY <1>2 DEF Send, TypeOK, JobInv, NothingAfterStop, given, NextJob, Receiving
  <2>2. CanceledMeansGone'
    BY <1>2 DEF Send, TypeOK, JobInv, CanceledMeansGone, given, NextJob, Receiving
  <2>3. \A i \in Jobs : kind'[i] = "exec" => job'[i] \notin {"parked", "spawned"}
    BY <1>2, Zenon DEF Send, TypeOK, JobInv, given, NextJob, Receiving
  <2> QED BY <2>1, <2>2, <2>3, Zenon DEF JobInv
<1>3. ASSUME NEW j \in Jobs, ForgetExec(j) PROVE JobInv'
  BY <1>0, <1>3, Zenon DEF ForgetExec, runner, system, given
<1>4. ASSUME NEW t \in Threads, StopArbiter(t) PROVE JobInv'
  BY <1>0, <1>4, Zenon DEF StopArbiter, runner, system, given
<1>5. ASSUME NEW c \in Codes, StopSystem(c) PROVE JobInv'
  BY <1>0, <1>5, Zenon DEF StopSystem, runner, system, given
<1>6. ASSUME NEW a \in Arbs, NewArbiter(a) PROVE JobInv'
  <2>1. NothingAfterStop'
    BY <1>6, Zenon DEF NewArbiter, TypeOK, JobInv, NothingAfterStop, given, ThreadInv
  <2>2. CanceledMeansGone'
    BY <1>6, Zenon DEF NewArbiter, TypeOK, JobInv, CanceledMeansGone, given, ThreadInv
  <2>3. \A i \in Jobs : kind'[i] = "exec" => job'[i] \notin {"parked", "spawned"}
    BY <1>6, Zenon DEF NewArbiter, TypeOK, JobInv, given, ThreadInv
  <2> QED BY <2>1, <2>2, <2>3, Zenon DEF JobInv
<1>7. ASSUME NEW t \in Threads, WakeController(t) PROVE JobInv'
  BY <1>0, <1>7, Zenon DEF WakeController, runner, system, given
<1>8. ASSUME NEW t \in Threads, TakeStop(t) PROVE JobInv'
  <2>1. NothingAfterStop'
    BY <1>8, ArbiterAssumption, Zenon DEF TakeStop, TypeOK, JobInv, NothingAfterStop, given,
         AfterDrop, Stop
  <2>2. CanceledMeansGone'
    BY <1>8, ArbiterAssumption, Zenon DEF TakeStop, TypeOK, JobInv, CanceledMeansGone,
         given, AfterDrop, Stop
  <2>3. \A i \in Jobs : kind'[i] = "exec" => job'[i] \notin {"parked", "spawned"}
    BY <1>8, ArbiterAssumption, Zenon DEF TakeStop, TypeOK, JobInv, given, AfterDrop, Stop
  <2> QED BY <2>1, <2>2, <2>3, Zenon DEF JobInv
<1>9. ASSUME NEW t \in Threads, TakeJob(t) PROVE JobInv'
  <2>0. Head(q[t]) \in Jobs /\ Head(q[t]) \notin late
    BY <1>9, HeadInOrder, Zenon DEF TakeJob, Reads
  <2>1. NothingAfterStop'
    BY <1>9, <2>0, Zenon DEF TakeJob, TypeOK, JobInv, NothingAfterStop, given
  <2>2. CanceledMeansGone'
    BY <1>9, <2>0, Zenon DEF TakeJob, TypeOK, JobInv, CanceledMeansGone, given
  <2>3. \A i \in Jobs : kind'[i] = "exec" => job'[i] \notin {"parked", "spawned"}
    BY <1>9, <2>0, Zenon DEF TakeJob, TypeOK, JobInv, given
  <2> QED BY <2>1, <2>2, <2>3, Zenon DEF JobInv
<1>10. ASSUME NEW t \in Threads, JobPanics(t) PROVE JobInv'
  <2>0. Head(q[t]) \in Jobs /\ Head(q[t]) \notin late
    BY <1>10, HeadInOrder, Zenon DEF JobPanics, Reads
  <2>1. NothingAfterStop'
    BY <1>10, <2>0, Zenon DEF JobPanics, TypeOK, JobInv, NothingAfterStop, given, AfterDrop
  <2>2. CanceledMeansGone'
    BY <1>10, <2>0, Zenon DEF JobPanics, TypeOK, JobInv, CanceledMeansGone, given, AfterDrop
  <2>3. \A i \in Jobs : kind'[i] = "exec" => job'[i] \notin {"parked", "spawned"}
    BY <1>10, <2>0, Zenon DEF JobPanics, TypeOK, JobInv, given, AfterDrop
  <2> QED BY <2>1, <2>2, <2>3, Zenon DEF JobInv
<1>11. ASSUME NEW t \in Threads, ControllerPending(t) PROVE JobInv'
  BY <1>0, <1>11, Zenon DEF ControllerPending, runner, system, given
<1>12. ASSUME NEW a \in Arbs, Start(a) PROVE JobInv'
  <2>1. NothingAfterStop'
    BY <1>12, Zenon DEF Start, TypeOK, JobInv, NothingAfterStop, given, ThreadInv
  <2>2. CanceledMeansGone'
    BY <1>12, Zenon DEF Start, TypeOK, JobInv, CanceledMeansGone, given, ThreadInv
  <2>3. \A i \in Jobs : kind'[i] = "exec" => job'[i] \notin {"parked", "spawned"}
    BY <1>12, Zenon DEF Start, TypeOK, JobInv, given, ThreadInv
  <2> QED BY <2>1, <2>2, <2>3, Zenon DEF JobInv
<1>13. ASSUME NEW a \in Arbs, End(a) PROVE JobInv'
  <2>1. NothingAfterStop'
    BY <1>13, Zenon DEF End, TypeOK, JobInv, NothingAfterStop, given, DropLocalSet
  <2>2. CanceledMeansGone'
    BY <1>13, Zenon DEF End, TypeOK, JobInv, CanceledMeansGone, given, DropLocalSet
  <2>3. \A i \in Jobs : kind'[i] = "exec" => job'[i] \notin {"parked", "spawned"}
    BY <1>13, Zenon DEF End, TypeOK, JobInv, given, DropLocalSet
  <2> QED BY <2>1, <2>2, <2>3, Zenon DEF JobInv
<1>14. ASSUME NEW j \in Jobs, NEW st \in {"ran", "panicked"}, RunFiber(j, st) PROVE JobInv'
  <2>1. NothingAfterStop'
    BY <1>14, Zenon DEF RunFiber, TypeOK, JobInv, NothingAfterStop, given
  <2>2. CanceledMeansGone'
    BY <1>14, Zenon DEF RunFiber, TypeOK, JobInv, CanceledMeansGone, given
  <2>3. \A i \in Jobs : kind'[i] = "exec" => job'[i] \notin {"parked", "spawned"}
    BY <1>14, Zenon DEF RunFiber, TypeOK, JobInv, given
  <2> QED BY <2>1, <2>2, <2>3, Zenon DEF JobInv
<1>15. CASE WakeSystem
  BY <1>0, <1>15, Zenon DEF WakeSystem, runner, system, given
<1>16. CASE SysExit
  BY <1>0, <1>16, Zenon DEF SysExit, SysReads, runner, system, given
<1>17. CASE SysRegister
  BY <1>0, <1>17, Zenon DEF SysRegister, SysReads, runner, system, given
<1>18. CASE SysUnregister
  BY <1>0, <1>18, Zenon DEF SysUnregister, SysReads, runner, system, given
<1>19. CASE SystemPending
  BY <1>0, <1>19, Zenon DEF SystemPending, runner, system, given
<1>20. CASE Run
  <2>1. NothingAfterStop'
    BY <1>20, Zenon DEF Run, RunSystem, TypeOK, JobInv, NothingAfterStop, given, ThreadInv,
         Threads
  <2>2. CanceledMeansGone'
    BY <1>20, Zenon DEF Run, RunSystem, TypeOK, JobInv, CanceledMeansGone, given, ThreadInv,
         Threads
  <2>3. \A i \in Jobs : kind'[i] = "exec" => job'[i] \notin {"parked", "spawned"}
    BY <1>20, Zenon DEF Run, RunSystem, TypeOK, JobInv, given, ThreadInv, Threads
  <2> QED BY <2>1, <2>2, <2>3, Zenon DEF JobInv
<1>21. CASE BlockOn
  <2>1. NothingAfterStop'
    BY <1>21, Zenon DEF BlockOn, RunSystem, TypeOK, JobInv, NothingAfterStop, given,
         ThreadInv, Threads
  <2>2. CanceledMeansGone'
    BY <1>21, Zenon DEF BlockOn, RunSystem, TypeOK, JobInv, CanceledMeansGone, given,
         ThreadInv, Threads
  <2>3. \A i \in Jobs : kind'[i] = "exec" => job'[i] \notin {"parked", "spawned"}
    BY <1>21, Zenon DEF BlockOn, RunSystem, TypeOK, JobInv, given, ThreadInv, Threads
  <2> QED BY <2>1, <2>2, <2>3, Zenon DEF JobInv
<1>22. CASE BlockOnReturns
  BY <1>0, <1>22, Zenon DEF BlockOnReturns, runner, system, given
<1>23. CASE RunReturns
  <2>1. NothingAfterStop'
    BY <1>23 DEF RunReturns, TypeOK, JobInv, NothingAfterStop, given, DropRuntime,
         DropLocalSet, Threads
  <2>2. CanceledMeansGone'
    BY <1>23 DEF RunReturns, TypeOK, JobInv, CanceledMeansGone, given, DropRuntime,
         DropLocalSet, Threads
  <2>3. \A i \in Jobs : kind'[i] = "exec" => job'[i] \notin {"parked", "spawned"}
    BY <1>23 DEF RunReturns, TypeOK, JobInv, given, DropRuntime, DropLocalSet, Threads
  <2> QED BY <2>1, <2>2, <2>3, Zenon DEF JobInv
<1>24. CASE DropRunner
  <2>1. NothingAfterStop'
    BY <1>24, Zenon DEF DropRunner, TypeOK, JobInv, NothingAfterStop, given, DropRuntime,
         DropLocalSet, Threads
  <2>2. CanceledMeansGone'
    BY <1>24 DEF DropRunner, TypeOK, JobInv, CanceledMeansGone, given, DropRuntime,
         DropLocalSet, Threads
  <2>3. \A i \in Jobs : kind'[i] = "exec" => job'[i] \notin {"parked", "spawned"}
    BY <1>24, Zenon DEF DropRunner, TypeOK, JobInv, given, DropRuntime, DropLocalSet, Threads
  <2> QED BY <2>1, <2>2, <2>3, Zenon DEF JobInv
<1>25. CASE UNCHANGED vars
  BY <1>0, <1>25, Zenon DEF vars, runner, system, given
<1> QED BY <1>1, <1>2, <1>3, <1>4, <1>5, <1>6, <1>7, <1>8, <1>9, <1>10, <1>11, <1>12, <1>13,
     <1>14, <1>15, <1>16, <1>17, <1>18, <1>19, <1>20, <1>21, <1>22, <1>23, <1>24, <1>25,
     Zenon DEF Next, Calls, Controller, SystemArbiter

\* SystemCommands that are sent arrive, unless the SystemArbiter is gone.
LEMMA PendingSent ==
  ASSUME TypeOK, NEW cmd \in SystemCommand, SendSystem(cmd), NEW op, NEW a
  PROVE  /\ Pending(op, a) => Pending(op, a)'
         /\ sysOpen /\ cmd.op = op /\ cmd.arg = a => Pending(op, a)'
         /\ Pending(op, a)' => Pending(op, a) \/ (sysOpen /\ cmd.op = op /\ cmd.arg = a)
<1>1. CASE sysOpen
  <2>1. /\ Len(sysq) \in Nat /\ Len(sysq') = Len(sysq) + 1 /\ sysq'[Len(sysq) + 1] = cmd
        /\ \A i \in 1..Len(sysq) : sysq'[i] = sysq[i]
    BY <1>1, AppendAt DEF SendSystem, TypeOK
  <2>2. Len(sysq) + 1 \in 1..Len(sysq') /\ \A i \in 1..Len(sysq) : i \in 1..Len(sysq')
    BY <2>1
  <2>3. \A i \in 1..Len(sysq') : i \in 1..Len(sysq) \/ i = Len(sysq) + 1
    BY <2>1
  <2> QED BY <1>1, <2>1, <2>2, <2>3, Zenon DEF Pending
<1>2. CASE ~ sysOpen
  BY <1>2, Zenon DEF SendSystem, Pending
<1> QED BY <1>1, <1>2, Zenon

\* Reading a SystemCommand takes it, and no other, from the queue.
LEMMA PendingRead ==
  ASSUME TypeOK, sysq # <<>>, sysq' = Tail(sysq), NEW op, NEW a
  PROVE  /\ Pending(op, a)' => Pending(op, a)
         /\ Head(sysq).op = op /\ Head(sysq).arg = a => Pending(op, a)
         /\ Pending(op, a) => Pending(op, a)' \/ (Head(sysq).op = op /\ Head(sysq).arg = a)
<1>1. /\ Len(sysq) \in Nat \ {0} /\ Len(sysq') = Len(sysq) - 1 /\ Head(sysq) = sysq[1]
      /\ \A i \in 1..Len(sysq') : sysq'[i] = sysq[i + 1]
  BY TailAt, Zenon DEF TypeOK
<1>2. 1 \in 1..Len(sysq) /\ \A i \in 1..Len(sysq') : i + 1 \in 1..Len(sysq)
  BY <1>1
<1>3. \A i \in 1..Len(sysq) : i # 1 => i - 1 \in 1..Len(sysq') /\ sysq'[i - 1] = sysq[i]
  <2>1. ASSUME NEW i \in 1..Len(sysq), i # 1 PROVE i - 1 \in 1..Len(sysq') /\ (i - 1) + 1 = i
    BY <1>1, <2>1
  <2> QED BY <1>1, <2>1, Zenon
<1>4. Pending(op, a)' => Pending(op, a)
  BY <1>1, <1>2, Zenon DEF Pending
<1>5. Head(sysq).op = op /\ Head(sysq).arg = a => Pending(op, a)
  BY <1>1, <1>2, Zenon DEF Pending
<1>6. Pending(op, a) => Pending(op, a)' \/ (Head(sysq).op = op /\ Head(sysq).arg = a)
  BY <1>1, <1>3, Zenon DEF Pending
<1> QED BY <1>4, <1>5, <1>6, Zenon

LEMMA OrderSent ==
  ASSUME TypeOK, RegisteredFirst, NEW cmd \in SystemCommand, SendSystem(cmd),
         cmd.op = "Register" => ~ Pending("Unregister", cmd.arg)
  PROVE  RegisteredFirst'
<1>1. CASE sysOpen
  <2>1. /\ Len(sysq) \in Nat /\ Len(sysq') = Len(sysq) + 1 /\ sysq'[Len(sysq) + 1] = cmd
        /\ \A i \in 1..Len(sysq) : sysq'[i] = sysq[i]
    BY <1>1, AppendAt DEF SendSystem, TypeOK
  <2>2. ASSUME NEW i \in 1..Len(sysq'), NEW k \in 1..Len(sysq'), sysq'[i].op = "Unregister",
               sysq'[k].op = "Register", sysq'[i].arg = sysq'[k].arg
        PROVE  k < i
    <3>1. CASE i \in 1..Len(sysq) /\ k \in 1..Len(sysq)
      BY <2>1, <2>2, <3>1, Zenon DEF RegisteredFirst
    <3>2. CASE i \in 1..Len(sysq) /\ k = Len(sysq) + 1
      BY <2>1, <2>2, <3>2, Zenon DEF Pending
    <3>3. CASE i = Len(sysq) + 1
      <4>1. k # i
        BY <2>2, Zenon
      <4> QED BY <2>1, <2>2, <3>3, <4>1
    <3> QED BY <2>1, <2>2, <3>1, <3>2, <3>3
  <2> QED BY <2>2, Zenon DEF RegisteredFirst
<1>2. CASE ~ sysOpen
  BY <1>2, Zenon DEF SendSystem, RegisteredFirst
<1> QED BY <1>1, <1>2, Zenon

LEMMA OrderRead ==
  ASSUME TypeOK, RegisteredFirst, sysq # <<>>, sysq' = Tail(sysq)
  PROVE  /\ RegisteredFirst'
         /\ Head(sysq).op = "Unregister" => ~ Pending("Register", Head(sysq).arg)
<1>1. /\ Len(sysq) \in Nat \ {0} /\ Len(sysq') = Len(sysq) - 1 /\ Head(sysq) = sysq[1]
      /\ \A i \in 1..Len(sysq') : sysq'[i] = sysq[i + 1]
  BY TailAt, Zenon DEF TypeOK
<1>2. ASSUME NEW i \in 1..Len(sysq'), NEW k \in 1..Len(sysq'), sysq'[i].op = "Unregister",
             sysq'[k].op = "Register", sysq'[i].arg = sysq'[k].arg
      PROVE  k < i
  <2>1. i + 1 \in 1..Len(sysq) /\ k + 1 \in 1..Len(sysq)
    BY <1>1, <1>2
  <2>2. k + 1 < i + 1
    BY <1>1, <1>2, <2>1, Zenon DEF RegisteredFirst
  <2> QED BY <1>1, <1>2, <2>2
<1>3. ASSUME Head(sysq).op = "Unregister", Pending("Register", Head(sysq).arg) PROVE FALSE
  <2>1. PICK k \in 1..Len(sysq) : sysq[k].op = "Register" /\ sysq[k].arg = Head(sysq).arg
    BY <1>3, Zenon DEF Pending
  <2>2. 1 \in 1..Len(sysq)
    BY <1>1
  <2>3. k < 1
    BY <1>1, <1>3, <2>1, <2>2, Zenon DEF RegisteredFirst
  <2> QED BY <1>1, <2>1, <2>3
<1> QED BY <1>2, <1>3, Zenon DEF RegisteredFirst

\* An Exit changes nothing for the registry.
LEMMA ExitSent ==
  ASSUME TypeOK, RegistryInv, NEW c \in Codes \cup {1},
         SendSystem([op |-> "Exit", arg |-> c]), UNCHANGED <<arb, arbiters, sysOpen>>
  PROVE  RegistryInv'
<1>1. [op |-> "Exit", arg |-> c] \in SystemCommand
  BY Zenon DEF SystemCommand
<1>2. RegisteredFirst'
  BY <1>1, OrderSent, Zenon DEF RegistryInv
<1>3. \A op, a : op # "Exit" => (Pending(op, a)' <=> Pending(op, a))
  BY <1>1, PendingSent, Zenon
<1> QED BY <1>2, <1>3, Zenon DEF RegistryInv, RegistryHonest

\* Every step keeps the registry right about the threads.
LEMMA RegistryStep ==
  ASSUME TypeOK, RegistryInv, [Next]_vars PROVE RegistryInv'
<1>0. UNCHANGED <<arb, sysq, sysOpen, arbiters>> => RegistryInv'
  BY DEF RegistryInv, RegistryHonest, RegisteredFirst, Pending
<1>1. ASSUME NEW t \in Threads, NEW j \in Jobs, Spawn(t, j) PROVE RegistryInv'
  BY <1>0, <1>1, Zenon DEF Spawn, runner, system, given
<1>2. ASSUME NEW t \in Threads, NEW j \in Jobs, NEW k \in {"send", "exec"}, Send(t, j, k) PROVE
             RegistryInv'
  BY <1>0, <1>2, Zenon DEF Send, runner, system, given
<1>3. ASSUME NEW j \in Jobs, ForgetExec(j) PROVE RegistryInv'
  BY <1>0, <1>3, Zenon DEF ForgetExec, runner, system, given
<1>4. ASSUME NEW t \in Threads, StopArbiter(t) PROVE RegistryInv'
  BY <1>0, <1>4, Zenon DEF StopArbiter, runner, system, given
<1>5. ASSUME NEW c \in Codes, StopSystem(c) PROVE RegistryInv'
  BY <1>5, ExitSent, Zenon DEF StopSystem
<1>6. ASSUME NEW a \in Arbs, NewArbiter(a) PROVE RegistryInv'
  <2>1. UNCHANGED <<sysq, sysOpen, arbiters>> /\ arb[a] = "none"
    BY <1>6, Zenon DEF NewArbiter, system
  <2>2. \A b \in Arbs : arb'[b] = arb[b] \/ (b = a /\ arb'[b] = "starting")
    BY <1>6, Zenon DEF NewArbiter, TypeOK
  <2> QED BY <2>1, <2>2 DEF RegistryInv, RegistryHonest, RegisteredFirst, Pending
<1>7. ASSUME NEW t \in Threads, WakeController(t) PROVE RegistryInv'
  BY <1>0, <1>7, Zenon DEF WakeController, runner, system, given
<1>8. ASSUME NEW t \in Threads, TakeStop(t) PROVE RegistryInv'
  BY <1>0, <1>8, Zenon DEF TakeStop, runner, system, given
<1>9. ASSUME NEW t \in Threads, TakeJob(t) PROVE RegistryInv'
  BY <1>0, <1>9, Zenon DEF TakeJob, runner, system, given
<1>10. ASSUME NEW t \in Threads, JobPanics(t) PROVE RegistryInv'
  <2>1. CASE StopOnPanic
    BY <1>10, <2>1, ExitSent, Zenon DEF JobPanics
  <2>2. CASE ~ StopOnPanic
    BY <1>0, <1>10, <2>2, Zenon DEF JobPanics
  <2> QED BY <2>1, <2>2, Zenon
<1>11. ASSUME NEW t \in Threads, ControllerPending(t) PROVE RegistryInv'
  BY <1>0, <1>11, Zenon DEF ControllerPending, runner, system, given
<1>12. ASSUME NEW a \in Arbs, Start(a) PROVE RegistryInv'
  <2>1. [op |-> "Register", arg |-> a] \in SystemCommand
    BY Zenon DEF SystemCommand
  <2>2. /\ SendSystem([op |-> "Register", arg |-> a]) /\ UNCHANGED <<sysOpen, arbiters>>
        /\ arb[a] = "starting" /\ arb'[a] = "running"
        /\ \A b \in Arbs : b # a => arb'[b] = arb[b]
    BY <1>12, Zenon DEF Start, TypeOK
  <2>3. ~ Pending("Unregister", a)
    BY <2>2, Zenon DEF RegistryInv
  <2>4. RegisteredFirst'
    BY <2>1, <2>2, <2>3, OrderSent, Zenon DEF RegistryInv
  <2>5. \A b \in Arbs : /\ Pending("Unregister", b)' <=> Pending("Unregister", b)
                        /\ Pending("Register", b) => Pending("Register", b)'
                        /\ b # a => (Pending("Register", b)' => Pending("Register", b))
    BY <2>1, <2>2, PendingSent, Zenon
  <2>6. sysOpen => Pending("Register", a)'
    BY <2>1, <2>2, PendingSent, Zenon
  <2> QED BY <2>2, <2>3, <2>4, <2>5, <2>6, Zenon DEF RegistryInv, RegistryHonest
<1>13. ASSUME NEW a \in Arbs, End(a) PROVE RegistryInv'
  <2>1. [op |-> "Unregister", arg |-> a] \in SystemCommand
    BY Zenon DEF SystemCommand
  <2>2. /\ SendSystem([op |-> "Unregister", arg |-> a]) /\ UNCHANGED <<sysOpen, arbiters>>
        /\ arb'[a] = "done" /\ \A b \in Arbs : b # a => arb'[b] = arb[b]
    BY <1>13, Zenon DEF End, TypeOK
  <2>3. RegisteredFirst'
    BY <2>1, <2>2, OrderSent, Zenon DEF RegistryInv
  <2>4. \A b \in Arbs : /\ Pending("Register", b)' <=> Pending("Register", b)
                        /\ Pending("Unregister", b) => Pending("Unregister", b)'
                        /\ b # a => (Pending("Unregister", b)' => Pending("Unregister", b))
    BY <2>1, <2>2, PendingSent, Zenon
  <2>5. sysOpen => Pending("Unregister", a)'
    BY <2>1, <2>2, PendingSent, Zenon
  <2> QED BY <2>2, <2>3, <2>4, <2>5, Zenon DEF RegistryInv, RegistryHonest
<1>14. ASSUME NEW j \in Jobs, NEW st \in {"ran", "panicked"}, RunFiber(j, st) PROVE RegistryInv'
  BY <1>0, <1>14, Zenon DEF RunFiber, runner, system, given
<1>15. CASE WakeSystem
  BY <1>0, <1>15, Zenon DEF WakeSystem, runner, system, given
<1>16. CASE SysExit
  <2>1. /\ sysq # <<>> /\ sysq' = Tail(sysq) /\ Head(sysq).op = "Exit"
        /\ UNCHANGED <<arb, sysOpen>> /\ UNCHANGED arbiters
    BY <1>16, Zenon DEF SysExit, SysReads
  <2>2. RegisteredFirst'
    BY <2>1, OrderRead, Zenon DEF RegistryInv
  <2>3. \A op, a : op # "Exit" => (Pending(op, a)' <=> Pending(op, a))
    BY <2>1, PendingRead, Zenon
  <2> QED BY <2>1, <2>2, <2>3, Zenon DEF RegistryInv, RegistryHonest
<1>17. CASE SysRegister
  <2>1. /\ sysq # <<>> /\ sysq' = Tail(sysq) /\ Head(sysq).op = "Register"
        /\ UNCHANGED <<arb, sysOpen>> /\ arbiters' = arbiters \cup {Head(sysq).arg}
    BY <1>17, Zenon DEF SysRegister, SysReads
  <2>2. RegisteredFirst'
    BY <2>1, OrderRead, Zenon DEF RegistryInv
  <2>3. \A a \in Arbs : /\ Pending("Unregister", a)' <=> Pending("Unregister", a)
                        /\ Pending("Register", a)' => Pending("Register", a)
                        /\ Pending("Register", a) => a = Head(sysq).arg \/ Pending("Register", a)'
                        /\ a = Head(sysq).arg => Pending("Register", a)
    BY <2>1, PendingRead
  <2> QED BY <2>1, <2>2, <2>3, Zenon DEF RegistryInv, RegistryHonest
<1>18. CASE SysUnregister
  <2>1. /\ sysq # <<>> /\ sysq' = Tail(sysq) /\ Head(sysq).op = "Unregister"
        /\ UNCHANGED <<arb, sysOpen>> /\ arbiters' = arbiters \ {Head(sysq).arg}
    BY <1>18, Zenon DEF SysUnregister, SysReads
  <2>2. RegisteredFirst'
    BY <2>1, OrderRead, Zenon DEF RegistryInv
  <2>3. ~ Pending("Register", Head(sysq).arg)
    BY <2>1, OrderRead, Zenon DEF RegistryInv
  <2>4. \A a \in Arbs : /\ Pending("Register", a)' <=> Pending("Register", a)
                        /\ Pending("Unregister", a)' => Pending("Unregister", a)
                        /\ Pending("Unregister", a) => a = Head(sysq).arg \/ Pending("Unregister", a)'
                        /\ a = Head(sysq).arg => Pending("Unregister", a)
    BY <2>1, PendingRead
  <2> QED BY <2>1, <2>2, <2>3, <2>4, Zenon DEF RegistryInv, RegistryHonest
<1>19. CASE SystemPending
  BY <1>0, <1>19, Zenon DEF SystemPending, runner, system, given
<1>20. CASE Run
  BY <1>0, <1>20, Zenon DEF Run, RunSystem, runner, system, given
<1>21. CASE BlockOn
  BY <1>0, <1>21, Zenon DEF BlockOn, RunSystem, runner, system, given
<1>22. CASE BlockOnReturns
  BY <1>0, <1>22, Zenon DEF BlockOnReturns, runner, system, given
<1>23. CASE RunReturns
  <2>1. CASE mode = "async"
    BY <1>0, <1>23, <2>1, Zenon DEF RunReturns
  <2>2. CASE mode # "async"
    <3>1. sysq' = <<>> /\ ~ sysOpen'
      BY <1>23, <2>2, Zenon DEF RunReturns, DropRuntime
    <3> QED BY <3>1, EmptyAt DEF RegistryInv, RegistryHonest, RegisteredFirst, Pending
  <2> QED BY <2>1, <2>2, Zenon
<1>24. CASE DropRunner
  <2>1. sysq' = <<>> /\ ~ sysOpen'
    BY <1>24, Zenon DEF DropRunner, DropRuntime
  <2> QED BY <2>1, EmptyAt DEF RegistryInv, RegistryHonest, RegisteredFirst, Pending
<1>25. CASE UNCHANGED vars
  BY <1>0, <1>25, Zenon DEF vars, runner, system, given
<1> QED BY <1>1, <1>2, <1>3, <1>4, <1>5, <1>6, <1>7, <1>8, <1>9, <1>10, <1>11, <1>12, <1>13,
     <1>14, <1>15, <1>16, <1>17, <1>18, <1>19, <1>20, <1>21, <1>22, <1>23, <1>24, <1>25,
     Zenon DEF Next, Calls, Controller, SystemArbiter

\* Whatever is sent, the first Exit of the queue stays the first of all.
LEMMA FirstExitSent ==
  ASSUME TypeOK, ExitInv, NEW cmd \in SystemCommand, SendSystem(cmd),
         UNCHANGED <<code, sysOpen>>
  PROVE  ExitInv'
<1>1. cmd.op = "Exit" => cmd.arg # NoCode
  BY ArbiterAssumption DEF SystemCommand, NoCode
<1>2. CASE ~ sysOpen
  BY <1>2, Zenon DEF SendSystem, ExitInv, FirstExitWins, NoCode
<1>3. CASE sysOpen
  <2>1. /\ Len(sysq) \in Nat /\ Len(sysq') = Len(sysq) + 1 /\ sysq'[Len(sysq) + 1] = cmd
        /\ \A i \in 1..Len(sysq) : sysq'[i] = sysq[i]
    BY <1>3, AppendAt DEF SendSystem, TypeOK
  <2>2. FirstExitWins'
    BY Zenon DEF SendSystem, ExitInv, FirstExitWins, NoCode
  <2>3. ASSUME firstExit' = NoCode
        PROVE  code' = NoCode /\ \A i \in 1..Len(sysq') : sysq'[i].op # "Exit"
    <3>1. firstExit = NoCode /\ cmd.op # "Exit"
      BY <1>1, <1>3, <2>3, Zenon DEF SendSystem, NoCode
    <3> QED BY <2>1, <3>1 DEF ExitInv
  <2>4. ASSUME code' = NoCode, firstExit' # NoCode
        PROVE  \E i \in 1..Len(sysq') : /\ sysq'[i].op = "Exit" /\ sysq'[i].arg = firstExit'
                                        /\ \A k \in 1..(i - 1) : sysq'[k].op # "Exit"
    <3>1. CASE firstExit = NoCode
      <4>1. cmd.op = "Exit" /\ cmd.arg = firstExit'
        BY <2>4, <3>1, Zenon DEF SendSystem
      <4>2. Len(sysq) + 1 \in 1..Len(sysq') /\ (Len(sysq) + 1) - 1 = Len(sysq)
        BY <2>1
      <4>3. \A k \in 1..Len(sysq) : sysq'[k].op # "Exit"
        BY <2>1, <3>1, Zenon DEF ExitInv
      <4> QED BY <2>1, <4>1, <4>2, <4>3, Zenon
    <3>2. CASE firstExit # NoCode
      <4>1. PICK i \in 1..Len(sysq) : /\ sysq[i].op = "Exit" /\ sysq[i].arg = firstExit
                                      /\ \A k \in 1..(i - 1) : sysq[k].op # "Exit"
        BY <1>3, <2>4, <3>2, Zenon DEF ExitInv
      <4>2. i \in 1..Len(sysq') /\ firstExit' = firstExit
        BY <2>1, <3>2, <4>1 DEF SendSystem
      <4>3. \A k \in 1..(i - 1) : k \in 1..Len(sysq)
        BY <2>1, <4>1
      <4> QED BY <2>1, <4>1, <4>2, <4>3, Zenon
    <3> QED BY <3>1, <3>2, Zenon
  <2> QED BY <1>3, <2>2, <2>3, <2>4, Zenon DEF ExitInv, NoCode
<1> QED BY <1>2, <1>3, Zenon

\* The SystemArbiter answers the runner with the first Exit it reads (stop.take()).
LEMMA FirstExitRead ==
  ASSUME TypeOK, ExitInv, sysq # <<>>, sysq' = Tail(sysq), UNCHANGED <<firstExit, sysOpen>>,
         code' = IF Head(sysq).op = "Exit" /\ code = NoCode THEN Head(sysq).arg ELSE code
  PROVE  ExitInv'
<1>1. /\ Len(sysq) \in Nat \ {0} /\ Len(sysq') = Len(sysq) - 1 /\ Head(sysq) = sysq[1]
      /\ \A i \in 1..Len(sysq') : sysq'[i] = sysq[i + 1]
  BY TailAt DEF TypeOK
<1>2. sysOpen /\ 1 \in 1..Len(sysq) /\ \A i \in 1..Len(sysq') : i + 1 \in 1..Len(sysq)
  BY <1>1 DEF ExitInv
<1>3. FirstExitWins'
  <2>1. CASE Head(sysq).op = "Exit" /\ code = NoCode
    <3>1. firstExit # NoCode
      BY <1>1, <1>2, <2>1, Zenon DEF ExitInv
    <3>2. PICK i \in 1..Len(sysq) : /\ sysq[i].op = "Exit" /\ sysq[i].arg = firstExit
                                    /\ \A k \in 1..(i - 1) : sysq[k].op # "Exit"
      BY <1>2, <2>1, <3>1, Zenon DEF ExitInv
    <3>3. i = 1
      <4>1. i # 1 => 1 \in 1..(i - 1)
        BY <1>1, <3>2
      <4> QED BY <1>1, <2>1, <3>2, <4>1, Zenon
    <3> QED BY <1>1, <2>1, <3>2, <3>3, Zenon DEF FirstExitWins
  <2>2. CASE ~ (Head(sysq).op = "Exit" /\ code = NoCode)
    <3>1. code' = code
      BY <2>2, Zenon
    <3> QED BY <3>1, Zenon DEF ExitInv, FirstExitWins, NoCode
  <2> QED BY <2>1, <2>2, Zenon
<1>4. ASSUME firstExit' = NoCode
      PROVE  code' = NoCode /\ \A i \in 1..Len(sysq') : sysq'[i].op # "Exit"
  <2>1. code = NoCode /\ \A i \in 1..Len(sysq) : sysq[i].op # "Exit"
    BY <1>4, Zenon DEF ExitInv
  <2> QED BY <1>1, <1>2, <2>1, Zenon
<1>5. ASSUME code' = NoCode, firstExit' # NoCode
      PROVE  \E i \in 1..Len(sysq') : /\ sysq'[i].op = "Exit" /\ sysq'[i].arg = firstExit'
                                      /\ \A k \in 1..(i - 1) : sysq'[k].op # "Exit"
  <2>1. Head(sysq).op # "Exit" /\ code = NoCode
    BY <1>3, <1>5, SystemRead, ArbiterAssumption DEF NoCode
  <2>2. PICK i \in 1..Len(sysq) : /\ sysq[i].op = "Exit" /\ sysq[i].arg = firstExit
                                  /\ \A k \in 1..(i - 1) : sysq[k].op # "Exit"
    BY <1>2, <1>5, <2>1, Zenon DEF ExitInv
  <2>3. i # 1
    BY <1>1, <2>1, <2>2, Zenon
  <2>4. i - 1 \in 1..Len(sysq') /\ (i - 1) + 1 = i
    BY <1>1, <2>2, <2>3
  <2>5. sysq'[i - 1] = sysq[i]
    BY <1>1, <2>4, Zenon
  <2>6. ASSUME NEW k \in 1..((i - 1) - 1) PROVE sysq'[k].op # "Exit"
    <3>1. k \in 1..Len(sysq') /\ k + 1 \in 1..(i - 1)
      BY <1>1, <2>2, <2>6
    <3> QED BY <1>1, <2>2, <3>1, Zenon
  <2> QED BY <2>2, <2>4, <2>5, <2>6, Zenon
<1> QED BY <1>2, <1>3, <1>4, <1>5, Zenon DEF ExitInv, NoCode

\* Every step leaves the first exit code in charge.
LEMMA ExitStep ==
  ASSUME TypeOK, ExitInv, [Next]_vars PROVE ExitInv'
<1>0. UNCHANGED <<code, firstExit, sysq, sysOpen>> => ExitInv'
  BY DEF ExitInv, FirstExitWins, NoCode
<1>1. ASSUME NEW t \in Threads, NEW j \in Jobs, Spawn(t, j) PROVE ExitInv'
  BY <1>0, <1>1, Zenon DEF Spawn, runner, system, given
<1>2. ASSUME NEW t \in Threads, NEW j \in Jobs, NEW k \in {"send", "exec"}, Send(t, j, k) PROVE
             ExitInv'
  BY <1>0, <1>2, Zenon DEF Send, runner, system, given
<1>3. ASSUME NEW j \in Jobs, ForgetExec(j) PROVE ExitInv'
  BY <1>0, <1>3, Zenon DEF ForgetExec, runner, system, given
<1>4. ASSUME NEW t \in Threads, StopArbiter(t) PROVE ExitInv'
  BY <1>0, <1>4, Zenon DEF StopArbiter, runner, system, given
<1>5. ASSUME NEW c \in Codes, StopSystem(c) PROVE ExitInv'
  <2>1. [op |-> "Exit", arg |-> c] \in SystemCommand
    BY Zenon DEF SystemCommand
  <2> QED BY <1>5, <2>1, FirstExitSent, Zenon DEF StopSystem
<1>6. ASSUME NEW a \in Arbs, NewArbiter(a) PROVE ExitInv'
  BY <1>0, <1>6, Zenon DEF NewArbiter, runner, system, given
<1>7. ASSUME NEW t \in Threads, WakeController(t) PROVE ExitInv'
  BY <1>0, <1>7, Zenon DEF WakeController, runner, system, given
<1>8. ASSUME NEW t \in Threads, TakeStop(t) PROVE ExitInv'
  BY <1>0, <1>8, Zenon DEF TakeStop, runner, system, given
<1>9. ASSUME NEW t \in Threads, TakeJob(t) PROVE ExitInv'
  BY <1>0, <1>9, Zenon DEF TakeJob, runner, system, given
<1>10. ASSUME NEW t \in Threads, JobPanics(t) PROVE ExitInv'
  <2>1. CASE StopOnPanic
    <3>1. [op |-> "Exit", arg |-> 1] \in SystemCommand
      BY Zenon DEF SystemCommand
    <3> QED BY <1>10, <2>1, <3>1, FirstExitSent, Zenon DEF JobPanics
  <2>2. CASE ~ StopOnPanic
    BY <1>0, <1>10, <2>2, Zenon DEF JobPanics
  <2> QED BY <2>1, <2>2, Zenon
<1>11. ASSUME NEW t \in Threads, ControllerPending(t) PROVE ExitInv'
  BY <1>0, <1>11, Zenon DEF ControllerPending, runner, system, given
<1>12. ASSUME NEW a \in Arbs, Start(a) PROVE ExitInv'
  <2>1. [op |-> "Register", arg |-> a] \in SystemCommand
    BY Zenon DEF SystemCommand
  <2> QED BY <1>12, <2>1, FirstExitSent, Zenon DEF Start
<1>13. ASSUME NEW a \in Arbs, End(a) PROVE ExitInv'
  <2>1. [op |-> "Unregister", arg |-> a] \in SystemCommand
    BY Zenon DEF SystemCommand
  <2> QED BY <1>13, <2>1, FirstExitSent, Zenon DEF End
<1>14. ASSUME NEW j \in Jobs, NEW st \in {"ran", "panicked"}, RunFiber(j, st) PROVE ExitInv'
  BY <1>0, <1>14, Zenon DEF RunFiber, runner, system, given
<1>15. CASE WakeSystem
  BY <1>0, <1>15, Zenon DEF WakeSystem, runner, system, given
<1>16. CASE SysExit
  BY <1>16, FirstExitRead, Zenon DEF SysExit, SysReads
<1>17. CASE SysRegister
  BY <1>17, FirstExitRead, Zenon DEF SysRegister, SysReads
<1>18. CASE SysUnregister
  BY <1>18, FirstExitRead, Zenon DEF SysUnregister, SysReads
<1>19. CASE SystemPending
  BY <1>0, <1>19, Zenon DEF SystemPending, runner, system, given
<1>20. CASE Run
  BY <1>0, <1>20, Zenon DEF Run, RunSystem, runner, system, given
<1>21. CASE BlockOn
  BY <1>0, <1>21, Zenon DEF BlockOn, RunSystem, runner, system, given
<1>22. CASE BlockOnReturns
  BY <1>0, <1>22, Zenon DEF BlockOnReturns, runner, system, given
<1>23. CASE RunReturns
  <2>1. CASE mode = "async"
    BY <1>0, <1>23, <2>1, Zenon DEF RunReturns
  <2>2. CASE mode # "async"
    <3>1. sysq' = <<>> /\ ~ sysOpen' /\ UNCHANGED <<code, firstExit>>
      BY <1>23, <2>2, Zenon DEF RunReturns, DropRuntime
    <3> QED BY <3>1, EmptyAt DEF ExitInv, FirstExitWins, NoCode
  <2> QED BY <2>1, <2>2, Zenon
<1>24. CASE DropRunner
  <2>1. sysq' = <<>> /\ ~ sysOpen' /\ UNCHANGED <<code, firstExit>>
    BY <1>24, Zenon DEF DropRunner, DropRuntime
  <2> QED BY <2>1, EmptyAt DEF ExitInv, FirstExitWins, NoCode
<1>25. CASE UNCHANGED vars
  BY <1>0, <1>25, Zenon DEF vars, runner, system, given
<1> QED BY <1>1, <1>2, <1>3, <1>4, <1>5, <1>6, <1>7, <1>8, <1>9, <1>10, <1>11, <1>12, <1>13,
     <1>14, <1>15, <1>16, <1>17, <1>18, <1>19, <1>20, <1>21, <1>22, <1>23, <1>24, <1>25,
     Zenon DEF Next, Calls, Controller, SystemArbiter

LEMMA ArbiterInitInv ==
  ASSUME Init PROVE ArbiterInv
<1> USE ArbiterAssumption
<1>1. BoolOK
  BY Zenon DEF Init, BoolOK
<1>2. /\ <<>> \in Seq(Command) /\ <<>> \in Seq(SystemCommand) /\ <<Sys>> \in Seq(Jobs \cup {Sys})
      /\ Len(<<>>) = 0 /\ \A s \in {<<>>} : 1..Len(s) = {}
  BY EmptyAt
<1>3. TypeOK
  <2>1. /\ arb \in [Arbs -> {"none"}] /\ polling \in [Threads -> {"none"}]
        /\ ctl \in [Threads -> {"boxed", "none"}] /\ Sys \in Threads
    BY Zenon DEF Init, Threads
  <2>2. q \in [Threads -> Seq(Command)] /\ sysq \in Seq(SystemCommand)
        /\ parked \in Seq(Jobs \cup {Sys})
    BY <1>2, Zenon DEF Init
  <2>3. /\ job \in [Jobs -> Outcome] /\ kind \in [Jobs -> {"none"}]
        /\ at \in [Jobs -> Threads]
    BY <2>1, Zenon DEF Init, Outcome
  <2> QED BY <1>1, <2>1, <2>2, <2>3 DEF Init, TypeOK
<1>4. ThreadInv
  BY Zenon DEF Init, ThreadInv, Executing, Threads, Sys
<1>5. QueueInv
  BY <1>2, Zenon DEF Init, QueueInv
<1>6. JobInv
  BY Zenon DEF Init, JobInv, NothingAfterStop, CanceledMeansGone
<1>7. RegistryInv
  BY <1>2, Zenon DEF Init, RegistryInv, RegistryHonest, RegisteredFirst, Pending
<1>8. ExitInv
  BY <1>2, Zenon DEF Init, ExitInv, FirstExitWins, NoCode
<1> QED BY <1>3, <1>4, <1>5, <1>6, <1>7, <1>8, Zenon DEF ArbiterInv

LEMMA ArbiterStepInv ==
  ASSUME ArbiterInv, [Next]_vars PROVE ArbiterInv'
<1>1. TypeOK /\ ThreadInv /\ QueueInv /\ JobInv /\ RegistryInv /\ ExitInv
  BY Zenon DEF ArbiterInv
<1>2. TypeOK' /\ ThreadInv' /\ QueueInv'
  BY <1>1, TypeStep, ThreadStep, QueueStep, Zenon
<1>3. JobInv' /\ RegistryInv' /\ ExitInv'
  BY <1>1, JobStep, RegistryStep, ExitStep, Zenon
<1> QED BY <1>2, <1>3, Zenon DEF ArbiterInv

\* For any arbiters, jobs, exit codes and bounds: the registry of the SystemArbiter, with the
\* commands it has not read, is right about every arbiter thread, the runner returns the
\* first exit code that was sent, nothing sent after Arbiter::stop is executed, Canceled is
\* answered only for a controller that is gone, and RUNNING means that the LocalSet is polled
\* (fiber/arbiter.rs, system.rs, builder.rs).
THEOREM ArbiterCorrect == Spec => []ArbiterSound
<1>1. ArbiterInv => ArbiterSound
  BY Zenon DEF ArbiterInv, ArbiterSound, SystemSound, JobsTruthful, RunningMeansExecuting,
       Executing, ThreadInv, JobInv, RegistryInv, ExitInv
<1>2. Init => ArbiterInv
  BY ArbiterInitInv, Zenon
<1>3. ArbiterInv /\ [Next]_vars => ArbiterInv'
  BY ArbiterStepInv, Zenon
<1> QED BY <1>1, <1>2, <1>3, PTL DEF Spec
=============================================================================
