---------------------------- MODULE MCScheduler ----------------------------
(***************************************************************************)
(* The basic scheduler and the parker its thread sleeps on, one of them per *)
(* behaviour.  Their other threads share names, so that one strong fairness *)
(* condition serves a thread of either.                                    *)
(***************************************************************************)
EXTENDS ParkThread, Integers, Sequences

VARIABLES
  part,  \* the component this behaviour is of
  schedulerState, new, bound, owned, local, remote, open, lock, pending, token,
  tick, budget, main_woken, owner, current, todo, carrying, deadlocked

\* Two tasks, two foreign threads, a remote check at every second tick.
Scheduler == INSTANCE Scheduler WITH
  Tasks <- {"t1", "t2"}, Threads <- Unparkers, NoTask <- "none",
  CHECK_REMOTE_INTERVAL <- 2, MAX_TASKS_PER_TICK <- 2, TickWrap <- 3,
  DropWakes <- TRUE, state <- schedulerState
schedulerVars == <<schedulerState, new, bound, owned, local, remote, open, lock, pending, token,
    tick, budget, main_woken, owner, current, todo, carrying, deadlocked>>

\* The component that a behaviour is not of stays in an initial state.
FamilyInit ==
  \/ part = "parker" /\ Init
     /\ Scheduler!Init
  \/ part = "scheduler" /\ Scheduler!Init
     /\ Init

ParkerStep ==
  /\ part = "parker" /\ Next
  /\ UNCHANGED <<part, schedulerVars>>
SchedulerStep ==
  /\ part = "scheduler" /\ Scheduler!Next
  /\ UNCHANGED <<part, vars>>

FamilyNext ==
  \/ ParkerStep \/ SchedulerStep
familyVars == <<part, vars, schedulerVars>>

InParker(A) == part = "parker" /\ A /\ UNCHANGED <<part, schedulerVars>>
InScheduler(A) == part = "scheduler" /\ A /\ UNCHANGED <<part, vars>>
FamilySpec ==
  /\ FamilyInit /\ [][FamilyNext]_familyVars
  /\ WF_familyVars(InParker(ParkStep)) /\ WF_familyVars(InScheduler(Scheduler!OwnerProgress))
  /\ \A u \in Unparkers : /\ WF_familyVars(InParker(NotifyOne(u)))
                         /\ SF_familyVars(InParker(PassMutex(u)) \/ InScheduler(Scheduler!Submit(u)))
-----------------------------------------------------------------------------
\* Every task is in one place, the owner does not park on work, and a drop that returned left
\* nothing behind (Scheduler).
SchedulerSound == 
  Scheduler!TasksAccounted /\ Scheduler!ParkedMeansIdle /\ Scheduler!DropLeavesNothing
\* A queued task is polled although others wake themselves for ever (next_task).
NobodyStarves == part = "scheduler" => Scheduler!NobodyStarves
=============================================================================
