---------------------------- MODULE TaskService ----------------------------
(***************************************************************************)
(* What a pool promises the callers of spawn_blocking, with no threads,    *)
(* queue or counters in sight: a task handed to an open pool is accepted,  *)
(* an accepted task is run once or shut down, and a task handed to a       *)
(* closed pool is shut down at once.  BlockingPool implements this.        *)
(***************************************************************************)
CONSTANT Tasks

VARIABLES
  status,   \* what has become of each task
  open      \* whether the pool still accepts tasks

tsVars == <<status, open>>

Status == {"new", "accepted", "running", "done", "cancelled"}

Init ==
  /\ status = [k \in Tasks |-> "new"]
  /\ open = TRUE

Move(k, from, to) ==
  /\ status[k] = from
  /\ status' = [status EXCEPT ![k] = to]
  /\ UNCHANGED open

Accept(k) == open /\ Move(k, "new", "accepted")
Refuse(k) == ~open /\ Move(k, "new", "cancelled")
Begin(k) == Move(k, "accepted", "running")
Finish(k) == Move(k, "running", "done")

\* Only a closed pool gives up a task it has accepted.
GiveUp(k) == ~open /\ Move(k, "accepted", "cancelled")

Close ==
  /\ open
  /\ open' = FALSE
  /\ UNCHANGED status

Next ==
  \/ \E k \in Tasks : Accept(k) \/ Refuse(k) \/ Begin(k) \/ Finish(k) \/ GiveUp(k)
  \/ Close

Spec == Init /\ [][Next]_tsVars
=============================================================================
