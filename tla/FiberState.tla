----------------------------- MODULE FiberState -----------------------------
(***************************************************************************)
(* The atomic word of a task (src/fiber/inner/state.rs): a set of flags    *)
(* and, kept apart by the callers, the number of wakers.  Every transition *)
(* is one read-modify-write, here an operator from the flags before to the *)
(* flags after.  A compare-and-swap loop is the one exchange that          *)
(* succeeds; it is repeated until nobody interferes.                       *)
(***************************************************************************)
EXTENDS Naturals

Flags == {"RUNNING", "NOTIFIED", "COMPLETE", "RELEASED",
          "JOIN_INTEREST", "JOIN_WAKER", "CANCELLED"}

Xor(s, delta) == (s \ delta) \cup (delta \ s)

new_joinable == {"NOTIFIED", "JOIN_INTEREST"}

is_active(s) == "COMPLETE" \notin s /\ "CANCELLED" \notin s

is_terminal(s) == ~ is_active(s) \/ ("NOTIFIED" \in s /\ "RUNNING" \in s)

\* Mutant: the wakers are not counted as references.
M_final_ref_without_wakers(s, wakers) ==
  "RELEASED" \in s /\ "JOIN_INTEREST" \notin s

is_final_ref(s, wakers) ==
  "RELEASED" \in s /\ "JOIN_INTEREST" \notin s /\ wakers = 0

\* Finding RUNNING already set is how a cancellation of a notified task shows.
transition_to_running(s) ==
  Xor(s, {"RUNNING", "NOTIFIED"})
    \cup (IF "RUNNING" \in s THEN {"CANCELLED"} ELSE {})

\* Finding RUNNING cleared is how a cancellation of a running task shows.
transition_to_idle(s) ==
  Xor(s, {"RUNNING"}) \cup (IF "RUNNING" \in s THEN {} ELSE {"CANCELLED"})

transition_to_complete(s) == Xor(s, {"RUNNING", "COMPLETE"})

transition_to_released(s) == Xor(s, {"RUNNING", "COMPLETE", "RELEASED"})

transition_to_canceled_from_queue(s) == s \cup {"CANCELLED"}

\* Only a task that is neither running nor notified is cancelled here and now;
\* the others are left a signal in RUNNING and NOTIFIED.
transition_to_canceled_from_list(s) ==
  IF ~ is_active(s) THEN s
  ELSE IF "RUNNING" \in s THEN (s \ {"RUNNING"}) \cup {"NOTIFIED"}
  ELSE IF "NOTIFIED" \in s THEN s \cup {"RUNNING"}
  ELSE s \cup {"CANCELLED"}

release_task(s) == s \cup {"RELEASED"}

transition_to_notified(s) == s \cup {"NOTIFIED"}

\* The value transition_to_notified returns: the caller must schedule the task.
must_schedule(s) ==
  s \cap {"RUNNING", "NOTIFIED", "COMPLETE", "CANCELLED"} = {}

complete_join_handle(s) == s \ {"JOIN_INTEREST"}

\* Err(prev) when the task is no longer active: the flags stay as they are.
drop_join_handle_slow(s) ==
  IF is_active(s) THEN s \ {"JOIN_INTEREST", "JOIN_WAKER"} ELSE s

store_join_waker(s) == Xor(s, {"JOIN_WAKER"})

unset_waker(s) == IF is_active(s) THEN s \ {"JOIN_WAKER"} ELSE s
=============================================================================
