------------------------------- MODULE Parker -------------------------------
(***************************************************************************)
(* What Park and Unpark promise (the module comment of                     *)
(* src/krse/thread/park.rs): a token that unpark makes available and that  *)
(* park waits for and consumes; park_timeout may also give up.             *)
(***************************************************************************)
VARIABLES
  token,     \* the token is available
  inside,    \* the thread is inside park or park_timeout
  timed      \* ... inside park_timeout

vars == <<token, inside, timed>>

Init == token = FALSE /\ inside = FALSE /\ timed = FALSE

Enter ==
  /\ ~ inside
  /\ inside' = TRUE /\ timed' \in BOOLEAN
  /\ UNCHANGED token

Consume ==
  /\ inside /\ token
  /\ inside' = FALSE /\ token' = FALSE
  /\ UNCHANGED timed

TimeOut ==
  /\ inside /\ timed /\ ~ token
  /\ inside' = FALSE
  /\ UNCHANGED <<token, timed>>

Unpark == token' = TRUE /\ UNCHANGED <<inside, timed>>

Next == Enter \/ Consume \/ TimeOut \/ Unpark

Spec == Init /\ [][Next]_vars

\* Once the token is there, park returns.
FairSpec == Spec /\ WF_vars(Consume)
=============================================================================
