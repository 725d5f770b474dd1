SPECIFICATION FairSpec
CONSTANTS
  Sockets = {s1}
  NoSocket = NoSocket
  Workers = {1, 2, 3}
  Threads = 2
  SystemExit = FALSE
  Ops = {"StopGraceful", "StopForced", "Term", "Int", "Pause", "Resume"}
  MaxOps = 1
  MaxConns = 1
  MaxErrors = 1
  MaxFlips = 1
INVARIANTS
  ServerSound

  
CHECK_DEADLOCK FALSE
