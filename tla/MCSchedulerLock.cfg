SPECIFICATION Spec
CONSTANTS
  Tasks = {t1, t2}
  Threads = {h1}
  NoTask = NoTask
  CHECK_REMOTE_INTERVAL = 2
  MAX_TASKS_PER_TICK = 2
  TickWrap = 3
  DropWakes = TRUE
CHECK_DEADLOCK FALSE
INVARIANTS
  CloseRemoteSafeInDrop
