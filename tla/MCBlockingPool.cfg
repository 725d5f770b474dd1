SPECIFICATION FairSpec
CONSTANTS
  Threads = {t1, t2, t3}
  Tasks = {k1, k2, k3, k4}
  thread_cap = 2
  MaxSpawnFail = 1
  NoTask = NoTask
INVARIANTS
  CountersSound
  NoStrandedTask
PROPERTIES
  ImplementsTaskService
  EveryTaskSettles
  DropTerminates
