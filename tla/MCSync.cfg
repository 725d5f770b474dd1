SPECIFICATION FamilySpec
CONSTANTS
  Consumers = {c1}
  Producers = {p1, p2, p3}
  None = None
  MaxWakes = 2
  RxWakers = {"w1", "w2"}
  TxWakers = {"v1", "v2"}
  NoWaker = "none"
  Futures = {"f1", "f2", "f3"}
  Notifiers = {"n1", "n2"}
  Nobody = "nobody"
  MaxNotify = 2
  WatchThreads = {"t1"}
  Receivers = {"r1", "r2"}
  FirstReceiver = "r1"
  MaxBroadcast = 2
  Tasks = {"t1", "t2", "t3"}
  N = 2
  MaxWait = 3
  Nil = Nil
  Closed = Closed
INVARIANTS
  FieldSafe
  NoLostWakeup
  OneshotSound
  SemaphoreSound
  ChannelsSound
  NotifySound
  WatchSound
  RendezvousSound
  
CHECK_DEADLOCK FALSE
