SPECIFICATION FairSpec
CONSTANTS
  Conns = {c1, c2}
  Services = {1, 2}
  First <- OwnFactories
  Capacity = 1
  Stops = {g1, f1}
  Graceful = {g1}
  NoStop = NoStop
  MaxFlips = 1
INVARIANTS
  WorkerSound
PROPERTIES
  WorkerProgress
CHECK_DEADLOCK FALSE
