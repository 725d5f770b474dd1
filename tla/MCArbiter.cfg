SPECIFICATION FairSpec
CONSTANTS
  Arbs = {1}
  Jobs = {1}
  Codes = {0, 7}
  Modes = {"run", "drop", "async"}
  StopOnPanic = TRUE
  MaxStops = 1
  MaxExits = 1
  MaxBlocks = 1
INVARIANTS
  ArbiterSound
PROPERTIES
  ArbiterProgress
CHECK_DEADLOCK FALSE
