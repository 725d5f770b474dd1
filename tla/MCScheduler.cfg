SPECIFICATION FamilySpec
CONSTANTS
  Unparkers = {"u1", "u2"}
INVARIANTS
  ParkSound
  SchedulerSound
PROPERTIES
  ImplementsParker
  ParkReturns
  NobodyStarves
CHECK_DEADLOCK FALSE
