SPECIFICATION FamilySpec
INVARIANTS
  ReadinessSound
  IoSound
  SlabSound
  TimersSound
  
  
  ThreadPoolSound
CHECK_DEADLOCK FALSE
