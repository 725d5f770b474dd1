SPECIFICATION FairSpec
CONSTANTS
  Wakers = {w1, w2}
  Ctxs = {c1, c2}
  NoWaker = NoWaker
INVARIANTS
  FiberSound

  
