SPECIFICATION FairSpec
CONSTANTS
  Threads    = {t1, t2, t3}
  MaxThreads = 3
  Faults     = {"calloc", "setspecific"}
  NULL       = NULL
INVARIANTS
  CountInv
  ContextExclusive
  UsedIffHad
  NoSpuriousRefusal
PROPERTY
  InitReturns
