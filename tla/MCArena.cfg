SPECIFICATION FairSpec
CONSTANTS
  Threads     = {t1, t2}
  N           = 3
  MaxArenas   = 2
  VectorInit  = 1
  OutOfMemory = {"arena", "vector"}
  NULL        = NULL
INVARIANTS
  AllocatorInv
  EverySlotOnce
  DepthIsLength
  DroppedArenaIsUnused
  StealFindsSlots
PROPERTIES
  AllocReturns
  ReturnedSlotIsFound
  ImplementsPool
  PushLoopsOnlyUnderTraffic
