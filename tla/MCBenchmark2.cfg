SPECIFICATION FairBenchSpec
CONSTANTS
  Parts       = {"atomsnap", "urcu", "pool", "statistics"}
  Threads     = {w1, r1}
  Writers     = {w1}
  Readers     = {r1}
  Slots       = {0, 1}
  M           = 3
  Versions    = {va, vb, vc}
  NW          = 2
  NR          = 1
  SyncBatch   = 2
  Reclaims    = {"async", "sync-batch"}
  UrcuBlocks  = {b1, b2, b3, b4}
  NS          = 2
  Blocks      = {b1, b2, b3}
  MaxSeq      = 2
  T           = 4
  USER        = USER
  MaxNs       = 2
  MaxAdds     = 4
  NULL        = NULL
\* The backends end.
CHECK_DEADLOCK FALSE
INVARIANTS
  NoMismatch
  BlockHasOneOwner
  PendingIsRight
  StaleWordDiffers
  EveryBlockOnce
  StatsAreExact
PROPERTY
  BenchmarkEnds
