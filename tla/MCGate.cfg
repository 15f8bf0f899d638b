SPECIFICATION Spec
CONSTANTS
  Threads  = {t1, t2, t3}
  Versions = {v1, v2}
  Slots    = {c1}
  NULL     = NULL
  M        = 4
SYMMETRY Symmetry
INVARIANTS
  TypeOK
  HeldIsIntact
  NoDoubleFinalize
  NoOrphan
  DestroyedGateLeaksNothing
  IInv
